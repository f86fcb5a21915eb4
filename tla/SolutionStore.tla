--------------------------- MODULE SolutionStore ----------------------------
(***************************************************************************)
(* The solutions on disk (src/matrix/mm_parse.py): a file for each, and a  *)
(* database, a text file with a line for each, which is only appended to.  *)
(* Programs read the database when they start.  A solution is known by the *)
(* hash of its canonical form, here the solution itself.                   *)
(*                                                                         *)
(* To record a solution is a sequence of steps of the program that records *)
(* it, one program at a time here; rec is where it is.                     *)
(***************************************************************************)
EXTENDS Integers, FiniteSets, SequencesExt

CONSTANTS Solutions,
          Heule       \* those of the other database, whose files are there

ASSUME StoreAssumption == Heule \subseteq Solutions

VARIABLES db,     \* the lines of the generated database
          files,  \* of each solution: "none", "empty", "full"
          rec,    \* [who, scheme, step] of the recording under way
          failures  \* bound: how often opening or writing may still fail

store == <<db, files, rec, failures>>

NoRecord == [who |-> "nobody", scheme |-> "none", step |-> "idle"]

InitStore(n) ==
             /\ db = <<>>
             /\ files = [s \in Solutions |-> IF s \in Heule THEN "full" ELSE "none"]
             /\ rec = NoRecord
             /\ failures = n

(* loadDatabase: the first line of a hash counts.                          *)
loadDatabase == ToSet(db)

recordSolution(who, s) == rec' = [who |-> who, scheme |-> s, step |-> "open"]
Step(from, to) == /\ rec.step = from
                  /\ rec' = [rec EXCEPT !.step = to]

(* The file is opened, which empties it, and it is written when closed.    *)
OpenFile == /\ Step("open", "write")
            /\ files' = [files EXCEPT ![rec.scheme] = "empty"]
            /\ UNCHANGED <<db, failures>>
\* (mutant) the file is not closed before its line is added
LeaveOpen == Step("write", "append") /\ UNCHANGED <<db, files, failures>>
WriteFile == /\ Step("write", "append")
             /\ files' = [files EXCEPT ![rec.scheme] = "full"]
             /\ UNCHANGED <<db, failures>>
AppendLine == /\ Step("append", "return")
              /\ db' = Append(db, rec.scheme)
              /\ UNCHANGED <<files, failures>>

(* A directory or a file that cannot be made is reported, and the caller   *)
(* goes on as after a success.                                             *)
CannotOpen == /\ rec.step \in {"open", "append"}
              /\ failures > 0
              /\ failures' = failures - 1
              /\ rec' = [rec EXCEPT !.step = "return"]
              /\ UNCHANGED <<db, files>>
(* A write that fails is an exception in the caller.                       *)
CannotWrite == /\ rec.step \in {"write", "append"}
               /\ failures > 0
               /\ failures' = failures - 1
               /\ rec' = [rec EXCEPT !.step = "raise"]
               /\ UNCHANGED <<db, files>>

Recording == OpenFile \/ WriteFile \/ AppendLine \/ CannotOpen \/ CannotWrite
=============================================================================
