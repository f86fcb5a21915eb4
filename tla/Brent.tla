-------------------------------- MODULE Brent -------------------------------
(***************************************************************************)
(* A scheme that is read from a file (src/matrix/brent.py), and that the   *)
(* programs which use the class change by one call after another.          *)
(***************************************************************************)
EXTENDS BrentSchemes

CONSTANTS Schemes,     \* the schemes that files hold
          MaxCalls     \* bound

VARIABLES file,    \* the scheme that was read
          scheme,  \* the scheme now
          matcher, \* what findSymmetry returned last; <<>> stands for None
          multiplied,  \* whether scheme is the result of productTransform
          calls

vars == <<file, scheme, matcher, multiplied, calls>>

Complete(s) == DOMAIN s.asst = Variables(s.dim, s.aux)

Init == /\ file \in Schemes
        /\ scheme = file
        /\ matcher = <<>>
        /\ multiplied = FALSE
        /\ calls = 0

Changed(s) == /\ calls < MaxCalls /\ calls' = calls + 1
              /\ scheme' = s
              /\ UNCHANGED file
Call(s) == Changed(s) /\ UNCHANGED multiplied

(* A set of permuters, as SchemeGenerator.select and the canonical forms   *)
(* use them; and two levels in a row.                                      *)
Permute == /\ \E pset \in allPermuterSets(scheme.dim, scheme.aux) : Call(permute(scheme, pset))
           /\ UNCHANGED matcher
PermuteLevels == /\ \E l \in 1 .. scheme.aux - 1 :
                       Call(WithLevels(scheme, [Identity(unitRange(scheme.aux)) EXCEPT
                                                  ![l] = l + 1, ![l + 1] = l]))
                 /\ UNCHANGED matcher
Canonize == Complete(scheme) /\ Call(canonize(scheme)) /\ UNCHANGED matcher
SymmetricCanonize == /\ Complete(scheme)
                     /\ \E t \in Range(symmetricCanonize(scheme)) : Call(t)
                     /\ UNCHANGED matcher
FindSymmetry == /\ Complete(scheme) /\ scheme.dim[1] = scheme.dim[3]
                /\ Call(scheme)
                /\ matcher' = findSymmetry(scheme)
SendBundle == Complete(scheme) /\ Call(unbundle(bundle(scheme))) /\ UNCHANGED matcher
(* lcompress.py: of each two levels the later is merged into the earlier;  *)
(* the other way round the class calls itself without the mode.            *)
LevelPairs(s) == {<<from, to>> \in unitRange(s.aux) \X unitRange(s.aux) : to < from}
MergeLevels == /\ \E pair \in LevelPairs(scheme), mode \in 0 .. 3 :
                     Call(mergeSchemeLevels(scheme, pair[1], pair[2], mode))
               /\ UNCHANGED matcher

(* mtest.py: a scheme that was just read, multiplied by a pair of one of   *)
(* the lists for its matrices, in canonical form; the lists are numbers.   *)
PairLists == [n \in {s.dim[2] : s \in Schemes} |->
                 [unique |-> showPairs(uniquePairs(n)), all |-> showPairs(allPairs(n)),
                  permutation |-> showPairs(allPermutations(n))]]
PairOf(n, sigs) == <<MatrixOf(n, sigs[1]), MatrixOf(n, sigs[2])>>
MultiplyByPair ==
    LET n == scheme.dim[2]
    IN  /\ calls = 0 /\ Complete(scheme)
        /\ \E which \in {"unique", "all", "permutation"} : \E sigs \in Range(PairLists[n][which]) :
              Changed(canonize(productTransform(scheme, PairOf(n, sigs))))
        /\ multiplied' = TRUE
        /\ UNCHANGED matcher

Rearrange == Permute \/ PermuteLevels \/ Canonize \/ SymmetricCanonize \/ SendBundle
Next == Rearrange \/ MultiplyByPair \/ FindSymmetry \/ MergeLevels
Spec == Init /\ [][Next]_vars
=============================================================================
