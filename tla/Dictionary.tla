------------------------------ MODULE Dictionary ----------------------------
(***************************************************************************)
(* The dictionary benchmark (benchmarks/dictionary/dencode.py): a formula  *)
(* over the characters at each position that is true for the words of a    *)
(* list.  A character is a number, a word a sequence of characters; the    *)
(* trie is the set of its words, a node of it is a prefix of a word.  A    *)
(* job has the words, the characters of the character set that no word has *)
(* (extra), and how characters are encoded: one variable for each (onh),   *)
(* or their binary numbers, with zdd and add as the kind of the functions. *)
(***************************************************************************)
EXTENDS ScriptRun

words == job.words
depth == Max({0} \union {Len(w) : w \in words})     \* TrieNode.height
alphabet == SortSeq(FoldSet(LAMBDA ch, list : Append(list, ch), <<>>,
                            job.extra \union UNION {ToSet(w) : w \in words}), <)
radix == Len(alphabet)
logradix == CHOOSE l \in 0 .. radix : 2 ^ l >= radix + 1 /\ \A k \in 0 .. l - 1 : 2 ^ k < radix + 1
c2i(ch) == (CHOOSE n \in DOMAIN alphabet : alphabet[n] = ch) - 1
positions == [n \in 1 .. depth |-> n - 1]

(* The variables of a position, and the functions the rest is built from.  *)
cnt == IF job.onh THEN radix ELSE logradix
Var(prefix, i) == [idx \in 1 .. cnt |-> <<prefix, idx - 1, i>>]
declared == IF job.zdd \/ job.add THEN "b" ELSE "v"

(* The code of the character with number idx; the end of a word has the    *)
(* first number that no character has.                                     *)
Code1(idx) == [n \in 1 .. cnt |-> IF job.onh THEN n - 1 = idx ELSE getBit(idx, n - 1) = 1]
selectorName(ch, i) == IF ch = <<>> THEN <<"c-term", i>> ELSE <<"c", ch[1], i>>
genSelector(c, ch, i) ==
    LET code == Code1(IF ch = <<>> THEN radix ELSE c2i(ch[1]))
        v == Var("v", i)
    IN  andN(c, selectorName(ch, i), [n \in DOMAIN v |-> IF code[n] THEN v[n] ELSE Neg(v[n])])

terminalName(i) == <<"term", i>>
\* (mutant) the last position is left free
genTerminalShort(c, i) ==
    andN(c, terminalName(i), [n \in 1 .. depth - i - 1 |-> selectorName(<<>>, i + n - 1)])
genTerminal(c, i) ==
    andN(c, terminalName(i), [n \in 1 .. depth - i |-> selectorName(<<>>, i + n - 1)])

-----------------------------------------------------------------------------
(* Formula.setup                                                           *)
DictDeclare ==
    /\ job.prog = "dencode"
    /\ DeclareAs(ckt, FlattenSeq([n \in DOMAIN positions |-> Var(declared, positions[n])]), "dict-convert")

DictConvert ==
    LET convert(d, i) == CASE job.zdd -> zcV(d, Var("v", i), Var("b", i))
                           [] job.add -> acV(d, Var("v", i), Var("b", i))
    IN  Part("dict-convert", "selectors",
             IF job.zdd \/ job.add THEN FoldLeft(convert, ckt, positions) ELSE ckt)

DictSelectors ==
    LET ofPosition(d, i) ==
            genSelector(FoldLeft(LAMBDA e, ch : genSelector(e, <<ch>>, i), d, alphabet), <<>>, i)
    IN  Part("selectors", "terminals", FoldLeft(ofPosition, ckt, positions))

DictTerminals == Part("terminals", "encode", FoldLeft(genTerminal, ckt, Append(positions, depth)))

(* TrieNode.encode: first the nodes below, then what they are combined to. *)
Children(prefix) == SelectSeq(alphabet, LAMBDA ch : \E w \in words : IsPrefix(Append(prefix, ch), w))
subname(prefix) == <<"d">> \o prefix

RECURSIVE encode(_, _)
encode(c, prefix) ==
    LET at == Len(prefix)
        name == IF prefix = <<>> THEN <<"dict">> ELSE subname(prefix)
        word(d) == IF prefix \in words THEN orN(d, name, <<name, terminalName(at)>>) ELSE d
        child(d, ch) ==
            LET cname == subname(Append(prefix, ch))
                sname == <<"s">> \o cname
                c1 == andN(d, sname, <<selectorName(<<ch>>, at), cname>>)
            IN  Delete(orN(c1, name, <<name, sname>>), <<cname, sname>>)
        below == FoldLeft(LAMBDA d, ch : encode(d, Append(prefix, ch)), c, Children(prefix))
    IN  FoldLeft(child, word(orN(below, name, <<>>)), Children(prefix))

DictEncode == Part("encode", "finish-dict", encode(ckt, <<>>))
DictFinish == Part("finish-dict", "done", Report(ckt, <<<<"dict">>>>))

DictionaryNext == DictDeclare \/ DictConvert \/ DictSelectors \/ DictTerminals \/ DictEncode
                    \/ DictFinish

-----------------------------------------------------------------------------
Spells(w) ==
    \A n \in DOMAIN positions :
        LET idx == IF n <= Len(w) THEN c2i(w[n]) ELSE radix
        IN  \A m \in 1 .. cnt : in[Var(declared, n - 1)[m]] = Code1(idx)[m]

(* The dictionary's function is true for the encodings of its words, each  *)
(* filled with ends of words, and for no other; and of the functions of    *)
(* the trie's nodes none is left, nor deleted before its last use.         *)
DictionaryRight ==
    Done /\ job.prog = "dencode" =>
        /\ Get(<<"dict">>) = \E w \in words : Spells(w)
        /\ \A x \in Left : x[1] \notin {"d", "s"}
=============================================================================
