------------------------------ MODULE Segmenter ------------------------------
(***************************************************************************)
(* cppjieba's CutForSearch: how a text becomes the words that questions    *)
(* are stored under and searched by.                                       *)
(*                                                                         *)
(* A text is a sequence of runes, a word range <<left, right>> of places   *)
(* in it.  Every stage of the cut only splits or adds ranges, so a cut is  *)
(* a set of ranges that is put in order at the end.  Weights are integers, *)
(* with Floor for MIN_DOUBLE.                                              *)
(***************************************************************************)
EXTENDS Selections, SequencesExt, FiniteSetsExt

CONSTANTS
  Letters, Digits, Dot, Ascii,   \* runes below 0x80
  Separators,       \* symbols_ of SegmentBase
  DictLines,        \* jieba.dict.utf8: <<word, weight>>, the logarithm taken
  UserLines,        \* user.dict.utf8: <<word>> or <<word, weight>>
  StartProb,        \* hmm_model.utf8: of every status,
  TransProb,        \*   of every status and its successor,
  EmitProb,         \*   of a status and a rune, where it has one
  Floor             \* MIN_DOUBLE

Status == {"B", "E", "M", "S"}
Weights == (Floor + 1)..0
Words(lines) == {lines[i][1] : i \in 1..Len(lines)}

ASSUME SegmenterAssumption ==
  /\ Letters \cup Digits \cup {Dot} \subseteq Ascii
  /\ Floor \in Int /\ Floor < 0
  /\ Len(DictLines) \in Nat \ {0} /\ Len(UserLines) \in Nat
  /\ \A i \in 1..Len(DictLines) : DictLines[i][1] # <<>> /\ DictLines[i][2] \in Weights
  /\ \A i \in 1..Len(UserLines) : Len(UserLines[i]) = 2 => UserLines[i][2] \in Int
  /\ StartProb \in [Status -> Weights \cup {Floor}]
  /\ TransProb \in [Status -> [Status -> Weights \cup {Floor}]]
  /\ DOMAIN EmitProb = Status
  /\ \A y \in Status : \A c \in DOMAIN EmitProb[y] : EmitProb[y][c] \in Weights \cup {Floor}

-----------------------------------------------------------------------------
(* DictTrie.                                                               *)

(* The k-th weight after they are sorted: less than k are smaller.         *)
Sorted(k) ==
  CHOOSE w \in {DictLines[i][2] : i \in 1..Len(DictLines)} :
    /\ Cardinality({i \in 1..Len(DictLines) : DictLines[i][2] < w}) < k
    /\ Cardinality({i \in 1..Len(DictLines) : DictLines[i][2] <= w}) >= k

MinWeight == Sorted(1)
UserWordDefaultWeight == Sorted((Len(DictLines) \div 2) + 1)

(* What the trie holds for a word: the last line for it counts, and the    *)
(* user dictionary comes after the other.                                  *)
WeightIn(lines, w) == lines[Max({i \in 1..Len(lines) : lines[i][1] = w})]

Trie == [w \in (Words(DictLines) \cup Words(UserLines)) \ {<<>>} |->
  IF w \in Words(UserLines)
    THEN IF Len(WeightIn(UserLines, w)) = 2 THEN WeightIn(UserLines, w)[2]
         ELSE UserWordDefaultWeight
    ELSE WeightIn(DictLines, w)[2]]

IsUserDictSingle(rune) == <<rune>> \in Words(UserLines)

InTrie(s, l, r) == SubSeq(s, l, r) \in DOMAIN Trie

(* Trie::Find with a Dag: where a word that begins at i may end.  A single *)
(* rune always is one.                                                     *)
Nexts(s, i, last) == {i} \cup {j \in i..last : InTrie(s, i, j)}

UnitWeight(s, i, j) == IF InTrie(s, i, j) THEN Trie[SubSeq(s, i, j)] ELSE MinWeight

-----------------------------------------------------------------------------
(* MPSegment: the cut of the greatest weight, from the end to the front.   *)

(* Fault: the weight after a word is always that of the next rune.         *)
ValueOf_NextRune(s, i, j, last, dags) ==
  UnitWeight(s, i, j) + IF j = last THEN 0 ELSE dags[1].weight

(* What CalcDP makes of the next that ends at j; dags are those after i.   *)
ValueOf(s, i, j, last, dags) ==
  UnitWeight(s, i, j) + IF j = last THEN 0 ELSE dags[j + 1 - i].weight

(* A value has to be greater to replace one: the shortest of the best      *)
(* words counts.                                                           *)
CalcDP(s, first, last) ==
  LET dags[i \in first..(last + 1)] ==
        IF i > last THEN << >>
        ELSE LET rest == dags[i + 1]
                 nexts == Nexts(s, i, last)
                 weight == Max({ValueOf(s, i, j, last, rest) : j \in nexts})
                 ends == {j \in nexts : ValueOf(s, i, j, last, rest) = weight}
             IN  <<[weight |-> weight, end |-> Min(ends)]>> \o rest
  IN  dags[first]

CutByDag(dags, first, last) ==
  LET words[i \in first..(last + 1)] ==
        IF i > last THEN {}
        ELSE LET end == dags[i + 1 - first].end IN {<<i, end>>} \cup words[end + 1]
  IN  words[first]

MPCut(s, first, last) == CutByDag(CalcDP(s, first, last), first, last)

-----------------------------------------------------------------------------
(* HMMSegment.                                                             *)

(* How many times Floor went into a weight.                                *)
Floors(a) == IF a <= Floor THEN (-a) \div (-Floor) ELSE 0

(* A double as small as Floor absorbs the weights that are added to it.    *)
Plus(a, b) == IF a <= Floor \/ b <= Floor THEN Floor * (Floors(a) + Floors(b)) ELSE a + b

GetEmitProb(y, rune) == IF rune \in DOMAIN EmitProb[y] THEN EmitProb[y][rune] ELSE Floor

(* Statuses in the order of the enumeration.                               *)
Order == <<"B", "E", "M", "S">>

(* Fault: the row and the column of transProb are swapped.                 *)
Transition_Swapped(old, preY, y, emit) == Plus(Plus(old[preY].weight, TransProb[y][preY]), emit)

(* What a status weighs after preY.                                        *)
Transition(old, preY, y, emit) == Plus(Plus(old[preY].weight, TransProb[preY][y]), emit)

(* weight and path of a rune, from those of the rune before.  Where no     *)
(* status before gives more than Floor, path stays E.                      *)
Step(old, rune) ==
  LET At(y) ==
        LET emit == GetEmitProb(y, rune)
            best == Max({Floor} \cup {Transition(old, preY, y, emit) : preY \in Status})
            preYs == {i \in 1..4 : Transition(old, Order[i], y, emit) = best}
        IN  [weight |-> best, path |-> IF best = Floor THEN "E" ELSE Order[Min(preYs)]]
  IN  [B |-> At("B"), E |-> At("E"), M |-> At("M"), S |-> At("S")]

Start(rune) == [y \in Status |-> [weight |-> Plus(StartProb[y], GetEmitProb(y, rune)), path |-> "E"]]

(* Fault: a text may end inside a word.                                    *)
EndStatus_Any(row) == CHOOSE y \in Status : \A z \in Status : row[y].weight >= row[z].weight

EndStatus(row) == IF row["E"].weight >= row["S"].weight THEN "E" ELSE "S"

(* The best statuses, from the last rune to the first.                     *)
Backwards(rows, first, last) ==
  LET status[x \in first..last] ==
        IF x = last THEN EndStatus(rows[x + 1 - first])
        ELSE rows[x + 2 - first][status[x + 1]].path
  IN  status

Viterbi(s, first, last) ==
  LET rows[x \in first..last] ==
        IF x = first THEN <<Start(s[x])>>
        ELSE LET before == rows[x - 1] IN Append(before, Step(before[x - first], s[x]))
  IN  Backwards(rows[last], first, last)

(* A word ends after every E and S.                                        *)
WordsThatEnd(ends, first) ==
  {<<Max({first} \cup {e + 1 : e \in {d \in ends : d < x}}), x>> : x \in ends}

InternalCut(s, first, last) ==
  LET status == Viterbi(s, first, last)
  IN  WordsThatEnd({x \in first..last : status[x] \in {"E", "S"}}, first)

(* The longest stretch of runes from i on that are all in R.               *)
Stretch(s, i, last, R) == Max({j \in (i - 1)..last : \A k \in i..j : s[k] \in R})

(* SequentialLetterRule, NumbersRule, or one rune.                         *)
AsciiEnd(s, i, last) ==
  CASE s[i] \in Letters -> Stretch(s, i, last, Letters \cup Digits)
    [] s[i] \in Digits  -> Stretch(s, i, last, Digits \cup {Dot})
    [] OTHER            -> i

(* The rules cut what is ASCII, the model what is between.                 *)
HMMCut(s, first, last) ==
  LET words[i \in first..(last + 1)] ==
        IF i > last THEN {}
        ELSE IF s[i] \in Ascii
          THEN LET e == AsciiEnd(s, i, last) IN {<<i, e>>} \cup words[e + 1]
          ELSE LET e == Max({j \in i..last : \A k \in i..j : s[k] \notin Ascii})
               IN  InternalCut(s, i, e) \cup words[e + 1]
  IN  words[first]

-----------------------------------------------------------------------------
(* MixSegment, QuerySegment and PreFilter.                                 *)

(* Maximal stretches of places of P.                                       *)
Stretches(P) ==
  {r \in P \X P : r[1] <= r[2] /\ r[1]..r[2] \subseteq P /\ {r[1] - 1, r[2] + 1} \cap P = {}}

(* What MPSegment leaves single, unless the user dictionary has it, is cut *)
(* by the HMM.                                                             *)
Recut(s, words) ==
  LET singles == {w \in words : w[1] = w[2] /\ ~IsUserDictSingle(s[w[1]])}
  IN  (words \ singles) \cup
      UNION {HMMCut(s, p[1], p[2]) : p \in Stretches({w[1] : w \in singles})}

MixCut(s, first, last) == Recut(s, MPCut(s, first, last))

(* PreFilter: separators, and what is between them.                        *)
Pieces(s) ==
  LET seps == {i \in 1..Len(s) : s[i] \in Separators} IN
  {<<i, i>> : i \in seps} \cup Stretches((1..Len(s)) \ seps)

Cut(s) == UNION {MixCut(s, p[1], p[2]) : p \in Pieces(s)}

(* Ranges that begin at different places, in the order of the text.        *)
Ordered(ranges) ==
  LET starts == InOrder({w[1] : w \in ranges})
  IN  [k \in 1..Len(starts) |-> CHOOSE w \in ranges : w[1] = starts[k]]

(* The words of two runes in a word, if it is longer, then those of three. *)
Parts(s, w) ==
  LET OfLength(n) ==
        IF w[2] - w[1] + 1 <= n THEN << >>
        ELSE Ordered({<<i, i + n - 1>> : i \in {j \in w[1]..(w[2] - n + 1) : InTrie(s, j, j + n - 1)}})
  IN  OfLength(2) \o OfLength(3) \o <<w>>

WithParts(s, cut) == FlattenSeq([i \in 1..Len(cut) |-> Parts(s, cut[i])])

WordsAt(s, ranges) == [i \in 1..Len(ranges) |-> SubSeq(s, ranges[i][1], ranges[i][2])]

CutForSearch(s) == WordsAt(s, WithParts(s, Ordered(Cut(s))))

=============================================================================
