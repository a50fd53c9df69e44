--------------------------- MODULE MCQuestionStore ---------------------------
(* Questions of two words, with a word in common.                          *)
EXTENDS QuestionStoreAlone, TLC

CONSTANTS t1, t2, t3, w1, w2, w3, w4, a, b

MCWordsOf ==
  [t \in Texts |-> CASE t = t1 -> <<w1, w2>> [] t = t2 -> <<w2, w3>> [] t = t3 -> <<w4>>]

(* A question clients ask too, one nobody answered, and another.           *)
MCCrawled == <<[text |-> t2, answers |-> 2], [text |-> t1, answers |-> 0],
               [text |-> t3, answers |-> 1]>>

(* Bounds of the behaviours in which two threads were busy at once:        *)
(* requests, crawls, crashes, failures, entries of the file, and texts.    *)
SmallWhenOverlapped ==
  overlapped => /\ requests <= 2 /\ crawls <= 1 /\ crashes = 0 /\ Len(file) <= 1
                /\ requests + crawls <= 2 /\ failures = 0
                /\ \A q \in question : q.text # t3 /\ (q.questionId = 1 => q.text = t1)
                /\ \A t \in Threads : job[t].text # t3

(* Bound: requests, runs of the crawler and failures together.             *)
MaxInAll == 4

FewInAll == requests + crawls + failures <= MaxInAll

(* Else one thread serves all requests: which one does not matter.         *)
OneServes ==
  overlapped \/ \E t \in Workers : \A u \in Workers \ {t} :
    \E q \in Rows(1) : job[u] = Job("ask", q.text)

(* Only the first file ends inside an entry.                               *)
LaterFilesAreWhole ==
  crawls > 1 => \A i \in DOMAIN file : file[i] = Crawled[i]

MCNext ==
  /\ AloneNext
  /\ FewInAll' /\ SmallWhenOverlapped' /\ OneServes' /\ LaterFilesAreWhole'

MCSpec == AloneInit /\ [][MCNext]_<<vars, overlapped>>

Symmetry == Permutations(Workers)
=============================================================================
