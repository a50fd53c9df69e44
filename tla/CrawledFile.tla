----------------------------- MODULE CrawledFile -----------------------------
(***************************************************************************)
(* zhihu_data.txt: what spider.py writes, and what DataBase::parseQuestion *)
(* and parseAnswers read from it.  The spider is killed at three o'clock,  *)
(* so that the file may end anywhere.                                      *)
(*                                                                         *)
(* A text is a sequence of runes other than CR; LF may occur inside.       *)
(***************************************************************************)
EXTENDS Selections, SequencesExt, FiniteSetsExt

CONSTANTS CR, LF       \* '\r' and '\n'

EndOfText == <<LF, CR, LF>>

Written(c) ==
  c.title \o EndOfText \o c.detail \o EndOfText
    \o FlattenSeq([i \in 1..Len(c.answers) |-> c.answers[i] \o EndOfText]) \o <<CR, CR, LF>>

Contents(crawled) == FlattenSeq([i \in 1..Len(crawled) |-> Written(crawled[i])])

(* The places from i to k where seq holds e, in order.                     *)
Places(seq, e, i, k) == InOrder({n \in i..k : seq[n] = e})

(* What getline reads until eof() is true: what follows the last '\n' is a *)
(* line too, if only an empty one.                                         *)
Lines(content) ==
  LET ends == Places(content, LF, 1, Len(content))
      first(k) == IF k = 1 THEN 1 ELSE ends[k - 1] + 1
      last(k) == IF k > Len(ends) THEN Len(content) ELSE ends[k] - 1
  IN  [k \in 1..(Len(ends) + 1) |-> SubSeq(content, first(k), last(k))]

(* The first line from i on that is end, or the line after the last.       *)
EndOf(lines, i, end) == Min({k \in i..Len(lines) : lines[k] = end} \cup {Len(lines) + 1})

(* The line after k, if there is one.                                      *)
After(lines, k) == Min({k, Len(lines)}) + 1

(* line + "\n" for the lines i..k, and the same without the last '\n'.     *)
Text(lines, i, k) == FlattenSeq([n \in 1..(k + 1 - i) |-> Append(lines[i + n - 1], LF)])
WithoutLast(text) == IF text = << >> THEN << >> ELSE Front(text)

(* The question that begins at line i, and where its answers begin.        *)
ParseQuestion(lines, i) ==
  LET e == EndOf(lines, i, <<CR>>)
      text == Text(lines, i, e - 1)
  IN  [question |-> IF e <= Len(lines) THEN WithoutLast(text) ELSE text,
       next |-> After(lines, EndOf(lines, e + 1, <<CR>>))]

(* An answer that is empty is dropped.                                     *)
NotEmpty(answers) == Kept(answers, {n \in 1..Len(answers) : answers[n] # << >>})

(* Fault: what is left at the end of the file counts as an answer.         *)
ParseAnswers_Rest(lines, i) ==
  LET end == EndOf(lines, i, <<CR, CR>>)
      ends == Append(Places(lines, <<CR>>, i, end - 1), end)
      first(n) == IF n = 1 THEN i ELSE ends[n - 1] + 1
      answers == [n \in 1..Len(ends) |-> WithoutLast(Text(lines, first(n), ends[n] - 1))]
  IN  [answers |-> NotEmpty(answers), next |-> After(lines, end)]

(* The answers from line i on, without those that are empty or that no     *)
(* "\r" ends, and where the next question begins.                          *)
ParseAnswers(lines, i) ==
  LET end == EndOf(lines, i, <<CR, CR>>)
      ends == Places(lines, <<CR>>, i, end - 1)
      first(n) == IF n = 1 THEN i ELSE ends[n - 1] + 1
      answers == [n \in 1..Len(ends) |-> WithoutLast(Text(lines, first(n), ends[n] - 1))]
  IN  [answers |-> NotEmpty(answers), next |-> After(lines, end)]

(* What the loop of updateDataBase looks for in the database: the          *)
(* questions that are not empty and have answers.                          *)
Entries(content) ==
  LET lines == Lines(content)
      from[i \in 1..(Len(lines) + 1)] ==
        IF i > Len(lines) THEN << >>
        ELSE LET q == ParseQuestion(lines, i)
                 a == ParseAnswers(lines, q.next)
                 rest == from[a.next]
             IN  IF q.question = << >> \/ a.answers = << >> THEN rest
                 ELSE <<[question |-> q.question, answers |-> a.answers]>> \o rest
  IN  from[1]

=============================================================================
