------------------------- MODULE QuestionStoreProofs -------------------------
(***************************************************************************)
(* Proofs about QuestionStore, for any threads, texts and crawled file and *)
(* without its bounds' help: answers belong to the question that lists     *)
(* them, although the threads race for ids, overwrite each other's rows,   *)
(* and may die between any two statements, of which any may fail.  And     *)
(* about QuestionStoreAlone: as long as requests and updates come one at a *)
(* time, ids are unique, and but for statements that failed questions are  *)
(* found by their words, reported answers are listed, and the crawler's    *)
(* file is stored once and in full.                                        *)
(***************************************************************************)
EXTENDS QuestionStoreAlone, TLAPS

(* The answers an INSERT was made for.                                     *)
Sent == answer \cup failed.answers

(* A row, in the table or as a thread read it, lists answers to its text.  *)
Belongs(q) == \A i \in DOMAIN q.answerIds : <<q.answerIds[i], q.text>> \in Sent

(* The answers a thread inserted so far, or tried to.                      *)
InsertedAnswers(j) == \A n \in 0..(j.inserted - 1) : <<j.answerId + n, j.text>> \in Sent

(* The row a thread that answers a question works on.                      *)
RowRead(j) == j.row[1].text = j.text /\ Belongs(j.row[1])

Answering == {"takeAnswerId", "addAnswerNum", "insertAnswer", "updateQuestion"}

(* How far a thread is with its answers, at every statement.               *)
StageInv(t) ==
  LET j == job[t] IN
  /\ pc[t] \in {"takeQuestionId", "addQuestionNum"} =>
       j.kind # "answer" /\ j.inserted = 0 /\ (j.kind = "ask" <=> j.answers = 0)
  /\ pc[t] \in {"takeAnswerId", "addAnswerNum"} =>
       j.kind # "ask" /\ j.inserted = 0 /\ j.answers > 0
  /\ pc[t] = "insertAnswer" => j.kind # "ask" /\ j.inserted < j.answers
  /\ pc[t] \in {"words", "writeWord"} => j.kind # "answer" /\ j.inserted = j.answers
  /\ pc[t] = "writeWord" => j.words # << >>
  /\ pc[t] = "updateQuestion" => j.kind = "answer" /\ j.inserted = 1
  /\ j.kind = "answer" /\ pc[t] \in Answering => j.answers = 1 /\ j.row # << >>

(* What a thread relies on is in the table answer, and stays there.        *)
AnswerInv(t) ==
  LET j == job[t] IN
  /\ pc[t] \in {"insertAnswer", "words", "writeWord", "updateQuestion"} => InsertedAnswers(j)
  /\ j.kind = "answer" /\ pc[t] \in Answering => RowRead(j)

IInv ==
  /\ TypeOK
  /\ AnswersBelong
  /\ \A t \in Threads : StageInv(t)
  /\ \A t \in Threads : AnswerInv(t)

-----------------------------------------------------------------------------
LEMMA WordsType == \A x \in Texts : WordsOf[x] \in Seq(Words)
BY StoreAssumption DEF StoreAssumption, Words

LEMMA JobIsTyped ==
  ASSUME NEW kind \in {"ask", "answer", "crawl"}, NEW text \in Texts
  PROVE  Job(kind, text) \in JobType
<1>1. WordsOf[text] \in Seq(Words)
  BY WordsType
<1> QED
  BY <1>1 DEF Job, JobType

(* Changing one local variable, or the two a job starts with.             *)
LEMMA JobExcept ==
  ASSUME NEW j \in JobType
  PROVE  /\ \A n \in Nat : [j EXCEPT !.inserted = n] \in JobType
         /\ \A n \in Nat : [j EXCEPT !.answers = n] \in JobType
         /\ \A r \in Seq(Row), n \in Nat :
              [j EXCEPT !.row = r, !.answers = n] \in JobType
         /\ \A ws \in Seq(Words) : [j EXCEPT !.words = ws] \in JobType
BY DEF JobType

(* What Append does, for the provers.                                      *)
LEMMA AppendFacts ==
  ASSUME NEW S, NEW s \in Seq(S), NEW e \in S
  PROVE  /\ Append(s, e) \in Seq(S)
         /\ Append(s, e) # << >>
         /\ DOMAIN s = 1..Len(s)
         /\ DOMAIN Append(s, e) = 1..(Len(s) + 1)
         /\ Append(s, e)[Len(s) + 1] = e
         /\ \A i \in 1..Len(s) : Append(s, e)[i] = s[i]
<1>1. DOMAIN s = 1..Len(s) /\ Len(s) \in Nat
  OBVIOUS
<1>2. Append(s, e) \in Seq(S)
  OBVIOUS
<1>3. Len(Append(s, e)) = Len(s) + 1
  OBVIOUS
<1>4. DOMAIN Append(s, e) = 1..(Len(s) + 1)
  BY <1>2, <1>3
<1>5. Append(s, e) # << >>
  BY <1>3, <1>1
<1>6. Append(s, e)[Len(s) + 1] = e
  OBVIOUS
<1>7. \A i \in 1..Len(s) : Append(s, e)[i] = s[i]
  OBVIOUS
<1> QED
  BY <1>1, <1>2, <1>4, <1>5, <1>6, <1>7

LEMMA IsASeq ==
  ASSUME NEW S, NEW n \in Nat, NEW f, f \in [1..n -> S]
  PROVE  f \in Seq(S) /\ Len(f) = n
OBVIOUS

LEMMA SeqElement ==
  ASSUME NEW S, NEW s \in Seq(S), NEW i \in 1..Len(s)
  PROVE  s[i] \in S
OBVIOUS

LEMMA WrittenType ==
  ASSUME NEW n \in 0..Len(Crawled), NEW k \in Nat
  PROVE  Written(n, k) \in Seq([text : Texts, answers : Nat])
<1> DEFINE Entries == [text : Texts, answers : Nat]
           entry(i) == IF i = n THEN [Crawled[i] EXCEPT !.answers = k] ELSE Crawled[i]
<1>1. n \in Nat /\ 1..n \subseteq 1..Len(Crawled)
  BY StoreAssumption
<1>2. ASSUME NEW i \in 1..n PROVE entry(i) \in Entries
  <2>1. Crawled[i] \in Entries
    BY <1>1, StoreAssumption, SeqElement
  <2> QED
    BY <2>1
<1> HIDE DEF Entries, entry
<1>3. [i \in 1..n |-> entry(i)] \in [1..n -> Entries]
  BY <1>2
<1>4. [i \in 1..n |-> entry(i)] \in Seq(Entries)
  BY <1>1, <1>3, IsASeq
<1> QED
  BY <1>4 DEF Written, Entries, entry

LEMMA EntryType ==
  ASSUME TypeOK, ~EndOfFile
  PROVE  file[position + 1] \in [text : Texts, answers : Nat]
<1>1. position < Len(file) /\ position \in Nat
  BY DEF EndOfFile, TypeOK
<1>2. file \in Seq([text : Texts, answers : Nat])
  BY DEF TypeOK
<1>3. position + 1 \in 1..Len(file)
  BY <1>1, <1>2
<1> QED
  BY <1>2, <1>3, SeqElement

LEMMA LineNumType ==
  ASSUME NEW ids \in SUBSET Nat, NEW n \in LineNum(ids)
  PROVE  n \in Nat
BY DEF LineNum

-----------------------------------------------------------------------------
(* What failed is remembered; only the questions are, from one update to   *)
(* the next.                                                               *)

(* A step of a thread.                                                     *)
ThreadStep(t) ==
  \/ \E text \in Texts : InsertQuestion(t, text)
  \/ \E q \in question : InsertAnswer(t, q.questionId)
  \/ TakeQuestionId(t) \/ AddQuestionNum(t)
  \/ TakeAnswerId(t) \/ AddAnswerNum(t)
  \/ InsertAnswerRow(t) \/ SelectWord(t) \/ WriteWord(t)
  \/ InsertQuestionRow(t) \/ UpdateQuestion(t)

Kept ==
  /\ failed.answers \subseteq failed'.answers
  /\ failed.words \subseteq failed'.words
  /\ failed.updates \subseteq failed'.updates

AllKept == Kept /\ failed.questions \subseteq failed'.questions

LEMMA FailsKeeps ==
  ASSUME FaultsOK
  PROVE  \A x : \/ Fails("answers", x) \/ Fails("words", x)
               \/ Fails("questions", x) \/ Fails("updates", x)
             => AllKept
BY DEF FaultsOK, FailedType, Fails, AllKept, Kept

LEMMA ThreadStepKeeps ==
  ASSUME FaultsOK, NEW t \in Threads, ThreadStep(t)
  PROVE  AllKept
<1>1. CASE UNCHANGED faults
  BY <1>1 DEF faults, AllKept, Kept
<1>2. CASE ~UNCHANGED faults
  <2>1. PICK x : \/ Fails("answers", x) \/ Fails("words", x)
                 \/ Fails("questions", x) \/ Fails("updates", x)
    BY <1>2 DEF ThreadStep, InsertQuestion, InsertAnswer, TakeQuestionId, AddQuestionNum,
       TakeAnswerId, AddAnswerNum, InsertAnswerRow, SelectWord, WriteWord, InsertQuestionRow,
       UpdateQuestion
  <2> QED
    BY <2>1, FailsKeeps
<1> QED
  BY <1>1, <1>2

LEMMA StepKeeps == FaultsOK /\ [Next]_vars => Kept /\ (AllKept \/ UpdateDataBase)
<1> SUFFICES ASSUME FaultsOK, [Next]_vars PROVE Kept /\ (AllKept \/ UpdateDataBase)
  OBVIOUS
<1>1. ASSUME NEW t \in Threads, ThreadStep(t) PROVE AllKept
  BY <1>1, ThreadStepKeeps
<1>2. CASE UpdateDataBase
  BY <1>2 DEF UpdateDataBase, FaultsOK, FailedType, Kept
<1>3. CASE ParseQuestion
  BY <1>3, FailsKeeps DEF ParseQuestion, faults, AllKept, Kept
<1>4. CASE TruncateFile \/ Crawl \/ Restart \/ UNCHANGED vars
  BY <1>4 DEF TruncateFile, Crawl, Restart, vars, faults, AllKept, Kept
<1> QED
  BY <1>1, <1>2, <1>3, <1>4 DEF Next, ThreadStep, AllKept

-----------------------------------------------------------------------------
(* Type correctness.                                                       *)

LEMMA FailsType ==
  ASSUME FaultsOK, NEW x,
         \/ x \in Nat \X Texts /\ Fails("answers", x)
         \/ x \in Nat \X Words /\ Fails("words", x)
         \/ x \in Texts /\ Fails("questions", x)
         \/ x \in Nat \X Nat /\ Fails("updates", x)
  PROVE  FaultsOK'
<1>1. failures' \in Nat
  BY DEF FaultsOK, Fails
<1>2. failed' \in FailedType
  BY DEF FaultsOK, Fails, FailedType
<1> QED
  BY <1>1, <1>2 DEF FaultsOK

LEMMA FaultsNext == TypeOK /\ (\A t \in Threads : StageInv(t)) /\ [Next]_vars => FaultsOK'
<1> SUFFICES ASSUME TypeOK, \A t \in Threads : StageInv(t), [Next]_vars PROVE FaultsOK'
  OBVIOUS
<1>1. FaultsOK
  BY DEF TypeOK
<1>2. CASE UNCHANGED faults
  BY <1>1, <1>2 DEF FaultsOK, faults
<1>3. ASSUME NEW t \in Threads
      PROVE  /\ job[t] \in JobType /\ job[t].text \in Texts /\ job[t].questionId \in Nat
             /\ job[t].answerId \in Nat /\ job[t].inserted \in Nat
             /\ job[t].words \in Seq(Words) /\ job[t].row \in Seq(Row)
  BY DEF TypeOK, JobType
<1>4. ASSUME NEW t \in Threads, InsertAnswerRow(t), ~UNCHANGED faults PROVE FaultsOK'
  <2>1. Fails("answers", <<job[t].answerId + job[t].inserted, job[t].text>>)
    BY <1>4 DEF InsertAnswerRow
  <2>2. <<job[t].answerId + job[t].inserted, job[t].text>> \in Nat \X Texts
    BY <1>3
  <2> QED
    BY <1>1, <2>1, <2>2, FailsType
<1>5. ASSUME NEW t \in Threads, SelectWord(t) \/ WriteWord(t), ~UNCHANGED faults PROVE FaultsOK'
  <2>1. Fails("words", <<job[t].questionId, Head(job[t].words)>>)
    BY <1>5 DEF SelectWord, WriteWord
  <2>2. job[t].words # << >>
    BY <1>5 DEF SelectWord, WriteWord, StageInv, At
  <2>3. <<job[t].questionId, Head(job[t].words)>> \in Nat \X Words
    BY <1>3, <2>2
  <2> QED
    BY <1>1, <2>1, <2>3, FailsType
<1>6. ASSUME NEW t \in Threads, InsertQuestionRow(t), ~UNCHANGED faults PROVE FaultsOK'
  BY <1>1, <1>3, <1>6, FailsType DEF InsertQuestionRow
<1>7. ASSUME NEW t \in Threads, UpdateQuestion(t), ~UNCHANGED faults PROVE FaultsOK'
  <2>1. Fails("updates", <<job[t].row[1].questionId, job[t].answerId>>)
    BY <1>7 DEF UpdateQuestion
  <2>2. job[t].row # << >>
    BY <1>7 DEF UpdateQuestion, StageInv, Answering, At
  <2>3. job[t].row[1] \in Row
    BY <1>3, <2>2
  <2>4. <<job[t].row[1].questionId, job[t].answerId>> \in Nat \X Nat
    BY <1>3, <2>3 DEF Row
  <2> QED
    BY <1>1, <2>1, <2>4, FailsType
<1>8. ASSUME NEW t \in Threads,
             \/ \E x \in Texts : InsertQuestion(t, x)
             \/ \E q \in question : InsertAnswer(t, q.questionId)
             \/ TakeQuestionId(t) \/ AddQuestionNum(t) \/ TakeAnswerId(t) \/ AddAnswerNum(t)
      PROVE  FaultsOK'
  BY <1>2, <1>8 DEF InsertQuestion, InsertAnswer, TakeQuestionId, AddQuestionNum, TakeAnswerId,
     AddAnswerNum
<1>9. CASE UpdateDataBase
  BY <1>1, <1>9 DEF UpdateDataBase, FaultsOK, FailedType
<1>10. ASSUME ParseQuestion, ~UNCHANGED faults PROVE FaultsOK'
  <2>1. Fails("questions", file[position + 1].text)
    BY <1>10 DEF ParseQuestion, Entry
  <2>2. file[position + 1] \in [text : Texts, answers : Nat]
    BY <1>10, EntryType DEF ParseQuestion
  <2> QED
    BY <1>1, <2>1, <2>2, FailsType
<1>11. CASE TruncateFile \/ Crawl \/ Restart \/ UNCHANGED vars
  BY <1>2, <1>11 DEF TruncateFile, Crawl, Restart, vars
<1> QED
  BY <1>2, <1>4, <1>5, <1>6, <1>7, <1>8, <1>9, <1>10, <1>11 DEF Next

LEMMA TypeInit == Init => TypeOK
<1> SUFFICES ASSUME Init PROVE TypeOK
  OBVIOUS
<1>1. PICK x \in Texts :
        /\ question = {[questionId |-> 1, text |-> x, detail |-> TRUE, answerIds |-> <<1>>]}
        /\ answer = {<<1, x>>}
        /\ word = [w \in Words |-> IF w \in Range(WordsOf[x]) THEN <<1>> ELSE << >>]
        /\ job = [th \in Threads |-> Job("ask", x)]
  BY DEF Init
<1>2. question \subseteq Row /\ answer \subseteq Nat \X Texts
  BY <1>1 DEF Row
<1>3. word \in [Words -> Seq(Nat)]
  BY <1>1
<1>4. job \in [Threads -> JobType]
  BY <1>1, JobIsTyped
<1>5. \A t \in Threads : job[t].inserted <= job[t].answers
  BY <1>1 DEF Job
<1>6. pc \in [Threads -> Statements]
  BY DEF Init, Statements
<1>7. FaultsOK
  BY DEF Init, FaultsOK, FailedType
<1> QED
  BY <1>2, <1>3, <1>4, <1>5, <1>6, <1>7 DEF Init, TypeOK

(* The steps of a thread that leave the tables alone.                      *)
LEMMA TypeLocal ==
  ASSUME TypeOK, NEW t \in Threads, NEW j \in JobType, NEW p \in Statements,
         job' = [job EXCEPT ![t] = j], pc' = [pc EXCEPT ![t] = p],
         j.inserted <= j.answers
  PROVE  /\ job' \in [Threads -> JobType]
         /\ pc' \in [Threads -> Statements]
         /\ \A u \in Threads : job'[u].inserted <= job'[u].answers
BY DEF TypeOK

LEMMA TypeNext == TypeOK /\ (\A t \in Threads : StageInv(t)) /\ [Next]_vars => TypeOK'
<1> SUFFICES ASSUME TypeOK, \A t \in Threads : StageInv(t), [Next]_vars, FaultsOK'
             PROVE  TypeOK'
  BY FaultsNext
<1> USE DEF At, Goto
<1>1. ASSUME NEW t \in Threads, NEW x \in Texts, InsertQuestion(t, x) PROVE TypeOK'
  <2>1. Job("ask", x) \in JobType /\ Job("ask", x).inserted <= Job("ask", x).answers
    BY JobIsTyped DEF Job
  <2>2. "takeQuestionId" \in Statements
    BY DEF Statements
  <2> QED
    BY <1>1, <2>1, <2>2, TypeLocal DEF InsertQuestion, TypeOK, tables, counters
<1>2. ASSUME NEW t \in Threads, NEW id, InsertAnswer(t, id) PROVE TypeOK'
  <2>1. PICK q \in Rows(id) :
          job' = [job EXCEPT ![t] = [Job("answer", q.text) EXCEPT !.row = <<q>>, !.answers = 1]]
    BY <1>2 DEF InsertAnswer
  <2>2. q \in Row
    BY DEF Rows, TypeOK
  <2>3. Job("answer", q.text) \in JobType
    BY <2>2, JobIsTyped DEF Row
  <2> DEFINE j == [Job("answer", q.text) EXCEPT !.row = <<q>>, !.answers = 1]
  <2>4. j \in JobType /\ j.inserted <= j.answers
    <3>1. <<q>> \in Seq(Row)
      BY <2>2
    <3>2. j \in JobType
      BY <2>3, <3>1, JobExcept
    <3>3. j.inserted = 0 /\ j.answers = 1
      BY DEF Job
    <3> QED
      BY <3>2, <3>3
  <2>5. "takeAnswerId" \in Statements
    BY DEF Statements
  <2> QED
    BY <1>2, <2>1, <2>4, <2>5, TypeLocal DEF InsertAnswer, TypeOK, tables, counters
<1>3. ASSUME NEW t \in Threads, TakeQuestionId(t) PROVE TypeOK'
  <2> DEFINE j == [job[t] EXCEPT !.questionId = questionNum]
  <2>1. j \in JobType /\ j.inserted <= j.answers
    BY DEF TypeOK, JobType
  <2>2. "addQuestionNum" \in Statements
    BY DEF Statements
  <2>3. job' = [job EXCEPT ![t] = j]
    BY <1>3 DEF TakeQuestionId
  <2> QED
    BY <1>3, <2>1, <2>2, <2>3, TypeLocal DEF TakeQuestionId, TypeOK, tables, counters
<1>4. ASSUME NEW t \in Threads, AddQuestionNum(t) PROVE TypeOK'
  <2>1. questionNum' \in Nat
    BY <1>4 DEF AddQuestionNum, Added, TypeOK, JobType
  <2>2. pc' \in [Threads -> Statements]
    BY <1>4 DEF AddQuestionNum, TypeOK, Statements
  <2> QED
    BY <1>4, <2>1, <2>2 DEF AddQuestionNum, TypeOK, tables
<1>5. ASSUME NEW t \in Threads, TakeAnswerId(t) PROVE TypeOK'
  <2> DEFINE j == [job[t] EXCEPT !.answerId = answerNum]
  <2>1. j \in JobType /\ j.inserted <= j.answers
    BY DEF TypeOK, JobType
  <2>2. "addAnswerNum" \in Statements
    BY DEF Statements
  <2>3. job' = [job EXCEPT ![t] = j]
    BY <1>5 DEF TakeAnswerId
  <2> QED
    BY <1>5, <2>1, <2>2, <2>3, TypeLocal DEF TakeAnswerId, TypeOK, tables, counters
<1>6. ASSUME NEW t \in Threads, AddAnswerNum(t) PROVE TypeOK'
  <2>1. answerNum' \in Nat
    <3>1. answerNum \in Nat /\ job[t].answerId \in Nat /\ job[t].answers \in Nat
      BY DEF TypeOK, JobType
    <3>2. \/ answerNum' = answerNum + job[t].answers
          \/ answerNum' = job[t].answerId + job[t].answers
      BY <1>6 DEF AddAnswerNum, Added
    <3> QED
      BY <3>1, <3>2
  <2>2. pc' \in [Threads -> Statements]
    BY <1>6 DEF AddAnswerNum, AfterAnswerNum, TypeOK, Statements
  <2> QED
    BY <1>6, <2>1, <2>2 DEF AddAnswerNum, TypeOK, tables
<1>7. ASSUME NEW t \in Threads, InsertAnswerRow(t) PROVE TypeOK'
  <2> DEFINE j == [job[t] EXCEPT !.inserted = @ + 1]
  <2>1. j \in JobType /\ j.inserted <= j.answers
    <3>1. job[t] \in JobType
      BY DEF TypeOK
    <3>2. job[t].inserted \in Nat /\ job[t].answers \in Nat
      BY <3>1 DEF JobType
    <3>3. job[t].inserted < job[t].answers
      BY <1>7 DEF InsertAnswerRow, StageInv
    <3>4. j \in JobType
      <4>1. job[t].inserted + 1 \in Nat
        BY <3>2
      <4> QED
        BY <3>1, <4>1 DEF JobType
    <3>5. j.inserted = job[t].inserted + 1 /\ j.answers = job[t].answers
      BY <3>1 DEF JobType
    <3> QED
      BY <3>2, <3>3, <3>4, <3>5
  <2>2. job' = [job EXCEPT ![t] = j]
    BY <1>7 DEF InsertAnswerRow
  <2>3. pc' \in [Threads -> Statements]
    BY <1>7 DEF InsertAnswerRow, TypeOK, Statements
  <2>4. answer' \subseteq Nat \X Texts
    BY <1>7 DEF InsertAnswerRow, TypeOK, JobType
  <2> QED
    BY <1>7, <2>1, <2>2, <2>3, <2>4 DEF InsertAnswerRow, TypeOK, counters
<1>8. ASSUME NEW t \in Threads, SelectWord(t) PROVE TypeOK'
  <2> DEFINE w == Head(job[t].words)
             j == [job[t] EXCEPT !.ids = word[w]]
             rest == [job[t] EXCEPT !.words = Tail(@)]
  <2>1. w \in Words /\ Tail(job[t].words) \in Seq(Words)
    BY <1>8 DEF SelectWord, TypeOK, JobType
  <2>2. job[t] \in JobType /\ job[t].inserted <= job[t].answers
    BY DEF TypeOK
  <2>3. j \in JobType /\ j.inserted <= j.answers
    BY <2>1, <2>2 DEF TypeOK, JobType
  <2>4. rest \in JobType /\ rest.inserted <= rest.answers
    <3>1. rest \in JobType
      BY <2>1, <2>2, JobExcept
    <3>2. rest.inserted = job[t].inserted /\ rest.answers = job[t].answers
      BY <2>2 DEF JobType
    <3> QED
      BY <2>2, <3>1, <3>2
  <2>5. \/ job' = [job EXCEPT ![t] = j] /\ pc' = [pc EXCEPT ![t] = "writeWord"]
        \/ job' = [job EXCEPT ![t] = rest] /\ pc' = pc
    BY <1>8 DEF SelectWord
  <2>6. "writeWord" \in Statements
    BY DEF Statements
  <2> HIDE DEF j, rest
  <2>7. /\ job' \in [Threads -> JobType] /\ pc' \in [Threads -> Statements]
        /\ \A u \in Threads : job'[u].inserted <= job'[u].answers
    BY <2>3, <2>4, <2>5, <2>6 DEF TypeOK
  <2> QED
    BY <1>8, <2>7 DEF SelectWord, TypeOK, tables, counters
<1>9. ASSUME NEW t \in Threads, WriteWord(t) PROVE TypeOK'
  <2> DEFINE j == [job[t] EXCEPT !.words = Tail(@)]
  <2>1. job[t].words # << >> /\ job[t].words \in Seq(Words)
    BY <1>9 DEF WriteWord, StageInv, TypeOK, JobType
  <2>2. j \in JobType /\ j.inserted <= j.answers
    <3>1. job[t] \in JobType /\ job[t].inserted <= job[t].answers
      BY DEF TypeOK
    <3>2. Tail(job[t].words) \in Seq(Words)
      BY <2>1
    <3>3. j \in JobType
      BY <3>1, <3>2, JobExcept
    <3>4. j.inserted = job[t].inserted /\ j.answers = job[t].answers
      BY <3>1 DEF JobType
    <3> QED
      BY <3>1, <3>3, <3>4
  <2>3. "words" \in Statements
    BY DEF Statements
  <2>4. job' = [job EXCEPT ![t] = j]
    BY <1>9 DEF WriteWord
  <2>5. Append(job[t].ids, job[t].questionId) \in Seq(Nat)
    BY DEF TypeOK, JobType
  <2>6. word' \in [Words -> Seq(Nat)]
    BY <1>9, <2>5 DEF WriteWord, TypeOK
  <2> QED
    BY <1>9, <2>2, <2>3, <2>4, <2>6, TypeLocal DEF WriteWord, TypeOK, counters
<1>10. ASSUME NEW t \in Threads, InsertQuestionRow(t) PROVE TypeOK'
  <2> DEFINE ids == [i \in 1..job[t].answers |-> job[t].answerId + (i - 1)]
  <2>1. /\ job[t].questionId \in Nat /\ job[t].text \in Texts
        /\ job[t].answers \in Nat /\ job[t].answerId \in Nat
    BY DEF TypeOK, JobType
  <2>4. ids \in Seq(Nat)
    <3>1. \A i \in 1..job[t].answers : job[t].answerId + (i - 1) \in Nat
      BY <2>1
    <3>2. ids \in [1..job[t].answers -> Nat]
      BY <3>1
    <3> HIDE DEF ids
    <3> QED
      BY <2>1, <3>2, IsASeq
  <2>5. [questionId |-> job[t].questionId, text |-> job[t].text, detail |-> TRUE,
         answerIds |-> ids] \in Row
    BY <2>1, <2>4 DEF Row
  <2>2. question' \subseteq Row
    BY <1>10, <2>5 DEF InsertQuestionRow, TypeOK
  <2>3. pc' \in [Threads -> Statements]
    BY <1>10 DEF InsertQuestionRow, TypeOK, Statements
  <2> QED
    BY <1>10, <2>2, <2>3 DEF InsertQuestionRow, TypeOK, counters
<1>11. ASSUME NEW t \in Threads, UpdateQuestion(t) PROVE TypeOK'
  <2> DEFINE row == job[t].row[1]
  <2>1. row \in Row /\ job[t].answerId \in Nat
    <3>1. StageInv(t)
      OBVIOUS
    <3>2. job[t].kind = "answer" /\ pc[t] = "updateQuestion"
      BY <1>11, <3>1 DEF UpdateQuestion, StageInv
    <3>3. job[t].row # << >>
      BY <3>1, <3>2 DEF StageInv, Answering
    <3>4. job[t].row \in Seq(Row) /\ job[t].answerId \in Nat
      BY DEF TypeOK, JobType
    <3> QED
      BY <3>3, <3>4
  <2>2. \A q \in Row : Updated(q, row, job[t].answerId) \in Row
    <3>1. Append(row.answerIds, job[t].answerId) \in Seq(Nat)
      BY <2>1 DEF Row
    <3> QED
      BY <2>1, <3>1 DEF Updated, Row
  <2>3. question' \subseteq Row
    BY <1>11, <2>2 DEF UpdateQuestion, TypeOK
  <2>4. replied' \subseteq Nat \X Nat
    BY <1>11, <2>1 DEF UpdateQuestion, TypeOK, Row
  <2>5. pc' \in [Threads -> Statements]
    BY <1>11 DEF UpdateQuestion, TypeOK, Statements
  <2> QED
    BY <1>11, <2>3, <2>4, <2>5 DEF UpdateQuestion, TypeOK, counters
<1>12. ASSUME UpdateDataBase PROVE TypeOK'
  <2>1. pc' \in [Threads -> Statements]
    BY <1>12 DEF UpdateDataBase, TypeOK, Statements, Threads
  <2> QED
    BY <1>12, <2>1 DEF UpdateDataBase, TypeOK, tables, counters
<1>13. ASSUME ParseQuestion PROVE TypeOK'
  <2>1. file[position + 1] \in [text : Texts, answers : Nat]
    BY <1>13, EntryType DEF ParseQuestion
  <2>2. position' \in Nat
    BY <1>13 DEF ParseQuestion, Entry, TypeOK
  <2>3. Main \in Threads
    BY DEF Threads
  <2>4. CASE UNCHANGED <<pc, job>>
    BY <1>13, <2>2, <2>4 DEF ParseQuestion, Entry, TypeOK, tables, counters
  <2>5. CASE ~UNCHANGED <<pc, job>>
    <3> DEFINE entry == file[position + 1]
               j == [Job("crawl", entry.text) EXCEPT !.answers = entry.answers]
    <3>1. pc' = [pc EXCEPT ![Main] = "takeQuestionId"] /\ job' = [job EXCEPT ![Main] = j]
      BY <1>13, <2>5 DEF ParseQuestion, Entry
    <3>2. Job("crawl", entry.text) \in JobType /\ Job("crawl", entry.text).inserted = 0
      BY <2>1, JobIsTyped DEF Job
    <3>5. entry.answers \in Nat
      BY <2>1
    <3>6. j \in JobType
      BY <3>2, <3>5, JobExcept
    <3>7. j.inserted = 0 /\ j.answers = entry.answers
      BY DEF Job
    <3>3. j \in JobType /\ j.inserted <= j.answers
      BY <3>5, <3>6, <3>7
    <3>4. "takeQuestionId" \in Statements
      BY DEF Statements
    <3> QED
      BY <1>13, <2>2, <2>3, <3>1, <3>3, <3>4, TypeLocal
      DEF ParseQuestion, Entry, TypeOK, tables, counters
  <2> QED
    BY <2>4, <2>5
<1>14. ASSUME TruncateFile PROVE TypeOK'
  <2>1. pc' \in [Threads -> Statements]
    BY <1>14 DEF TruncateFile, TypeOK, Statements, Threads
  <2>2. file' \in Seq([text : Texts, answers : Nat])
    BY <1>14 DEF TruncateFile
  <2> QED
    BY <1>14, <2>1, <2>2 DEF TruncateFile, TypeOK, tables, counters
<1>15. ASSUME Crawl PROVE TypeOK'
  <2>1. file' \in Seq([text : Texts, answers : Nat])
    <3>0. PICK n \in 0..Len(Crawled) :
            \E k \in 0..(IF n = 0 THEN 0 ELSE Crawled[n].answers) : file' = Written(n, k)
      BY <1>15 DEF Crawl
    <3>1. PICK k \in 0..(IF n = 0 THEN 0 ELSE Crawled[n].answers) : file' = Written(n, k)
      BY <3>0
    <3>2. k \in Nat
      BY <3>1, StoreAssumption, SeqElement
    <3> QED
      BY <3>1, <3>2, WrittenType
  <2> QED
    BY <1>15, <2>1 DEF Crawl, TypeOK, tables, counters
<1>16. ASSUME Restart PROVE TypeOK'
  <2>1. /\ {q.questionId : q \in question} \in SUBSET Nat
        /\ {a[1] : a \in answer} \in SUBSET Nat
    BY DEF TypeOK, Row
  <2>2. questionNum' \in Nat /\ answerNum' \in Nat
    BY <1>16, <2>1, LineNumType DEF Restart
  <2>3. pc' \in [Threads -> Statements]
    BY <1>16 DEF Restart, Statements
  <2> QED
    BY <1>16, <2>2, <2>3 DEF Restart, TypeOK, tables
<1>17. CASE UNCHANGED vars
  BY <1>17 DEF TypeOK, vars, tables, counters
<1> QED
  BY <1>1, <1>2, <1>3, <1>4, <1>5, <1>6, <1>7, <1>8, <1>9, <1>10, <1>11, <1>12, <1>13,
     <1>14, <1>15, <1>16, <1>17 DEF Next

-----------------------------------------------------------------------------
(* The invariant of the threads.                                           *)

ThreadInv(t) == StageInv(t) /\ AnswerInv(t)

(* A step of one thread leaves the others where they are; the rows they    *)
(* rely on stay, because no statement deletes from the table answer.       *)
LEMMA OthersNext ==
  ASSUME NEW u \in Threads, ThreadInv(u),
         job'[u] = job[u], pc'[u] = pc[u], Sent \subseteq Sent'
  PROVE  ThreadInv(u)'
<1>1. StageInv(u)'
  BY DEF ThreadInv, StageInv
<1>2. InsertedAnswers(job[u]) => InsertedAnswers(job[u])'
  BY DEF InsertedAnswers
<1>3. RowRead(job[u]) => RowRead(job[u])'
  BY DEF RowRead, Belongs
<1>4. AnswerInv(u)'
  BY <1>2, <1>3 DEF ThreadInv, AnswerInv, InsertedAnswers, RowRead, Belongs
<1> QED
  BY <1>1, <1>4 DEF ThreadInv

(* A thread that takes an id, changes a counter or reads a word.           *)
LEMMA CounterNext ==
  ASSUME IInv, NEW t \in Threads,
         TakeQuestionId(t) \/ AddQuestionNum(t) \/ TakeAnswerId(t) \/ AddAnswerNum(t)
  PROVE  ThreadInv(t)'
<1> USE DEF At, Goto
<1>1. /\ job \in [Threads -> JobType] /\ pc \in [Threads -> Statements]
      /\ StageInv(t) /\ AnswerInv(t)
  BY DEF IInv, TypeOK
<1>2. Sent' = Sent
  BY DEF TakeQuestionId, AddQuestionNum, TakeAnswerId, AddAnswerNum, tables, faults, Sent
<1>3. CASE TakeQuestionId(t)
  <2>1. pc'[t] = "addQuestionNum" /\ job'[t] = [job[t] EXCEPT !.questionId = questionNum]
    BY <1>1, <1>3 DEF TakeQuestionId
  <2>2. StageInv(t)'
    BY <1>1, <1>3, <2>1 DEF TakeQuestionId, StageInv, Answering, JobType
  <2> QED
    BY <2>1, <2>2 DEF ThreadInv, AnswerInv, Answering
<1>4. CASE AddQuestionNum(t)
  <2>1. job'[t] = job[t] /\ pc[t] = "addQuestionNum"
    BY <1>4 DEF AddQuestionNum
  <2>2. pc'[t] = IF job[t].kind = "ask" THEN "words" ELSE "takeAnswerId"
    BY <1>1, <1>4 DEF AddQuestionNum
  <2>3. job[t].kind # "answer" /\ job[t].inserted = 0 /\ job[t].answers \in Nat
        /\ (job[t].kind = "ask" <=> job[t].answers = 0)
    BY <1>1, <2>1 DEF StageInv, JobType
  <2>4. StageInv(t)'
    BY <2>1, <2>2, <2>3 DEF StageInv, Answering
  <2>5. AnswerInv(t)'
    BY <2>1, <2>2, <2>3 DEF AnswerInv, InsertedAnswers, Answering
  <2> QED
    BY <2>4, <2>5 DEF ThreadInv
<1>5. CASE TakeAnswerId(t)
  <2>1. pc'[t] = "addAnswerNum" /\ job'[t] = [job[t] EXCEPT !.answerId = answerNum]
    BY <1>1, <1>5 DEF TakeAnswerId
  <2>2. /\ job'[t].kind = job[t].kind /\ job'[t].row = job[t].row
        /\ job'[t].inserted = job[t].inserted /\ job'[t].answers = job[t].answers
        /\ job'[t].text = job[t].text
    BY <1>1, <2>1 DEF JobType
  <2>3. StageInv(t)'
    BY <1>1, <1>5, <2>1, <2>2 DEF TakeAnswerId, StageInv, Answering
  <2>4. job[t].kind = "answer" => RowRead(job[t])
    BY <1>1, <1>5 DEF TakeAnswerId, AnswerInv, Answering
  <2>5. job[t].kind = "answer" => RowRead(job[t])'
    BY <1>2, <2>2, <2>4 DEF RowRead, Belongs
  <2>6. AnswerInv(t)'
    BY <2>1, <2>2, <2>5 DEF AnswerInv
  <2> QED
    BY <2>3, <2>6 DEF ThreadInv
<1>6. CASE AddAnswerNum(t)
  <2>1. job'[t] = job[t] /\ pc[t] = "addAnswerNum" /\ pc'[t] = "insertAnswer"
    BY <1>1, <1>6 DEF AddAnswerNum, AfterAnswerNum
  <2>2. job[t].kind # "ask" /\ job[t].inserted = 0 /\ job[t].answers > 0
    BY <1>1, <2>1 DEF StageInv
  <2>3. StageInv(t)'
    BY <1>1, <2>1, <2>2 DEF StageInv, Answering
  <2>4. InsertedAnswers(job[t])'
    BY <2>1, <2>2 DEF InsertedAnswers
  <2>5. job[t].kind = "answer" => RowRead(job[t])
    BY <1>1, <2>1 DEF AnswerInv, Answering
  <2>6. job[t].kind = "answer" => RowRead(job[t])'
    BY <1>2, <2>1, <2>5 DEF RowRead, Belongs
  <2>7. AnswerInv(t)'
    BY <2>1, <2>4, <2>6 DEF AnswerInv
  <2> QED
    BY <2>3, <2>7 DEF ThreadInv
<1> QED
  BY <1>3, <1>4, <1>5, <1>6

(* A thread that inserts an answer has inserted one more.                  *)
LEMMA AnswerRowNext ==
  ASSUME IInv, NEW t \in Threads, InsertAnswerRow(t)
  PROVE  ThreadInv(t)'
<1> USE DEF At, Goto
<1> DEFINE j == job[t]
<1>1. /\ job \in [Threads -> JobType] /\ pc \in [Threads -> Statements]
      /\ StageInv(t) /\ AnswerInv(t) /\ pc[t] = "insertAnswer"
  BY DEF IInv, TypeOK, InsertAnswerRow
<1>2. j.inserted \in Nat /\ j.answers \in Nat /\ j.answerId \in Nat
  BY <1>1 DEF JobType
<1>3. /\ j.kind # "ask" /\ j.inserted < j.answers
      /\ j.kind = "answer" => j.answers = 1 /\ j.row # << >> /\ RowRead(j)
      /\ InsertedAnswers(j)
  BY <1>1 DEF StageInv, AnswerInv, Answering
<1>4. job'[t] = [j EXCEPT !.inserted = j.inserted + 1]
  BY <1>1 DEF InsertAnswerRow
<1>5. /\ job'[t].kind = j.kind /\ job'[t].row = j.row /\ job'[t].text = j.text
      /\ job'[t].inserted = j.inserted + 1 /\ job'[t].answers = j.answers
      /\ job'[t].answerId = j.answerId
  BY <1>1, <1>4 DEF JobType
<1>6. pc'[t] = IF j.inserted + 1 < j.answers THEN "insertAnswer"
               ELSE IF j.kind = "answer" THEN "updateQuestion" ELSE "words"
  BY <1>1 DEF InsertAnswerRow, MoreAnswers
<1>7. StageInv(t)'
  BY <1>2, <1>3, <1>5, <1>6 DEF StageInv, Answering
<1>8. Sent' = Sent \cup {<<j.answerId + j.inserted, j.text>>}
  BY DEF InsertAnswerRow, Fails, faults, Sent, IInv, TypeOK, FaultsOK, FailedType
<1>9. InsertedAnswers(job[t])'
  <2>1. ASSUME NEW n \in 0..j.inserted PROVE <<j.answerId + n, j.text>> \in Sent'
    <3>1. CASE n = j.inserted
      BY <1>8, <3>1
    <3>2. CASE n # j.inserted
      <4>1. n \in 0..(j.inserted - 1)
        BY <1>2, <3>2
      <4> QED
        BY <1>3, <1>8, <4>1 DEF InsertedAnswers
    <3> QED
      BY <3>1, <3>2
  <2> QED
    BY <1>2, <1>5, <2>1 DEF InsertedAnswers
<1>10. j.kind = "answer" => RowRead(job[t])'
  BY <1>3, <1>5, <1>8 DEF RowRead, Belongs
<1>11. AnswerInv(t)'
  BY <1>5, <1>9, <1>10 DEF AnswerInv
<1> QED
  BY <1>7, <1>11 DEF ThreadInv

(* A thread that writes a word, or its question, is done with its answers. *)
LEMMA QuestionNext ==
  ASSUME IInv, NEW t \in Threads,
         SelectWord(t) \/ WriteWord(t) \/ InsertQuestionRow(t) \/ UpdateQuestion(t)
  PROVE  ThreadInv(t)'
<1> USE DEF At, Goto
<1> DEFINE j == job[t]
<1>1. /\ job \in [Threads -> JobType] /\ pc \in [Threads -> Statements]
      /\ StageInv(t) /\ AnswerInv(t)
  BY DEF IInv, TypeOK
<1>2. Sent' = Sent
  BY DEF SelectWord, WriteWord, InsertQuestionRow, UpdateQuestion, tables, Fails, faults, Sent,
     IInv, TypeOK, FaultsOK, FailedType
<1>3. CASE SelectWord(t) \/ WriteWord(t)
  <2>1. /\ pc'[t] \in {"words", "writeWord"}
        /\ pc'[t] = "writeWord" => SelectWord(t) /\ job' = [job EXCEPT ![t].ids = word[Head(j.words)]]
    BY <1>1, <1>3 DEF SelectWord, WriteWord
  <2>2. pc[t] \in {"words", "writeWord"}
    BY <1>3 DEF SelectWord, WriteWord
  <2>3. /\ job'[t].kind = j.kind /\ job'[t].row = j.row /\ job'[t].text = j.text
        /\ job'[t].inserted = j.inserted /\ job'[t].answers = j.answers
        /\ job'[t].answerId = j.answerId
    BY <1>1, <1>3 DEF SelectWord, WriteWord, JobType
  <2>8. pc'[t] = "writeWord" => job'[t].words # << >>
    BY <1>1, <2>1 DEF SelectWord, JobType
  <2>4. j.kind # "answer" /\ j.inserted = j.answers /\ InsertedAnswers(j)
    BY <1>1, <2>2 DEF StageInv, AnswerInv
  <2>5. StageInv(t)'
    BY <2>1, <2>3, <2>4, <2>8 DEF StageInv
  <2>6. InsertedAnswers(job[t])'
    BY <1>2, <2>3, <2>4 DEF InsertedAnswers
  <2>7. AnswerInv(t)'
    BY <2>3, <2>4, <2>6 DEF AnswerInv
  <2> QED
    BY <2>5, <2>7 DEF ThreadInv
<1>4. CASE InsertQuestionRow(t) \/ UpdateQuestion(t)
  <2>1. pc'[t] \in {"idle", "parse"}
    BY <1>1, <1>4 DEF InsertQuestionRow, UpdateQuestion
  <2> QED
    BY <2>1 DEF ThreadInv, StageInv, AnswerInv, Answering
<1> QED
  BY <1>3, <1>4

(* A thread that begins its work.                                          *)
LEMMA BeginNext ==
  ASSUME IInv, NEW t \in Threads,
         \/ \E x \in Texts : InsertQuestion(t, x)
         \/ \E q \in question : InsertAnswer(t, q.questionId)
         \/ t = Main /\ (UpdateDataBase \/ ParseQuestion \/ TruncateFile)
  PROVE  ThreadInv(t)'
<1> USE DEF At, Goto
<1>1. /\ job \in [Threads -> JobType] /\ pc \in [Threads -> Statements]
      /\ StageInv(t) /\ AnswerInv(t)
  BY DEF IInv, TypeOK
<1>2. Sent' = Sent
  BY DEF InsertQuestion, InsertAnswer, UpdateDataBase, ParseQuestion, TruncateFile, tables,
     Fails, faults, Sent, IInv, TypeOK, FaultsOK, FailedType
<1>3. ASSUME NEW x \in Texts, InsertQuestion(t, x) PROVE ThreadInv(t)'
  <2>1. pc'[t] = "takeQuestionId" /\ job'[t] = Job("ask", x)
    BY <1>1, <1>3 DEF InsertQuestion
  <2>2. job'[t].kind = "ask" /\ job'[t].inserted = 0 /\ job'[t].answers = 0
    BY <2>1 DEF Job
  <2> QED
    BY <2>1, <2>2 DEF ThreadInv, StageInv, AnswerInv
<1>4. ASSUME NEW id, InsertAnswer(t, id) PROVE ThreadInv(t)'
  <2>1. PICK q \in Rows(id) :
          job' = [job EXCEPT ![t] = [Job("answer", q.text) EXCEPT !.row = <<q>>, !.answers = 1]]
    BY <1>4 DEF InsertAnswer
  <2>2. pc'[t] = "takeAnswerId"
    BY <1>1, <1>4 DEF InsertAnswer
  <2>3. job'[t] = [Job("answer", q.text) EXCEPT !.row = <<q>>, !.answers = 1]
    BY <1>1, <2>1
  <2>4. /\ job'[t].kind = "answer" /\ job'[t].inserted = 0 /\ job'[t].answers = 1
        /\ job'[t].row = <<q>> /\ job'[t].text = q.text
    BY <2>3 DEF Job
  <2>5. Belongs(q)
    BY DEF IInv, AnswersBelong, Belongs, Rows, Sent
  <2>6. RowRead(job[t])'
    <3>1. job'[t].row[1] = q
      BY <2>4
    <3>2. Belongs(q)'
      BY <1>2, <2>5 DEF Belongs
    <3> QED
      BY <2>4, <3>1, <3>2 DEF RowRead, Belongs
  <2>7. StageInv(t)' /\ AnswerInv(t)'
    BY <2>2, <2>4, <2>6 DEF StageInv, AnswerInv
  <2> QED
    BY <2>7 DEF ThreadInv
<1>5. CASE t = Main /\ (UpdateDataBase \/ TruncateFile)
  <2>1. pc'[t] \in {"idle", "parse"}
    BY <1>1, <1>5 DEF UpdateDataBase, TruncateFile
  <2> QED
    BY <2>1 DEF ThreadInv, StageInv, AnswerInv, Answering
<1>6. CASE t = Main /\ ParseQuestion
  <2>1. CASE UNCHANGED <<pc, job>>
    <3>1. pc'[t] = "parse"
      BY <1>6, <2>1 DEF ParseQuestion, Entry
    <3> QED
      BY <3>1 DEF ThreadInv, StageInv, AnswerInv, Answering
  <2>2. CASE ~UNCHANGED <<pc, job>>
    <3> DEFINE entry == file[position + 1]
    <3>1. /\ entry.answers # 0
          /\ pc' = [pc EXCEPT ![Main] = "takeQuestionId"]
          /\ job' = [job EXCEPT ![Main] = [Job("crawl", entry.text) EXCEPT !.answers = entry.answers]]
      BY <1>6, <2>2 DEF ParseQuestion, Entry
    <3>2. pc'[t] = "takeQuestionId"
      BY <1>1, <1>6, <3>1
    <3>3. job'[t] = [Job("crawl", entry.text) EXCEPT !.answers = entry.answers]
      BY <1>1, <1>6, <3>1
    <3>4. job'[t].kind = "crawl" /\ job'[t].inserted = 0 /\ job'[t].answers = entry.answers
      BY <3>3 DEF Job
    <3> QED
      BY <3>1, <3>2, <3>4 DEF ThreadInv, StageInv, AnswerInv
  <2> QED
    BY <2>1, <2>2
<1> QED
  BY <1>3, <1>4, <1>5, <1>6

(* Every step keeps the invariant of every thread: a thread's own step by  *)
(* the lemmas above, the others' by OthersNext.                            *)
LEMMA ThreadsNext == IInv /\ [Next]_vars => \A t \in Threads : ThreadInv(t)'
<1> SUFFICES ASSUME IInv, [Next]_vars, NEW u \in Threads PROVE ThreadInv(u)'
  OBVIOUS
<1> USE DEF At, Goto
<1>1. /\ job \in [Threads -> JobType] /\ pc \in [Threads -> Statements]
      /\ ThreadInv(u)
  BY DEF IInv, TypeOK, ThreadInv
<1>9. answer \subseteq answer' => Sent \subseteq Sent'
  BY StepKeeps DEF IInv, TypeOK, Kept, Sent
<1>2. ASSUME NEW t \in Threads,
             \/ \E x \in Texts : InsertQuestion(t, x)
             \/ \E q \in question : InsertAnswer(t, q.questionId)
             \/ t = Main /\ (UpdateDataBase \/ ParseQuestion \/ TruncateFile)
      PROVE  ThreadInv(u)'
  <2>1. CASE u = t
    BY <1>2, <2>1, BeginNext
  <2>2. CASE u # t
    <3>1. job'[u] = job[u] /\ pc'[u] = pc[u] /\ answer \subseteq answer'
      BY <1>1, <1>2, <2>2 DEF InsertQuestion, InsertAnswer, UpdateDataBase, ParseQuestion,
         TruncateFile, tables
    <3> QED
      BY <1>1, <1>9, <3>1, OthersNext
  <2> QED
    BY <2>1, <2>2
<1>3. ASSUME NEW t \in Threads,
             TakeQuestionId(t) \/ AddQuestionNum(t) \/ TakeAnswerId(t) \/ AddAnswerNum(t)
      PROVE  ThreadInv(u)'
  <2>1. CASE u = t
    BY <1>3, <2>1, CounterNext
  <2>2. CASE u # t
    <3>1. job'[u] = job[u] /\ pc'[u] = pc[u] /\ answer \subseteq answer'
      BY <1>1, <1>3, <2>2 DEF TakeQuestionId, AddQuestionNum, TakeAnswerId, AddAnswerNum, tables
    <3> QED
      BY <1>1, <1>9, <3>1, OthersNext
  <2> QED
    BY <2>1, <2>2
<1>4. ASSUME NEW t \in Threads, InsertAnswerRow(t) PROVE ThreadInv(u)'
  <2>1. CASE u = t
    BY <1>4, <2>1, AnswerRowNext
  <2>2. CASE u # t
    <3>1. job'[u] = job[u] /\ pc'[u] = pc[u] /\ answer \subseteq answer'
      BY <1>1, <1>4, <2>2 DEF InsertAnswerRow
    <3> QED
      BY <1>1, <1>9, <3>1, OthersNext
  <2> QED
    BY <2>1, <2>2
<1>5. ASSUME NEW t \in Threads,
             SelectWord(t) \/ WriteWord(t) \/ InsertQuestionRow(t) \/ UpdateQuestion(t)
      PROVE  ThreadInv(u)'
  <2>1. CASE u = t
    BY <1>5, <2>1, QuestionNext
  <2>2. CASE u # t
    <3>1. job'[u] = job[u] /\ pc'[u] = pc[u] /\ answer \subseteq answer'
      BY <1>1, <1>5, <2>2 DEF SelectWord, WriteWord, InsertQuestionRow, UpdateQuestion, tables
    <3> QED
      BY <1>1, <1>9, <3>1, OthersNext
  <2> QED
    BY <2>1, <2>2
<1>6. CASE Restart
  <2>1. pc'[u] = "idle"
    BY <1>6 DEF Restart
  <2> QED
    BY <2>1 DEF ThreadInv, StageInv, AnswerInv, Answering
<1>7. CASE Crawl \/ UNCHANGED vars
  <2>1. job' = job /\ pc' = pc /\ answer \subseteq answer'
    BY <1>7 DEF Crawl, vars, tables
  <2> QED
    BY <1>1, <1>9, <2>1, OthersNext
<1>8. Main \in Threads
  BY DEF Threads
<1> QED
  BY <1>2, <1>3, <1>4, <1>5, <1>6, <1>7, <1>8 DEF Next, IInv, TypeOK

(* One more answer in a list of answers to a text.                         *)
LEMMA AppendBelongs ==
  ASSUME NEW s \in Seq(Nat), NEW e \in Nat, NEW x,
         \A i \in DOMAIN s : <<s[i], x>> \in Sent, <<e, x>> \in Sent
  PROVE  \A i \in DOMAIN Append(s, e) : <<Append(s, e)[i], x>> \in Sent
<1>1. /\ DOMAIN s = 1..Len(s) /\ Len(s) \in Nat
      /\ DOMAIN Append(s, e) = 1..(Len(s) + 1)
      /\ Append(s, e)[Len(s) + 1] = e
      /\ \A i \in 1..Len(s) : Append(s, e)[i] = s[i]
  BY AppendFacts
<1>2. ASSUME NEW i \in 1..(Len(s) + 1) PROVE <<Append(s, e)[i], x>> \in Sent
  <2>1. CASE i = Len(s) + 1
    BY <1>1, <2>1
  <2>2. CASE i # Len(s) + 1
    <3>1. i \in 1..Len(s)
      BY <1>1, <2>2
    <3> QED
      BY <1>1, <3>1
  <2> QED
    BY <2>1, <2>2
<1> QED
  BY <1>1, <1>2

(* Every row a step leaves in the table lists answers to its text.         *)
LEMMA AnswersNext == IInv /\ [Next]_vars => AnswersBelong'
<1> SUFFICES ASSUME IInv, [Next]_vars PROVE AnswersBelong'
  OBVIOUS
<1> USE DEF At, Goto
<1>1. AnswersBelong /\ TypeOK /\ \A t \in Threads : ThreadInv(t)
  BY DEF IInv, ThreadInv
<1>8. answer \subseteq answer' => Sent \subseteq Sent'
  BY StepKeeps DEF IInv, TypeOK, Kept, Sent
<1>2. CASE UNCHANGED question /\ answer \subseteq answer'
  BY <1>1, <1>2, <1>8 DEF AnswersBelong, Sent
<1>3. ASSUME NEW t \in Threads, InsertQuestionRow(t) PROVE AnswersBelong'
  <2> DEFINE j == job[t]
             row == [questionId |-> j.questionId, text |-> j.text, detail |-> TRUE,
                     answerIds |-> [i \in 1..j.answers |-> j.answerId + (i - 1)]]
  <2>1. j.answers \in Nat /\ j.inserted = j.answers /\ InsertedAnswers(j)
    BY <1>1, <1>3 DEF InsertQuestionRow, ThreadInv, StageInv, AnswerInv, TypeOK, JobType
  <2>2. ASSUME NEW i \in DOMAIN row.answerIds PROVE <<row.answerIds[i], row.text>> \in Sent
    <3>1. i \in 1..j.answers /\ row.answerIds[i] = j.answerId + (i - 1) /\ row.text = j.text
      BY <2>2
    <3>2. i - 1 \in 0..(j.inserted - 1)
      BY <2>1, <3>1
    <3> QED
      BY <2>1, <3>1, <3>2 DEF InsertedAnswers
  <2>3. question' \subseteq question \cup {row} /\ answer' = answer
    BY <1>3 DEF InsertQuestionRow
  <2> HIDE DEF row
  <2> QED
    BY <1>1, <1>8, <2>2, <2>3 DEF AnswersBelong, Sent
<1>4. ASSUME NEW t \in Threads, UpdateQuestion(t) PROVE AnswersBelong'
  <2> DEFINE j == job[t]
             row == j.row[1]
  <2>1. pc[t] = "updateQuestion"
    BY <1>4 DEF UpdateQuestion
  <2>2. j \in JobType /\ j.kind = "answer" /\ j.inserted = 1 /\ j.row # << >>
        /\ RowRead(j) /\ InsertedAnswers(j)
    BY <1>1, <2>1 DEF ThreadInv, StageInv, AnswerInv, Answering, TypeOK
  <2>3. row \in Row /\ j.answerId \in Nat /\ row.text = j.text /\ Belongs(row)
    BY <2>2 DEF JobType, RowRead
  <2>4. <<j.answerId, row.text>> \in Sent
    <3>1. 0 \in 0..(j.inserted - 1) /\ j.answerId + 0 = j.answerId
      BY <2>2, <2>3
    <3> QED
      BY <2>2, <2>3, <3>1 DEF InsertedAnswers
  <2>5. ASSUME NEW q \in question PROVE Belongs(Updated(q, row, j.answerId))
    <3>1. q \in Row /\ Belongs(q)
      BY <1>1 DEF TypeOK, AnswersBelong, Belongs, Sent
    <3>2. CASE row.text \in Quoted
      BY <3>1, <3>2 DEF Updated
    <3>3. CASE row.text \notin Quoted
      <4> DEFINE r == Updated(q, row, j.answerId)
                 ids == Append(row.answerIds, j.answerId)
      <4>1. r.text = row.text /\ r.answerIds = ids
        BY <3>1, <3>3 DEF Updated, Row
      <4>2. row.answerIds \in Seq(Nat)
        BY <2>3 DEF Row
      <4>3. \A i \in DOMAIN row.answerIds : <<row.answerIds[i], row.text>> \in Sent
        BY <2>3 DEF Belongs
      <4>4. \A i \in DOMAIN ids : <<ids[i], row.text>> \in Sent
        BY <2>3, <2>4, <4>2, <4>3, AppendBelongs
      <4> HIDE DEF r, ids
      <4>5. Belongs(r)
        BY <4>1, <4>4 DEF Belongs
      <4> QED
        BY <4>5 DEF r
    <3> QED
      BY <3>2, <3>3
  <2>6. /\ answer' = answer
        /\ \/ question' = {IF q.questionId = row.questionId THEN Updated(q, row, j.answerId)
                           ELSE q : q \in question}
           \/ question' = question
    BY <1>4 DEF UpdateQuestion
  <2>7. \A q \in question : Belongs(q)
    BY <1>1 DEF AnswersBelong, Belongs, Sent
  <2>8. \A q \in question' : Belongs(q)
    BY <2>5, <2>6, <2>7
  <2> QED
    BY <1>8, <2>6, <2>8 DEF AnswersBelong, Belongs, Sent
<1>5. ASSUME NEW t \in Threads, InsertAnswerRow(t) PROVE AnswersBelong'
  BY <1>2, <1>5 DEF InsertAnswerRow
<1>6. ASSUME NEW t \in Threads,
             \/ \E x \in Texts : InsertQuestion(t, x)
             \/ \E q \in question : InsertAnswer(t, q.questionId)
             \/ TakeQuestionId(t) \/ AddQuestionNum(t) \/ TakeAnswerId(t) \/ AddAnswerNum(t)
             \/ SelectWord(t) \/ WriteWord(t)
      PROVE  AnswersBelong'
  <2>1. question' = question /\ answer \subseteq answer'
    BY <1>6 DEF InsertQuestion, InsertAnswer, TakeQuestionId, AddQuestionNum, TakeAnswerId,
       AddAnswerNum, SelectWord, WriteWord, tables
  <2> QED
    BY <1>2, <2>1
<1>7. CASE UpdateDataBase \/ ParseQuestion \/ TruncateFile \/ Crawl \/ Restart \/ UNCHANGED vars
  BY <1>2, <1>7 DEF UpdateDataBase, ParseQuestion, TruncateFile, Crawl, Restart, vars, tables
<1> QED
  BY <1>3, <1>4, <1>5, <1>6, <1>7 DEF Next

-----------------------------------------------------------------------------
(* The theorems.                                                           *)

LEMMA InitIInv == Init => IInv
<1> SUFFICES ASSUME Init PROVE IInv
  OBVIOUS
<1>1. TypeOK
  BY TypeInit
<1>2. AnswersBelong
  <2>1. PICK x \in Texts :
          /\ question = {[questionId |-> 1, text |-> x, detail |-> TRUE, answerIds |-> <<1>>]}
          /\ answer = {<<1, x>>}
    BY DEF Init
  <2>2. ASSUME NEW q \in question, NEW i \in DOMAIN q.answerIds
        PROVE  <<q.answerIds[i], q.text>> \in answer
    <3>1. q.text = x /\ q.answerIds = <<1>>
      BY <2>1
    <3>2. i = 1
      BY <3>1, <2>2
    <3> QED
      BY <2>1, <3>1, <3>2
  <2> QED
    BY <2>2 DEF AnswersBelong
<1>3. \A t \in Threads : pc[t] = "idle"
  BY DEF Init
<1>4. \A t \in Threads : StageInv(t) /\ AnswerInv(t)
  BY <1>3 DEF StageInv, AnswerInv, Answering
<1> QED
  BY <1>1, <1>2, <1>4 DEF IInv

(* The conjunction of the types, the threads' progress and AnswersBelong   *)
(* is inductive: it holds of Spec.                                         *)
THEOREM Inductive == Spec => []IInv
<1>1. IInv /\ [Next]_vars => IInv'
  <2> SUFFICES ASSUME IInv, [Next]_vars PROVE IInv'
    OBVIOUS
  <2>1. TypeOK'
    BY TypeNext DEF IInv
  <2>2. AnswersBelong'
    BY AnswersNext
  <2>3. \A t \in Threads : ThreadInv(t)'
    BY ThreadsNext
  <2>4. (\A t \in Threads : StageInv(t))' /\ (\A t \in Threads : AnswerInv(t))'
    BY <2>3 DEF ThreadInv
  <2> QED
    BY <2>1, <2>2, <2>4 DEF IInv
<1> QED
  BY InitIInv, <1>1, PTL DEF Spec

(* The tables, counters and local variables keep their types: an answer is *)
(* written back with the row that was read, never with a missing one, and  *)
(* no request inserts more answers than it has (insertAnswerList).         *)
THEOREM TypeCorrect == Spec => []TypeOK
<1>1. IInv => TypeOK
  BY DEF IInv
<1> QED
  BY Inductive, <1>1, PTL

(* Every answer a question lists is in the table and answers that text,    *)
(* unless its INSERT failed, for any number of io threads and deaths of    *)
(* the process: the answers are inserted before the row that lists them,   *)
(* with the same id and text, and no answer is ever deleted.               *)
THEOREM AnswersBelongHolds == Spec => []AnswersBelong
<1>1. IInv => AnswersBelong
  BY DEF IInv
<1> QED
  BY Inductive, <1>1, PTL

-----------------------------------------------------------------------------
(* One request or update at a time.                                        *)

(* The counters are above every id in the tables.                          *)
CountersAbove ==
  /\ \A q \in question : q.questionId < questionNum
  /\ \A x \in answer : x[1] < answerNum

(* The id of a question that is not in the table yet, and those of the     *)
(* answers still to be inserted, are new.                                  *)
NewQuestion(j) ==
  j.questionId < questionNum /\ \A q \in question : q.questionId < j.questionId

NewAnswers(j) ==
  j.answerId + j.answers <= answerNum /\ \A x \in answer : x[1] < j.answerId + j.inserted

(* The words of a question that were written lead to it.                   *)
Filed(j) ==
  \A w \in Range(WordsOf[j.text]) :
    \/ w \in Range(j.words) \/ Contains(word[w], j.questionId)
    \/ <<j.questionId, w>> \in failed.words

HasQuestionId == {"takeAnswerId", "addAnswerNum", "insertAnswer", "words", "writeWord"}

(* What a thread read is what it would read now.                           *)
JobInv(t) ==
  LET j == job[t] IN
  /\ pc[t] = "addQuestionNum" => j.questionId = questionNum
  /\ pc[t] = "addAnswerNum" => j.answerId = answerNum
  /\ pc[t] \in {"takeQuestionId", "addQuestionNum"} => j.words = WordsOf[j.text]
  /\ pc[t] \in HasQuestionId /\ j.kind # "answer" => NewQuestion(j) /\ Filed(j)
  /\ pc[t] = "insertAnswer" => NewAnswers(j)
  /\ pc[t] = "writeWord" => j.ids = word[Head(j.words)]
  /\ pc[t] \in Answering /\ j.kind = "answer" => j.row[1] \in question

(* The update stores a question that is not in the table, and what it read *)
(* of the file before is stored, was dropped, or met a failure.            *)
UpdateInv ==
  /\ pc[Main] \notin {"idle", "parse"} => job[Main].kind = "crawl" /\ ~Exists(job[Main].text)
  /\ pc[Main] # "idle" =>
       \A i \in 1..Len(file) : i <= position =>
         \/ file[i].answers = 0 \/ Exists(file[i].text)
         \/ file[i].text \in failed.questions
         \/ pc[Main] # "parse" /\ file[i].text = job[Main].text

TablesInv == CountersAbove /\ IdsAreUnique /\ FoundByItsWords /\ RepliedIsListed

Alone == OneAtATime /\ TablesInv /\ (\A t \in Threads : JobInv(t)) /\ UpdateInv

AloneInv == ~overlapped => Alone

-----------------------------------------------------------------------------
LEMMA RangeOfRest ==
  ASSUME NEW S, NEW s \in Seq(S), s # << >>
  PROVE  /\ Head(s) \in S
         /\ Range(s) \subseteq {Head(s)} \cup Range(Tail(s))
<1>1. Head(s) \in S /\ Len(s) \in Nat \ {0} /\ Tail(s) \in Seq(S) /\ Len(Tail(s)) = Len(s) - 1
  OBVIOUS
<1>2. DOMAIN s = 1..Len(s) /\ DOMAIN Tail(s) = 1..(Len(s) - 1)
  BY <1>1
<1>3. ASSUME NEW i \in 1..Len(s) PROVE s[i] \in {Head(s)} \cup Range(Tail(s))
  <2>1. CASE i = 1
    BY <2>1
  <2>2. CASE i # 1
    <3>1. i - 1 \in 1..(Len(s) - 1) /\ Tail(s)[i - 1] = s[i]
      BY <1>1, <2>2
    <3> QED
      BY <1>2, <3>1 DEF Range
  <2> QED
    BY <2>1, <2>2
<1> QED
  BY <1>1, <1>2, <1>3 DEF Range

(* Appending adds the new element and loses none.                          *)
LEMMA AppendContains ==
  ASSUME NEW S, NEW s \in Seq(S), NEW e \in S
  PROVE  /\ Contains(Append(s, e), e)
         /\ \A x : Contains(s, x) => Contains(Append(s, e), x)
<1>1. /\ Len(s) \in Nat /\ Len(Append(s, e)) = Len(s) + 1
      /\ Append(s, e)[Len(s) + 1] = e
      /\ \A i \in 1..Len(s) : Append(s, e)[i] = s[i]
  BY AppendFacts
<1>2. Contains(Append(s, e), e)
  <2>1. Len(s) + 1 \in 1..Len(Append(s, e))
    BY <1>1
  <2> QED
    BY <1>1, <2>1 DEF Contains
<1>3. ASSUME NEW x, Contains(s, x) PROVE Contains(Append(s, e), x)
  <2>1. PICK i \in 1..Len(s) : s[i] = x
    BY <1>3 DEF Contains
  <2>2. i \in 1..Len(Append(s, e)) /\ Append(s, e)[i] = x
    BY <1>1, <2>1
  <2> QED
    BY <2>2 DEF Contains
<1> QED
  BY <1>2, <1>3

(* Who is alone: while one thread works, before or after the step, the     *)
(* others are idle.                                                        *)
LEMMA OthersIdle ==
  ASSUME IInv, Alone, NEW t \in Threads, NEW p, pc' = [pc EXCEPT ![t] = p],
         pc[t] # "idle" \/ (OneAtATime' /\ p # "idle")
  PROVE  \A u \in Threads \ {t} : pc'[u] = "idle"
<1>1. pc \in [Threads -> Statements]
  BY DEF IInv, TypeOK
<1>2. pc'[t] = p /\ \A u \in Threads \ {t} : pc'[u] = pc[u]
  BY <1>1
<1> QED
  BY <1>2 DEF Alone, OneAtATime, At

LEMMA IdleJob == ASSUME NEW u, pc'[u] \in {"idle", "parse"} PROVE JobInv(u)'
BY DEF JobInv, HasQuestionId, Answering

LEMMA IdleUpdate == pc'[Main] = "idle" => UpdateInv'
BY DEF UpdateInv

LEMMA TablesSame ==
  ASSUME TablesInv, Kept, UNCHANGED <<tables, counters, replied>>
  PROVE  TablesInv'
<1>1. CountersAbove' /\ IdsAreUnique'
  BY DEF TablesInv, CountersAbove, IdsAreUnique, tables, counters
<1>2. FoundByItsWords'
  BY DEF TablesInv, FoundByItsWords, tables, Kept
<1>3. RepliedIsListed'
  BY DEF TablesInv, RepliedIsListed, Rows, tables, Kept
<1> QED
  BY <1>1, <1>2, <1>3 DEF TablesInv

(* The update goes on with the same question.                              *)
LEMMA UpdateSame ==
  ASSUME UpdateInv, AllKept, pc[Main] \notin {"idle", "parse"}, pc'[Main] # "parse",
         job'[Main].kind = job[Main].kind, job'[Main].text = job[Main].text,
         UNCHANGED <<question, file, position>>
  PROVE  UpdateInv'
BY DEF UpdateInv, Exists, AllKept

-----------------------------------------------------------------------------
(* The steps of a thread, one lemma for each kind of step.                 *)

LEMMA TakeIds ==
  ASSUME IInv, Alone, AllKept, NEW t \in Threads, TakeQuestionId(t) \/ TakeAnswerId(t)
  PROVE  TablesInv' /\ JobInv(t)' /\ (t = Main => UpdateInv')
<1> USE DEF At, Goto
<1>1. /\ job[t] \in JobType /\ job \in [Threads -> JobType] /\ pc \in [Threads -> Statements]
      /\ JobInv(t) /\ TablesInv /\ UpdateInv
  BY DEF IInv, TypeOK, Alone
<1>2. UNCHANGED <<tables, counters, replied, file, position>>
  BY DEF TakeQuestionId, TakeAnswerId
<1>3. TablesInv'
  BY <1>1, <1>2, TablesSame DEF AllKept
<1>4. pc[t] \in {"takeQuestionId", "takeAnswerId"} /\ pc'[t] \in {"addQuestionNum", "addAnswerNum"}
  BY <1>1 DEF TakeQuestionId, TakeAnswerId
<1>5. /\ job'[t].kind = job[t].kind /\ job'[t].text = job[t].text
      /\ job'[t].words = job[t].words /\ job'[t].row = job[t].row
  BY <1>1 DEF TakeQuestionId, TakeAnswerId, JobType
<1>6. t = Main => UpdateInv'
  BY <1>1, <1>2, <1>4, <1>5, UpdateSame DEF tables
<1>7. CASE TakeQuestionId(t)
  <2>1. /\ pc[t] = "takeQuestionId" /\ pc'[t] = "addQuestionNum"
        /\ job'[t].questionId = questionNum /\ questionNum' = questionNum
    BY <1>1, <1>7 DEF TakeQuestionId, JobType, counters
  <2>2. job'[t].words = WordsOf[job'[t].text]
    BY <1>1, <1>5, <2>1 DEF JobInv
  <2>3. JobInv(t)'
    BY <2>1, <2>2 DEF JobInv, HasQuestionId, Answering
  <2> QED
    BY <1>3, <1>6, <2>3
<1>8. CASE TakeAnswerId(t)
  <2>1. /\ pc[t] = "takeAnswerId" /\ pc'[t] = "addAnswerNum"
        /\ job'[t].answerId = answerNum /\ answerNum' = answerNum
        /\ job'[t].questionId = job[t].questionId
    BY <1>1, <1>8 DEF TakeAnswerId, JobType, counters
  <2>2. job[t].kind # "answer" => NewQuestion(job[t]) /\ Filed(job[t])
    BY <1>1, <2>1 DEF JobInv, HasQuestionId
  <2>3. job[t].kind # "answer" => NewQuestion(job[t])' /\ Filed(job[t])'
    BY <1>2, <1>5, <2>1, <2>2 DEF NewQuestion, Filed, tables, counters, AllKept, Kept
  <2>4. job[t].kind = "answer" => job[t].row[1] \in question
    BY <1>1, <2>1 DEF JobInv, Answering
  <2>5. job[t].kind = "answer" => job'[t].row[1] \in question'
    BY <1>2, <1>5, <2>4 DEF tables
  <2>6. JobInv(t)'
    BY <1>5, <2>1, <2>3, <2>5 DEF JobInv
  <2> QED
    BY <1>3, <1>6, <2>6
<1> QED
  BY <1>7, <1>8

(* Alone, a counter is raised from what was read: both ways of adding give *)
(* the same.                                                               *)
LEMMA AddNums ==
  ASSUME IInv, Alone, AllKept, NEW t \in Threads, AddQuestionNum(t) \/ AddAnswerNum(t)
  PROVE  TablesInv' /\ JobInv(t)' /\ (t = Main => UpdateInv')
<1> USE DEF At, Goto
<1>1. /\ job[t] \in JobType /\ job \in [Threads -> JobType] /\ pc \in [Threads -> Statements]
      /\ questionNum \in Nat /\ answerNum \in Nat
      /\ JobInv(t) /\ StageInv(t) /\ TablesInv /\ UpdateInv
  BY DEF IInv, TypeOK, Alone
<1>2. UNCHANGED <<tables, replied, file, position, job>>
  BY DEF AddQuestionNum, AddAnswerNum
<1>3. pc[t] \in {"addQuestionNum", "addAnswerNum"}
      /\ pc'[t] \in {"words", "takeAnswerId", "insertAnswer"}
  BY <1>1 DEF AddQuestionNum, AddAnswerNum, AfterAnswerNum
<1>4. t = Main => UpdateInv'
  BY <1>1, <1>2, <1>3, UpdateSame DEF tables
<1>5. IdsAreUnique' /\ FoundByItsWords' /\ RepliedIsListed'
  BY <1>1, <1>2 DEF TablesInv, IdsAreUnique, FoundByItsWords, RepliedIsListed, Rows, tables,
     AllKept, Kept
<1>6. /\ job[t].questionId \in Nat /\ job[t].answerId \in Nat /\ job[t].answers \in Nat
      /\ job[t].words \in Seq(Words)
  BY <1>1 DEF JobType
<1>7. question \subseteq Row /\ answer \subseteq Nat \X Texts
  BY DEF IInv, TypeOK
<1>8. CASE AddQuestionNum(t)
  <2>1. /\ pc[t] = "addQuestionNum" /\ answerNum' = answerNum
        /\ pc'[t] = IF job[t].kind = "ask" THEN "words" ELSE "takeAnswerId"
    BY <1>1, <1>8 DEF AddQuestionNum
  <2>2. job[t].questionId = questionNum /\ job[t].words = WordsOf[job[t].text]
    BY <1>1, <2>1 DEF JobInv
  <2>3. questionNum' = questionNum + 1
    BY <1>8, <2>2 DEF AddQuestionNum, Added
  <2>4. \A q \in question : q.questionId \in Nat /\ q.questionId < questionNum
    BY <1>1, <1>7 DEF TablesInv, CountersAbove, Row
  <2>5. CountersAbove'
    BY <1>1, <1>2, <2>1, <2>3, <2>4 DEF TablesInv, CountersAbove, tables
  <2>6. NewQuestion(job[t])'
    BY <1>1, <1>2, <2>2, <2>3, <2>4 DEF NewQuestion, tables
  <2>7. Filed(job[t])'
    BY <1>2, <2>2 DEF Filed, tables
  <2>8. job[t].kind # "answer"
    BY <1>1, <2>1 DEF StageInv
  <2>9. JobInv(t)'
    BY <1>2, <2>1, <2>6, <2>7, <2>8 DEF JobInv
  <2> QED
    BY <1>4, <1>5, <2>5, <2>9 DEF TablesInv
<1>9. CASE AddAnswerNum(t)
  <2>1. /\ pc[t] = "addAnswerNum" /\ questionNum' = questionNum
        /\ pc'[t] = "insertAnswer"
    BY <1>1, <1>9 DEF AddAnswerNum, AfterAnswerNum
  <2>2. job[t].answerId = answerNum
    BY <1>1, <2>1 DEF JobInv
  <2>3. answerNum' = answerNum + job[t].answers
    BY <1>9, <2>2 DEF AddAnswerNum, Added
  <2>4. \A x \in answer : x[1] \in Nat /\ x[1] < answerNum
    BY <1>1, <1>7 DEF TablesInv, CountersAbove
  <2>5. CountersAbove'
    BY <1>1, <1>2, <1>6, <2>1, <2>3, <2>4 DEF TablesInv, CountersAbove, tables
  <2>6. job[t].inserted = 0
    BY <1>1, <2>1 DEF StageInv
  <2>7. NewAnswers(job[t])'
    BY <1>1, <1>2, <1>6, <2>2, <2>3, <2>4, <2>6 DEF NewAnswers, tables
  <2>8. job[t].kind # "answer" => NewQuestion(job[t]) /\ Filed(job[t])
    BY <1>1, <2>1 DEF JobInv, HasQuestionId
  <2>9. job[t].kind # "answer" => NewQuestion(job[t])' /\ Filed(job[t])'
    BY <1>2, <2>1, <2>8 DEF NewQuestion, Filed, tables, AllKept, Kept
  <2>10. job[t].kind = "answer" => job[t].row[1] \in question
    BY <1>1, <2>1 DEF JobInv, Answering
  <2>11. JobInv(t)'
    BY <1>2, <2>1, <2>7, <2>9, <2>10 DEF JobInv, tables
  <2> QED
    BY <1>4, <1>5, <2>5, <2>11 DEF TablesInv
<1> QED
  BY <1>8, <1>9

(* An answer gets the next id the thread reserved.                         *)
LEMMA InsertAnswerAlone ==
  ASSUME IInv, Alone, AllKept, NEW t \in Threads, InsertAnswerRow(t)
  PROVE  TablesInv' /\ JobInv(t)' /\ (t = Main => UpdateInv')
<1> USE DEF At, Goto
<1> DEFINE j == job[t]
           id == j.answerId + j.inserted
<1>1. /\ j \in JobType /\ job \in [Threads -> JobType] /\ pc \in [Threads -> Statements]
      /\ JobInv(t) /\ StageInv(t) /\ TablesInv /\ UpdateInv /\ pc[t] = "insertAnswer"
  BY DEF IInv, TypeOK, Alone, InsertAnswerRow
<1>2. UNCHANGED <<question, word, counters, replied, file, position>>
  BY DEF InsertAnswerRow
<1>3. answer' \subseteq answer \cup {<<id, j.text>>}
  BY DEF InsertAnswerRow
<1>4. /\ job'[t].kind = j.kind /\ job'[t].row = j.row /\ job'[t].text = j.text
      /\ job'[t].inserted = j.inserted + 1 /\ job'[t].answers = j.answers
      /\ job'[t].answerId = j.answerId /\ job'[t].questionId = j.questionId
      /\ job'[t].words = j.words
  <2>1. job'[t] = [j EXCEPT !.inserted = j.inserted + 1]
    BY <1>1 DEF InsertAnswerRow
  <2> QED
    BY <1>1, <2>1 DEF JobType
<1>5. pc'[t] = IF j.inserted + 1 < j.answers THEN "insertAnswer"
               ELSE IF j.kind = "answer" THEN "updateQuestion" ELSE "words"
  BY <1>1 DEF InsertAnswerRow, MoreAnswers
<1>6. /\ j.inserted \in Nat /\ j.answers \in Nat /\ j.answerId \in Nat /\ answerNum \in Nat
      /\ j.inserted < j.answers
  BY <1>1 DEF StageInv, JobType, IInv, TypeOK
<1>7. \A x \in answer : x \in Nat \X Texts
  BY DEF IInv, TypeOK
<1>8. j.answerId + j.answers <= answerNum /\ \A x \in answer : x[1] < id
  BY <1>1 DEF JobInv, NewAnswers
<1>9. id \in Nat /\ id < answerNum
  BY <1>6, <1>8
<1> HIDE DEF id
<1>10. \A x \in answer' : x \in answer \/ x = <<id, j.text>>
  BY <1>3
<1>11. CountersAbove'
  BY <1>1, <1>2, <1>9, <1>10 DEF TablesInv, CountersAbove, counters
<1>12. IdsAreUnique'
  <2>1. ASSUME NEW x \in answer', NEW y \in answer', x[1] = y[1] PROVE x = y
    <3>1. CASE x \in answer /\ y \in answer
      BY <1>1, <2>1, <3>1 DEF TablesInv, IdsAreUnique
    <3>2. CASE x \in answer /\ y = <<id, j.text>>
      BY <1>7, <1>8, <1>9, <2>1, <3>2
    <3>3. CASE y \in answer /\ x = <<id, j.text>>
      BY <1>7, <1>8, <1>9, <2>1, <3>3
    <3> QED
      BY <1>10, <3>1, <3>2, <3>3
  <2>2. \A p, q \in question' : p.questionId = q.questionId => p = q
    BY <1>1, <1>2 DEF TablesInv, IdsAreUnique
  <2> QED
    BY <2>1, <2>2 DEF IdsAreUnique
<1>13. FoundByItsWords' /\ RepliedIsListed'
  BY <1>1, <1>2 DEF TablesInv, FoundByItsWords, RepliedIsListed, Rows, AllKept, Kept
<1>14. NewAnswers(job[t])'
  <2>1. job'[t].answerId + job'[t].inserted = id + 1
    BY <1>4, <1>6 DEF id
  <2>2. \A x \in answer' : x[1] < id + 1
    BY <1>7, <1>8, <1>9, <1>10
  <2>3. answerNum' = answerNum
    BY <1>2 DEF counters
  <2> QED
    BY <1>4, <1>8, <2>1, <2>2, <2>3 DEF NewAnswers
<1>15. j.kind # "answer" => NewQuestion(j) /\ Filed(j)
  BY <1>1 DEF JobInv, HasQuestionId
<1>16. j.kind # "answer" => NewQuestion(job[t])' /\ Filed(job[t])'
  BY <1>2, <1>4, <1>15 DEF NewQuestion, Filed, counters, AllKept, Kept
<1>17. j.kind = "answer" => job'[t].row[1] \in question'
  BY <1>1, <1>2, <1>4 DEF JobInv, Answering
<1>18. JobInv(t)'
  BY <1>4, <1>5, <1>14, <1>16, <1>17 DEF JobInv
<1>19. pc'[t] # "parse"
  BY <1>5
<1>20. t = Main => UpdateInv'
  BY <1>1, <1>2, <1>4, <1>19, UpdateSame
<1> QED
  BY <1>11, <1>12, <1>13, <1>18, <1>20 DEF TablesInv

(* Alone, the ids written back with a word are those of the table.         *)
LEMMA WordsAlone ==
  ASSUME IInv, Alone, AllKept, NEW t \in Threads, SelectWord(t) \/ WriteWord(t)
  PROVE  TablesInv' /\ JobInv(t)' /\ (t = Main => UpdateInv')
<1> USE DEF At, Goto
<1> DEFINE j == job[t]
           w == Head(j.words)
<1>1. /\ j \in JobType /\ job \in [Threads -> JobType] /\ pc \in [Threads -> Statements]
      /\ JobInv(t) /\ StageInv(t) /\ TablesInv /\ UpdateInv
      /\ word \in [Words -> Seq(Nat)]
  BY DEF IInv, TypeOK, Alone
<1>2. UNCHANGED <<question, answer, counters, replied, file, position>>
  BY DEF SelectWord, WriteWord, tables
<1>3. /\ pc[t] \in {"words", "writeWord"} /\ pc'[t] \in {"words", "writeWord"}
  BY <1>1 DEF SelectWord, WriteWord
<1>4. j.kind # "answer" /\ NewQuestion(j) /\ Filed(j)
  BY <1>1, <1>3 DEF StageInv, JobInv, HasQuestionId
<1>5. j.words # << >> /\ j.words \in Seq(Words) /\ j.questionId \in Nat
  BY <1>1 DEF StageInv, SelectWord, WriteWord, JobType
<1>6. w \in Words /\ Range(j.words) \subseteq {w} \cup Range(Tail(j.words))
  BY <1>5, RangeOfRest
<1>7. /\ job'[t].kind = j.kind /\ job'[t].text = j.text /\ job'[t].questionId = j.questionId
  <2>1. job'[t] = [j EXCEPT !.ids = word[w]] \/ job'[t] = [j EXCEPT !.words = Tail(j.words)]
    BY <1>1 DEF SelectWord, WriteWord
  <2> QED
    BY <1>1, <2>1 DEF JobType
<1>8. t = Main => UpdateInv'
  BY <1>1, <1>2, <1>3, <1>7, UpdateSame
<1>9. NewQuestion(job[t])'
  BY <1>2, <1>4, <1>7 DEF NewQuestion, counters
<1>10. CASE SelectWord(t) /\ UNCHANGED faults
  <2>0. ~Fails("words", <<j.questionId, w>>)
    BY <1>10 DEF Fails, faults, IInv, TypeOK, FaultsOK
  <2>1. word' = word /\ pc'[t] = "writeWord"
    BY <1>1, <1>10, <2>0 DEF SelectWord, tables
  <2>2. job'[t].words = j.words /\ job'[t].ids = word[w]
    BY <1>1, <1>10, <2>0 DEF SelectWord, JobType
  <2>3. TablesInv'
    BY <1>1, <1>2, <2>1, TablesSame DEF tables, AllKept
  <2>4. Filed(job[t])'
    BY <1>4, <1>7, <2>1, <2>2 DEF Filed, AllKept, Kept
  <2>5. JobInv(t)'
    BY <1>4, <1>7, <1>9, <2>1, <2>2, <2>4 DEF JobInv
  <2> QED
    BY <1>8, <2>3, <2>5
<1>11. CASE WriteWord(t) /\ UNCHANGED faults
  <2>0. ~Fails("words", <<j.questionId, w>>)
    BY <1>11 DEF Fails, faults, IInv, TypeOK, FaultsOK
  <2>1. pc[t] = "writeWord" /\ pc'[t] = "words"
    BY <1>1, <1>11 DEF WriteWord
  <2>2. j.ids = word[w]
    BY <1>1, <2>1 DEF JobInv
  <2>3. job'[t].words = Tail(j.words)
    BY <1>1, <1>11 DEF WriteWord, JobType
  <2>4. word' = [word EXCEPT ![w] = Append(word[w], j.questionId)]
    BY <1>11, <2>0, <2>2 DEF WriteWord
  <2>5. /\ Contains(Append(word[w], j.questionId), j.questionId)
        /\ \A id : Contains(word[w], id) => Contains(Append(word[w], j.questionId), id)
    BY <1>1, <1>5, <1>6, AppendContains
  <2>6. /\ Contains(word'[w], j.questionId)
        /\ \A v \in Words : \A id : Contains(word[v], id) => Contains(word'[v], id)
    BY <1>1, <1>6, <2>4, <2>5
  <2>7. \A x \in Texts : Range(WordsOf[x]) \subseteq Words
    BY DEF Words
  <2>8. j.text \in Texts /\ \A q \in question : q.text \in Texts
    BY <1>1 DEF JobType, IInv, TypeOK, Row
  <2>9. FoundByItsWords'
    BY <1>1, <1>2, <2>6, <2>7, <2>8 DEF TablesInv, FoundByItsWords, AllKept, Kept
  <2>10. CountersAbove' /\ IdsAreUnique' /\ RepliedIsListed'
    BY <1>1, <1>2 DEF TablesInv, CountersAbove, IdsAreUnique, RepliedIsListed, Rows,
       counters, AllKept, Kept
  <2>11. Filed(job[t])'
    BY <1>4, <1>6, <1>7, <2>3, <2>6, <2>7, <2>8 DEF Filed, AllKept, Kept
  <2>12. JobInv(t)'
    BY <1>4, <1>7, <1>9, <2>1, <2>11 DEF JobInv
  <2> QED
    BY <1>8, <2>9, <2>10, <2>12 DEF TablesInv
<1>12. CASE ~UNCHANGED faults
  <2>1. Fails("words", <<j.questionId, w>>) /\ word' = word
    BY <1>12 DEF SelectWord, WriteWord, tables
  <2>2. job' = [job EXCEPT ![t].words = Tail(@)] /\ pc'[t] = "words"
    BY <1>1, <1>12 DEF SelectWord, WriteWord
  <2>3. job'[t].words = Tail(j.words)
    BY <1>1, <2>2 DEF JobType
  <2>4. <<j.questionId, w>> \in failed'.words
    BY <2>1 DEF Fails, IInv, TypeOK, FaultsOK, FailedType
  <2>5. TablesInv'
    BY <1>1, <1>2, <2>1, TablesSame DEF tables, AllKept
  <2>6. Filed(job[t])'
    BY <1>4, <1>6, <1>7, <2>1, <2>3, <2>4 DEF Filed, AllKept, Kept
  <2>7. JobInv(t)'
    BY <1>4, <1>7, <1>9, <2>2, <2>6 DEF JobInv
  <2> QED
    BY <1>8, <2>5, <2>7
<1> QED
  BY <1>10, <1>11, <1>12

(* A question is stored under a new id, after all its words.               *)
LEMMA InsertQuestionAlone ==
  ASSUME IInv, Alone, AllKept, NEW t \in Threads, InsertQuestionRow(t)
  PROVE  TablesInv' /\ JobInv(t)' /\ (t = Main => UpdateInv')
<1> USE DEF At, Goto
<1> DEFINE j == job[t]
           new == [questionId |-> j.questionId, text |-> j.text, detail |-> TRUE,
                   answerIds |-> [i \in 1..j.answers |-> j.answerId + (i - 1)]]
<1>1. /\ j \in JobType /\ pc \in [Threads -> Statements]
      /\ JobInv(t) /\ StageInv(t) /\ TablesInv /\ UpdateInv /\ pc[t] = "words"
      /\ j.words = << >>
  BY DEF IInv, TypeOK, Alone, InsertQuestionRow, WordsDone
<1>2. UNCHANGED <<answer, word, counters, replied, file, position, job>>
  BY DEF InsertQuestionRow
<1>3. NewQuestion(j) /\ Filed(j) /\ j.questionId \in Nat /\ questionNum \in Nat
  BY <1>1 DEF StageInv, JobInv, HasQuestionId, JobType, IInv, TypeOK
<1>4. \A q \in question : q.questionId \in Nat
  BY DEF IInv, TypeOK, Row
<1>5. new.questionId = j.questionId /\ new.text = j.text
  OBVIOUS
<1>6. \/ question' = question \cup {new}
      \/ question' = question /\ Fails("questions", j.text)
  BY DEF InsertQuestionRow
<1> HIDE DEF new
<1>7. \A q \in question' : q \in question \/ q = new
  BY <1>6
<1>8. CountersAbove'
  BY <1>1, <1>2, <1>3, <1>5, <1>7 DEF TablesInv, CountersAbove, NewQuestion, counters
<1>9. IdsAreUnique'
  <2>1. ASSUME NEW p \in question', NEW q \in question', p.questionId = q.questionId PROVE p = q
    <3>1. CASE p \in question /\ q \in question
      BY <1>1, <2>1, <3>1 DEF TablesInv, IdsAreUnique
    <3>2. CASE p \in question /\ q = new
      BY <1>3, <1>4, <1>5, <2>1, <3>2 DEF NewQuestion
    <3>3. CASE q \in question /\ p = new
      BY <1>3, <1>4, <1>5, <2>1, <3>3 DEF NewQuestion
    <3> QED
      BY <1>7, <3>1, <3>2, <3>3
  <2>2. \A x, y \in answer' : x[1] = y[1] => x = y
    BY <1>1, <1>2 DEF TablesInv, IdsAreUnique
  <2> QED
    BY <2>1, <2>2 DEF IdsAreUnique
<1>10. FoundByItsWords'
  <2>1. Range(j.words) = {}
    BY <1>1 DEF Range
  <2>2. \A v \in Range(WordsOf[new.text]) :
          Contains(word[v], new.questionId) \/ <<new.questionId, v>> \in failed.words
    BY <1>3, <1>5, <2>1 DEF Filed
  <2> QED
    BY <1>1, <1>2, <1>7, <2>2 DEF TablesInv, FoundByItsWords, AllKept, Kept
<1>11. RepliedIsListed'
  BY <1>1, <1>2, <1>6 DEF TablesInv, RepliedIsListed, Rows, AllKept, Kept
<1>12. pc'[t] = IF j.kind = "ask" THEN "idle" ELSE "parse"
  BY <1>1 DEF InsertQuestionRow
<1>13. JobInv(t)'
  BY <1>12, IdleJob
<1>14. ASSUME t = Main PROVE UpdateInv'
  <2>1. pc'[Main] = "parse"
    BY <1>1, <1>12, <1>14 DEF UpdateInv
  <2>2. /\ \A x : Exists(x) => Exists(x)'
        /\ Exists(job[Main].text)' \/ job[Main].text \in failed'.questions
    <3>1. CASE question' = question \cup {new}
      <4>1. new \in question' /\ new.text = job'[Main].text /\ question \subseteq question'
        BY <1>2, <1>5, <1>14, <3>1
      <4> QED
        BY <4>1 DEF Exists
    <3>2. CASE question' = question /\ Fails("questions", j.text)
      <4>1. job[Main].text \in failed'.questions
        BY <1>14, <3>2 DEF Fails, IInv, TypeOK, FaultsOK, FailedType
      <4> QED
        BY <3>2, <4>1 DEF Exists
    <3> QED
      BY <1>6, <3>1, <3>2
  <2>3. \A i \in 1..Len(file) : i <= position =>
          \/ file[i].answers = 0 \/ Exists(file[i].text) \/ file[i].text \in failed.questions
          \/ file[i].text = job[Main].text
    BY <1>1, <1>14 DEF UpdateInv
  <2>4. failed.questions \subseteq failed'.questions
    BY DEF AllKept
  <2> QED
    BY <1>2, <2>1, <2>2, <2>3, <2>4 DEF UpdateInv, Exists
<1> QED
  BY <1>8, <1>9, <1>10, <1>11, <1>13, <1>14 DEF TablesInv

(* Alone, updateQuestion replaces the row by the same with one answer more *)
(* (or leaves it, if the text is quoted).                                  *)
LEMMA UpdateQuestionAlone ==
  ASSUME IInv, Alone, AllKept, NEW t \in Threads, UpdateQuestion(t)
  PROVE  TablesInv' /\ JobInv(t)' /\ (t = Main => UpdateInv')
<1> USE DEF At, Goto
<1> DEFINE j == job[t]
           row == j.row[1]
           Up(q) == IF q.questionId = row.questionId THEN Updated(q, row, j.answerId) ELSE q
<1>1. /\ j \in JobType /\ pc \in [Threads -> Statements]
      /\ JobInv(t) /\ StageInv(t) /\ TablesInv /\ UpdateInv /\ pc[t] = "updateQuestion"
  BY DEF IInv, TypeOK, Alone, UpdateQuestion
<1>2. UNCHANGED <<answer, word, counters, file, position, job>>
  BY DEF UpdateQuestion
<1>3. j.kind = "answer" /\ row \in question
  BY <1>1 DEF StageInv, JobInv, Answering
<1>4. question \subseteq Row /\ j.answerId \in Nat
  BY <1>1 DEF IInv, TypeOK, JobType
<1>14. t # Main
  BY <1>1, <1>3 DEF UpdateInv
<1>13. JobInv(t)'
  <2>1. pc'[t] = "idle"
    BY <1>1 DEF UpdateQuestion
  <2> QED
    BY <2>1, IdleJob
<1>15. replied' = replied \cup {<<row.questionId, j.answerId>>}
  BY DEF UpdateQuestion
<1>16. CASE ~UNCHANGED faults
  <2>1. Fails("updates", <<row.questionId, j.answerId>>) /\ question' = question
    BY <1>16 DEF UpdateQuestion
  <2>2. <<row.questionId, j.answerId>> \in failed'.updates
    BY <2>1 DEF Fails, IInv, TypeOK, FaultsOK, FailedType
  <2>3. RepliedIsListed'
    BY <1>1, <1>3, <1>15, <2>1, <2>2 DEF TablesInv, RepliedIsListed, Rows, AllKept, Kept
  <2>4. CountersAbove' /\ IdsAreUnique' /\ FoundByItsWords'
    BY <1>1, <1>2, <2>1 DEF TablesInv, CountersAbove, IdsAreUnique, FoundByItsWords, counters,
       AllKept, Kept
  <2> QED
    BY <1>13, <1>14, <2>3, <2>4 DEF TablesInv
<1> SUFFICES ASSUME UNCHANGED faults PROVE TablesInv'
  BY <1>13, <1>14, <1>16
<1>17. failed' = failed
  BY DEF faults
<1>5. question' = {Up(q) : q \in question}
  <2>1. ~Fails("updates", <<row.questionId, j.answerId>>)
    BY DEF Fails, faults, IInv, TypeOK, FaultsOK
  <2> QED
    BY <2>1 DEF UpdateQuestion
<1>6. \A q \in question : q.questionId = row.questionId => q = row
  BY <1>1, <1>3 DEF TablesInv, IdsAreUnique
<1>7. ASSUME NEW q \in question
      PROVE  /\ Up(q).questionId = q.questionId /\ Up(q).text = q.text
             /\ \A x : Contains(q.answerIds, x) => Contains(Up(q).answerIds, x)
             /\ q = row /\ q.text \notin Quoted => Contains(Up(q).answerIds, j.answerId)
  <2>1. CASE q # row \/ row.text \in Quoted
    <3>1. Up(q) = q
      BY <1>6, <2>1 DEF Updated
    <3> QED
      BY <2>1, <3>1
  <2>2. CASE q = row /\ row.text \notin Quoted
    <3>1. q \in Row /\ q.answerIds \in Seq(Nat)
      BY <1>4 DEF Row
    <3>2. Up(q) = [q EXCEPT !.text = q.text, !.answerIds = Append(q.answerIds, j.answerId),
                            !.detail = FALSE]
      BY <2>2 DEF Updated
    <3>3. /\ Up(q).questionId = q.questionId /\ Up(q).text = q.text
          /\ Up(q).answerIds = Append(q.answerIds, j.answerId)
      BY <3>1, <3>2 DEF Row
    <3> HIDE DEF Up
    <3> QED
      BY <1>4, <3>1, <3>3, AppendContains
  <2> QED
    BY <2>1, <2>2
<1> HIDE DEF Up
<1>8. \A p \in question' : \E q \in question : p = Up(q)
  BY <1>5
<1>9. CountersAbove'
  BY <1>1, <1>2, <1>7, <1>8 DEF TablesInv, CountersAbove, counters
<1>10. IdsAreUnique'
  <2>1. ASSUME NEW p \in question', NEW q \in question', p.questionId = q.questionId PROVE p = q
    <3>1. PICK p0 \in question : p = Up(p0)
      BY <1>8
    <3>2. PICK q0 \in question : q = Up(q0)
      BY <1>8
    <3>3. p0.questionId = q0.questionId
      BY <1>7, <2>1, <3>1, <3>2
    <3>4. p0 = q0
      BY <1>1, <3>3 DEF TablesInv, IdsAreUnique
    <3> QED
      BY <3>1, <3>2, <3>4
  <2>2. \A x, y \in answer' : x[1] = y[1] => x = y
    BY <1>1, <1>2 DEF TablesInv, IdsAreUnique
  <2> QED
    BY <2>1, <2>2 DEF IdsAreUnique
<1>11. FoundByItsWords'
  <2>1. ASSUME NEW p \in question', NEW v \in Range(WordsOf[p.text])
        PROVE  Contains(word[v], p.questionId) \/ <<p.questionId, v>> \in failed.words
    <3>1. PICK q \in question : p = Up(q)
      BY <1>8
    <3>2. p.questionId = q.questionId /\ p.text = q.text
      BY <1>7, <3>1
    <3> QED
      BY <1>1, <3>2 DEF TablesInv, FoundByItsWords
  <2> QED
    BY <1>2, <1>17, <2>1 DEF FoundByItsWords
<1>12. RepliedIsListed'
  <2> DEFINE Listed(r) ==
               \E q \in question' :
                 /\ q.questionId = r[1]
                 /\ q.text \in Quoted \/ Contains(q.answerIds, r[2]) \/ r \in failed.updates
  <2>2. ASSUME NEW r \in replied PROVE Listed(r)
    <3>1. PICK q \in question :
            /\ q.questionId = r[1]
            /\ q.text \in Quoted \/ Contains(q.answerIds, r[2]) \/ r \in failed.updates
      BY <1>1 DEF TablesInv, RepliedIsListed, Rows
    <3>2. /\ Up(q) \in question' /\ Up(q).questionId = r[1]
          /\ \/ Up(q).text \in Quoted \/ Contains(Up(q).answerIds, r[2])
             \/ r \in failed.updates
      BY <1>5, <1>7, <3>1
    <3> QED
      BY <3>2
  <2>3. Listed(<<row.questionId, j.answerId>>)
    <3>1. /\ Up(row) \in question' /\ Up(row).questionId = row.questionId
          /\ Up(row).text \in Quoted \/ Contains(Up(row).answerIds, j.answerId)
      BY <1>3, <1>5, <1>7
    <3> QED
      BY <3>1
  <2> HIDE DEF Listed
  <2>4. \A r \in replied' : Listed(r)
    BY <1>15, <2>2, <2>3
  <2> QED
    BY <1>17, <2>4 DEF Listed, RepliedIsListed, Rows
<1> QED
  BY <1>9, <1>10, <1>11, <1>12 DEF TablesInv

(* A request begins with a row of the table, or with all words of its      *)
(* question to write.                                                      *)
LEMMA BeginAlone ==
  ASSUME IInv, Alone, AllKept, NEW t \in Threads,
         \/ \E x \in Texts : InsertQuestion(t, x)
         \/ \E q \in question : InsertAnswer(t, q.questionId)
  PROVE  TablesInv' /\ JobInv(t)' /\ t # Main
<1> USE DEF At, Goto
<1>1. job \in [Threads -> JobType] /\ pc \in [Threads -> Statements] /\ TablesInv
  BY DEF IInv, TypeOK, Alone
<1>2. UNCHANGED <<tables, counters, replied>> /\ t \in Workers
  BY DEF InsertQuestion, InsertAnswer
<1>3. TablesInv'
  BY <1>1, <1>2, TablesSame DEF AllKept
<1>4. t # Main
  BY <1>2, StoreAssumption
<1>5. ASSUME NEW x \in Texts, InsertQuestion(t, x) PROVE JobInv(t)'
  <2>1. pc'[t] = "takeQuestionId" /\ job'[t] = Job("ask", x)
    BY <1>1, <1>5 DEF InsertQuestion
  <2>2. job'[t].words = WordsOf[job'[t].text]
    BY <2>1 DEF Job
  <2> QED
    BY <2>1, <2>2 DEF JobInv, HasQuestionId, Answering
<1>6. ASSUME NEW id, InsertAnswer(t, id) PROVE JobInv(t)'
  <2>1. PICK q \in Rows(id) :
          job' = [job EXCEPT ![t] = [Job("answer", q.text) EXCEPT !.row = <<q>>, !.answers = 1]]
    BY <1>6 DEF InsertAnswer
  <2>2. pc'[t] = "takeAnswerId"
    BY <1>1, <1>6 DEF InsertAnswer
  <2>3. job'[t].kind = "answer" /\ job'[t].row = <<q>>
    BY <1>1, <2>1 DEF Job
  <2>4. job'[t].row[1] \in question'
    BY <1>2, <2>3 DEF Rows, tables
  <2> QED
    BY <2>2, <2>3, <2>4 DEF JobInv
<1> QED
  BY <1>3, <1>4, <1>5, <1>6

(* The update begins, takes an entry of the file, and ends.                *)
LEMMA UpdateAlone ==
  ASSUME IInv, Alone, Kept, AllKept \/ UpdateDataBase,
         UpdateDataBase \/ ParseQuestion \/ TruncateFile
  PROVE  TablesInv' /\ JobInv(Main)' /\ UpdateInv'
<1> USE DEF At, Goto
<1>1. /\ job \in [Threads -> JobType] /\ pc \in [Threads -> Statements] /\ TablesInv
      /\ Main \in Threads /\ UpdateInv
  BY DEF IInv, TypeOK, Alone, Threads
<1>2. UNCHANGED <<tables, counters, replied>>
  BY DEF UpdateDataBase, ParseQuestion, TruncateFile
<1>3. TablesInv'
  BY <1>1, <1>2, TablesSame
<1>4. CASE UpdateDataBase
  <2>1. pc'[Main] = "parse" /\ position' = 0
    BY <1>1, <1>4 DEF UpdateDataBase
  <2>2. \A i \in 1..Len(file') : ~(i <= position')
    BY <2>1
  <2> QED
    BY <1>3, <2>1, <2>2, IdleJob DEF UpdateInv
<1>5. CASE TruncateFile
  <2>1. pc'[Main] = "idle"
    BY <1>1, <1>5 DEF TruncateFile
  <2> QED
    BY <1>3, <2>1, IdleJob, IdleUpdate
<1>6. CASE ParseQuestion
  <2> DEFINE entry == file[position + 1]
  <2>1. /\ pc[Main] = "parse" /\ position' = position + 1 /\ file' = file /\ question' = question
        /\ position \in Nat /\ Len(file) \in Nat
    BY <1>6 DEF ParseQuestion, IInv, TypeOK, tables
  <2>8. AllKept
    BY <1>1, <2>1 DEF UpdateDataBase
  <2>2. \A i \in 1..Len(file) : i <= position =>
          file[i].answers = 0 \/ Exists(file[i].text) \/ file[i].text \in failed'.questions
    BY <1>1, <2>1, <2>8 DEF UpdateInv, AllKept
  <2>3. \A i \in 1..Len(file) : i <= position + 1 => i <= position \/ i = position + 1
    BY <2>1
  <2>4. CASE /\ pc' = pc
             /\ entry.answers = 0 \/ Exists(entry.text) \/ Fails("questions", entry.text)
    <3>1. pc'[Main] = "parse"
      BY <2>1, <2>4
    <3>2. entry.answers = 0 \/ Exists(entry.text) \/ entry.text \in failed'.questions
      BY <2>4 DEF Fails, IInv, TypeOK, FaultsOK, FailedType
    <3>3. \A i \in 1..Len(file) : i <= position + 1 =>
            file[i].answers = 0 \/ Exists(file[i].text) \/ file[i].text \in failed'.questions
      BY <2>2, <2>3, <3>2
    <3>4. UpdateInv'
      BY <2>1, <3>1, <3>3 DEF UpdateInv, Exists
    <3> QED
      BY <1>3, <3>1, <3>4, IdleJob
  <2> DEFINE j == [Job("crawl", entry.text) EXCEPT !.answers = entry.answers]
  <2>5. CASE /\ ~Exists(entry.text)
             /\ pc' = [pc EXCEPT ![Main] = "takeQuestionId"] /\ job' = [job EXCEPT ![Main] = j]
    <3>2. pc'[Main] = "takeQuestionId" /\ job'[Main] = j
      BY <1>1, <2>5
    <3>3. j.kind = "crawl" /\ j.text = entry.text /\ j.words = WordsOf[entry.text]
      BY DEF Job
    <3> HIDE DEF j
    <3>4. JobInv(Main)'
      BY <3>2, <3>3 DEF JobInv, HasQuestionId, Answering
    <3>5. \A i \in 1..Len(file) : i <= position + 1 =>
            \/ file[i].answers = 0 \/ Exists(file[i].text)
            \/ file[i].text \in failed'.questions \/ file[i].text = j.text
      BY <2>2, <2>3, <3>3
    <3>6. ~Exists(j.text)
      BY <2>5, <3>3
    <3>7. UpdateInv'
      BY <2>1, <3>2, <3>3, <3>5, <3>6 DEF UpdateInv, Exists
    <3> QED
      BY <1>3, <3>4, <3>7
  <2> QED
    BY <1>6, <2>4, <2>5 DEF ParseQuestion, Entry
<1> QED
  BY <1>4, <1>5, <1>6

(* A restart counts from the greatest id in a table, a crawl changes only  *)
(* the file.                                                               *)
LEMMA RestartAlone ==
  ASSUME IInv, Alone, Kept, Restart
  PROVE  TablesInv' /\ (\A t \in Threads : JobInv(t)') /\ UpdateInv'
<1>1. UNCHANGED <<tables, replied>> /\ \A t \in Threads : pc'[t] = "idle"
  BY DEF Restart
<1>2. Main \in Threads /\ TablesInv
  BY DEF Threads, Alone
<1>3. ASSUME NEW ids \in SUBSET Nat, NEW n \in LineNum(ids)
      PROVE  \A i \in ids : i < n
  <2>1. PICK k \in ids : n = k + 1 /\ \A i \in ids : i <= k
    BY <1>3 DEF LineNum
  <2> QED
    BY <2>1
<1>4. /\ {q.questionId : q \in question} \in SUBSET Nat
      /\ {x[1] : x \in answer} \in SUBSET Nat
  BY DEF IInv, TypeOK, Row
<1>5. /\ questionNum' \in LineNum({q.questionId : q \in question})
      /\ answerNum' \in LineNum({x[1] : x \in answer})
  BY DEF Restart
<1>6. /\ \A i \in {q.questionId : q \in question} : i < questionNum'
      /\ \A i \in {x[1] : x \in answer} : i < answerNum'
  BY <1>3, <1>4, <1>5
<1>7. CountersAbove'
  BY <1>1, <1>6 DEF CountersAbove, tables
<1>8. TablesInv'
  BY <1>1, <1>2, <1>7 DEF Kept, TablesInv, IdsAreUnique, FoundByItsWords, RepliedIsListed, Rows,
     tables
<1> QED
  BY <1>1, <1>2, <1>8, IdleJob, IdleUpdate

LEMMA CrawlAlone ==
  ASSUME IInv, Alone, Kept, Crawl
  PROVE  TablesInv' /\ (\A t \in Threads : JobInv(t)') /\ UpdateInv'
<1>1. UNCHANGED <<tables, counters, replied, pc, job>> /\ pc'[Main] = "idle"
  BY DEF Crawl, At
<1>2. \A t \in Threads : JobInv(t)'
  BY <1>1 DEF Kept, Alone, JobInv, NewQuestion, NewAnswers, Filed, tables, counters
<1> QED
  BY <1>1, <1>2, TablesSame, IdleUpdate DEF Alone

-----------------------------------------------------------------------------
(* The theorems.                                                           *)

LEMMA ThreadStepNext ==
  ASSUME IInv, Alone, OneAtATime', NEW t \in Threads, ThreadStep(t)
  PROVE  TablesInv' /\ (\A u \in Threads : JobInv(u)') /\ UpdateInv'
<1>6. AllKept
  BY ThreadStepKeeps DEF IInv, TypeOK
<1>7. pc \in [Threads -> Statements]
  BY DEF IInv, TypeOK
<1>1. TablesInv' /\ JobInv(t)' /\ (t = Main => UpdateInv')
  BY <1>6, BeginAlone, TakeIds, AddNums, InsertAnswerAlone, WordsAlone, InsertQuestionAlone,
     UpdateQuestionAlone DEF ThreadStep
<1>2. \E p : pc' = [pc EXCEPT ![t] = p] /\ (pc[t] # "idle" \/ (OneAtATime' /\ p # "idle"))
  <2>1. CASE (\E x \in Texts : InsertQuestion(t, x))
             \/ \E q \in question : InsertAnswer(t, q.questionId)
    BY <2>1 DEF InsertQuestion, InsertAnswer, Goto
  <2>2. CASE TakeQuestionId(t) \/ AddQuestionNum(t) \/ TakeAnswerId(t) \/ AddAnswerNum(t)
    BY <2>2 DEF TakeQuestionId, AddQuestionNum, TakeAnswerId, AddAnswerNum, At, Goto
  <2>3. CASE SelectWord(t) \/ WriteWord(t)
    <3>1. pc' = [pc EXCEPT ![t] = pc'[t]] /\ pc[t] # "idle"
      BY <2>3, <1>7 DEF SelectWord, WriteWord, At, Goto
    <3> QED
      BY <3>1
  <2>4. CASE InsertAnswerRow(t) \/ InsertQuestionRow(t) \/ UpdateQuestion(t)
    BY <2>4 DEF InsertAnswerRow, InsertQuestionRow, UpdateQuestion, At, Goto
  <2> QED
    BY <2>1, <2>2, <2>3, <2>4 DEF ThreadStep
<1>3. \A u \in Threads \ {t} : pc'[u] = "idle"
  BY <1>2, OthersIdle
<1>4. \A u \in Threads : JobInv(u)'
  BY <1>1, <1>3, IdleJob
<1>5. UpdateInv'
  BY <1>1, <1>3, IdleUpdate DEF Threads
<1> QED
  BY <1>1, <1>4, <1>5

LEMMA UpdateStepNext ==
  ASSUME IInv, Alone, OneAtATime', Kept, AllKept \/ UpdateDataBase,
         UpdateDataBase \/ ParseQuestion \/ TruncateFile
  PROVE  TablesInv' /\ (\A u \in Threads : JobInv(u)') /\ UpdateInv'
<1>1. TablesInv' /\ JobInv(Main)' /\ UpdateInv' /\ Main \in Threads
  BY UpdateAlone DEF Threads
<1>2. pc \in [Threads -> Statements]
  BY DEF IInv, TypeOK
<1>3. ASSUME NEW u \in Threads \ {Main} PROVE pc'[u] = "idle"
  <2>1. pc'[u] = pc[u]
    BY <1>2 DEF UpdateDataBase, ParseQuestion, TruncateFile, Goto
  <2>2. pc[Main] # "idle" \/ (pc'[Main] # "idle" /\ OneAtATime')
    BY <1>1, <1>2 DEF UpdateDataBase, ParseQuestion, TruncateFile, Goto, At
  <2> QED
    BY <1>1, <2>1, <2>2 DEF Alone, OneAtATime, At
<1> QED
  BY <1>1, <1>3, IdleJob

LEMMA InitAlone == AloneInit => AloneInv
<1> SUFFICES ASSUME AloneInit PROVE AloneInv
  OBVIOUS
<1>1. PICK x \in Texts :
        /\ question = {[questionId |-> 1, text |-> x, detail |-> TRUE, answerIds |-> <<1>>]}
        /\ answer = {<<1, x>>}
        /\ word = [v \in Words |-> IF v \in Range(WordsOf[x]) THEN <<1>> ELSE << >>]
  BY DEF AloneInit, Init
<1>2. /\ questionNum = 2 /\ answerNum = 2 /\ replied = {}
      /\ \A t \in Threads : pc[t] = "idle"
  BY DEF AloneInit, Init
<1>3. Main \in Threads
  BY DEF Threads
<1>4. CountersAbove /\ IdsAreUnique /\ RepliedIsListed
  BY <1>1, <1>2 DEF CountersAbove, IdsAreUnique, RepliedIsListed
<1>5. FoundByItsWords
  <2>1. ASSUME NEW v \in Range(WordsOf[x]) PROVE Contains(word[v], 1)
    <3>1. v \in Words
      BY DEF Words
    <3>2. word[v] = <<1>>
      BY <1>1, <3>1
    <3> QED
      BY <3>2 DEF Contains
  <2> QED
    BY <1>1, <2>1 DEF FoundByItsWords
<1>6. \A t \in Threads : JobInv(t)
  BY <1>2 DEF JobInv, HasQuestionId, Answering
<1>7. UpdateInv /\ OneAtATime
  BY <1>2, <1>3 DEF UpdateInv, OneAtATime, At
<1> QED
  BY <1>4, <1>5, <1>6, <1>7 DEF AloneInv, Alone, TablesInv

LEMMA AloneStep == IInv /\ AloneInv /\ [AloneNext]_<<vars, overlapped>> => AloneInv'
<1> SUFFICES ASSUME IInv, AloneInv, [AloneNext]_<<vars, overlapped>>, ~overlapped'
             PROVE  Alone'
  BY DEF AloneInv
<1>1. CASE AloneNext
  <2>1. ~overlapped /\ OneAtATime'
    BY <1>1 DEF AloneNext
  <2>2. Alone
    BY <2>1 DEF AloneInv
  <2>3. \/ \E t \in Threads : ThreadStep(t)
        \/ UpdateDataBase \/ ParseQuestion \/ TruncateFile
        \/ Crawl \/ Restart
    BY <1>1 DEF AloneNext, Next, ThreadStep
  <2>5. Kept /\ (AllKept \/ UpdateDataBase)
    BY <1>1, StepKeeps DEF AloneNext, IInv, TypeOK
  <2>4. TablesInv' /\ (\A u \in Threads : JobInv(u)') /\ UpdateInv'
    BY <2>1, <2>2, <2>3, <2>5, ThreadStepNext, UpdateStepNext, CrawlAlone, RestartAlone
  <2> QED
    BY <2>1, <2>4 DEF Alone
<1>2. CASE UNCHANGED <<vars, overlapped>>
  BY <1>2 DEF AloneInv, Alone, OneAtATime, At, TablesInv, CountersAbove, IdsAreUnique,
     FoundByItsWords, RepliedIsListed, Rows, JobInv, NewQuestion, NewAnswers, Filed, UpdateInv,
     Exists, vars, tables, counters, faults
<1> QED
  BY <1>1, <1>2

(* QuestionStoreAlone adds a history to QuestionStore: its invariant holds *)
(* here as well.                                                           *)
THEOREM AloneInductive == AloneSpec => [](IInv /\ AloneInv)
<1>1. AloneSpec => []IInv
  <2>1. IInv /\ [AloneNext]_<<vars, overlapped>> => IInv'
    <3>1. IInv /\ [Next]_vars => IInv'
      BY TypeNext, AnswersNext, ThreadsNext DEF IInv, ThreadInv
    <3> QED
      BY <3>1 DEF AloneNext
  <2>2. AloneInit => IInv
    BY InitIInv DEF AloneInit
  <2> QED
    BY <2>1, <2>2, PTL DEF AloneSpec
<1> QED
  BY <1>1, InitAlone, AloneStep, PTL DEF AloneSpec

(* No two questions and no two answers get the same id from nextQuestionId *)
(* and nextAnswerId, or after a restart from getTableLineNum, as long as   *)
(* requests and updates come one at a time.                                *)
THEOREM IdsAreUniqueAloneHolds == AloneSpec => []IdsAreUniqueAlone
<1>1. AloneInv => IdsAreUniqueAlone
  BY DEF AloneInv, Alone, TablesInv, IdsAreUniqueAlone
<1> QED
  BY <1>1, AloneInductive, PTL

(* A question insertQuestion has stored is found by each of its words in   *)
(* the table word for which no statement of insertWord failed, also if the *)
(* process died while others were stored.                                  *)
THEOREM FoundByItsWordsAloneHolds == AloneSpec => []FoundByItsWordsAlone
<1>1. AloneInv => FoundByItsWordsAlone
  BY DEF AloneInv, Alone, TablesInv, FoundByItsWordsAlone
<1> QED
  BY <1>1, AloneInductive, PTL

(* An answer whose insertion was reported to the client stays listed by    *)
(* its question, whatever updateQuestion writes back later; unless its own *)
(* UPDATE failed, which updateQuestion does not notice.                    *)
THEOREM RepliedIsListedAloneHolds == AloneSpec => []RepliedIsListedAlone
<1>1. AloneInv => RepliedIsListedAlone
  BY DEF AloneInv, Alone, TablesInv, RepliedIsListedAlone
<1> QED
  BY <1>1, AloneInductive, PTL

(* A crawl is told from the other steps by its count.                      *)
LEMMA CrawlsCounted == AloneSpec => [](crawls \in Nat)
<1>1. AloneInit => crawls \in Nat
  BY DEF AloneInit, Init
<1>2. crawls \in Nat /\ [AloneNext]_<<vars, overlapped>> => (crawls \in Nat)'
  <2>1. Next => crawls' = crawls \/ crawls' = crawls + 1
    BY DEF Next, bounds, InsertQuestion, InsertAnswer, TakeQuestionId, AddQuestionNum,
       TakeAnswerId, AddAnswerNum, InsertAnswerRow, SelectWord, WriteWord, InsertQuestionRow,
       UpdateQuestion, UpdateDataBase, ParseQuestion, TruncateFile, Crawl, Restart
  <2> QED
    BY <2>1 DEF AloneNext, vars, bounds
<1> QED
  BY <1>1, <1>2, PTL DEF AloneSpec

(* updateDataBase stores no question twice, and truncates the crawler's    *)
(* file only when all questions of it with an answer are stored, but for   *)
(* those whose SELECT or INSERT failed in this update (it drops them),     *)
(* however often it is interrupted by a crash and repeated.                *)
THEOREM CrawledOnceAloneHolds == AloneSpec => CrawledOnceAlone
<1> USE DEF At, Goto
<1>1. ASSUME IInv, AloneInv, [AloneNext]_<<vars, overlapped>>, ~overlapped'
      PROVE  StoredOnce
  <2>1. Alone
    BY <1>1 DEF AloneInv, AloneNext
  <2> SUFFICES ASSUME pc[Main] = "words", pc'[Main] = "parse"
               PROVE  \A q \in question' \ question : \A p \in question : p.text # q.text
    BY DEF StoredOnce
  <2>2. pc \in [Threads -> Statements] /\ Main \in Threads
    BY <1>1 DEF IInv, TypeOK, Threads
  <2>3. ~Exists(job[Main].text)
    BY <2>1 DEF Alone, UpdateInv
  <2>4. \A t \in Threads \ {Main} : pc[t] = "idle"
    BY <2>1, <2>2 DEF Alone, OneAtATime
  <2>5. InsertQuestionRow(Main) \/ question' = question
    <3>1. CASE \E t \in Threads : InsertQuestionRow(t) \/ UpdateQuestion(t)
      BY <2>4, <3>1 DEF InsertQuestionRow, UpdateQuestion
    <3>2. CASE \E t \in Threads :
                 \/ \E text \in Texts : InsertQuestion(t, text)
                 \/ \E q \in question : InsertAnswer(t, q.questionId)
                 \/ TakeQuestionId(t) \/ AddQuestionNum(t) \/ TakeAnswerId(t) \/ AddAnswerNum(t)
                 \/ InsertAnswerRow(t) \/ SelectWord(t) \/ WriteWord(t)
      BY <3>2 DEF tables, InsertQuestion, InsertAnswer, TakeQuestionId, AddQuestionNum,
         TakeAnswerId, AddAnswerNum, InsertAnswerRow, SelectWord, WriteWord
    <3>3. CASE \/ UpdateDataBase \/ ParseQuestion \/ TruncateFile \/ Crawl \/ Restart
               \/ UNCHANGED vars
      BY <3>3 DEF vars, tables, UpdateDataBase, ParseQuestion, TruncateFile, Crawl, Restart
    <3> QED
      BY <1>1, <3>1, <3>2, <3>3 DEF AloneNext, Next
  <2>6. ASSUME NEW q \in question' \ question PROVE q.text = job[Main].text
    BY <2>5, <2>6 DEF InsertQuestionRow
  <2> QED
    BY <2>3, <2>6 DEF Exists
<1>2. ASSUME IInv, AloneInv, crawls \in Nat, [AloneNext]_<<vars, overlapped>>, ~overlapped'
      PROVE  AllStored
  <2>1. Alone
    BY <1>2 DEF AloneInv, AloneNext
  <2> SUFFICES ASSUME file' = << >>, crawls' = crawls, NEW i \in DOMAIN file
               PROVE  \/ file[i].answers = 0 \/ file[i].text \in failed.questions
                      \/ \E q \in question : q.text = file[i].text
    BY DEF AllStored
  <2>2. file \in Seq([text : Texts, answers : Nat]) /\ file # << >>
    BY <1>2 DEF IInv, TypeOK
  <2>3. crawls' # crawls + 1 /\ file' # file
    BY <1>2, <2>2
  <2>4. TruncateFile
    <3>1. CASE \E t \in Threads :
                 \/ \E text \in Texts : InsertQuestion(t, text)
                 \/ \E q \in question : InsertAnswer(t, q.questionId)
                 \/ TakeQuestionId(t) \/ AddQuestionNum(t) \/ TakeAnswerId(t) \/ AddAnswerNum(t)
                 \/ InsertAnswerRow(t) \/ SelectWord(t) \/ WriteWord(t)
                 \/ InsertQuestionRow(t) \/ UpdateQuestion(t)
      BY <2>3, <3>1 DEF InsertQuestion, InsertAnswer, TakeQuestionId, AddQuestionNum,
         TakeAnswerId, AddAnswerNum, InsertAnswerRow, SelectWord, WriteWord,
         InsertQuestionRow, UpdateQuestion
    <3>2. CASE UpdateDataBase \/ ParseQuestion \/ Crawl \/ Restart \/ UNCHANGED vars
      BY <2>3, <3>2 DEF vars, UpdateDataBase, ParseQuestion, Crawl, Restart
    <3> QED
      BY <1>2, <3>1, <3>2 DEF AloneNext, Next
  <2>5. pc[Main] = "parse" /\ position >= Len(file)
    BY <2>4 DEF TruncateFile, EndOfFile
  <2>6. Len(file) \in Nat /\ position \in Nat /\ i \in 1..Len(file) /\ i <= position
    BY <1>2, <2>2, <2>5 DEF IInv, TypeOK
  <2>7. file[i].answers = 0 \/ Exists(file[i].text) \/ file[i].text \in failed.questions
    BY <2>1, <2>5, <2>6 DEF Alone, UpdateInv
  <2> QED
    BY <2>7 DEF Exists
<1>3. IInv /\ AloneInv /\ crawls \in Nat /\ [AloneNext]_<<vars, overlapped>> =>
        [~overlapped' => StoredOnce /\ AllStored]_vars
  BY <1>1, <1>2
<1> QED
  BY <1>3, AloneInductive, CrawlsCounted, PTL DEF AloneSpec, CrawledOnceAlone

=============================================================================
