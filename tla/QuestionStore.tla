---------------------------- MODULE QuestionStore ----------------------------
(***************************************************************************)
(* The questions, answers and words the server keeps in its database.      *)
(*                                                                         *)
(* HttpServer::insertQuestion and insertAnswer run on the io threads,      *)
(* DataBase::updateDataBase on the main thread when its timer expires; all *)
(* share one DataBase.  A step is one SQL statement with its result, or    *)
(* one access to a counter of the DataBase.  A statement may fail: a text  *)
(* ends its string with a backslash, the connection is lost, ...  Nothing  *)
(* but a SELECT's missing result is noticed then.  The process may die     *)
(* between any two steps; the tables and the crawler's file survive.       *)
(***************************************************************************)
EXTENDS Naturals, Sequences, SequencesExt

CONSTANTS
  Workers,          \* io threads
  Main,             \* the main thread
  Texts,            \* texts of questions
  WordsOf,          \* CutForSearch without the stop words: a sequence for every text
  Quoted,           \* texts with a quotation mark
  Crawled,          \* what the crawler writes: <<[text, answers], ...>>
  MaxRequests,      \* bound: questions and answers the clients send
  MaxCrawls,        \* bound: runs of the crawler
  MaxCrashes,       \* bound: deaths of the process
  MaxFailures       \* bound: statements that fail

ASSUME StoreAssumption ==
  /\ Main \notin Workers
  /\ WordsOf \in [Texts -> Seq(UNION {Range(WordsOf[t]) : t \in Texts})]
  /\ Quoted \subseteq Texts
  /\ Crawled \in Seq([text : Texts, answers : Nat])
  /\ {MaxRequests, MaxCrawls, MaxCrashes, MaxFailures} \subseteq Nat

VARIABLES
  question,         \* table question
  answer,           \* table answer: <<answerId, text of the question it answers>>
  word,             \* table word: questionIds of every word, empty without a row
  questionNum,      \* DataBase::questionNum_
  answerNum,        \* DataBase::answerNum_
  file,             \* zhihu_data.txt
  position,         \* entries updateDataBase has read
  pc,               \* next statement of every thread
  job,              \* local variables of every thread
  replied,          \* history: <<questionId, answerId>> reported as a success
  failed,           \* history: what the statements were about that failed
  requests, crawls, crashes, failures   \* count against the bounds

tables == <<question, answer, word>>
counters == <<questionNum, answerNum>>
bounds == <<requests, crawls, crashes>>
faults == <<failed, failures>>
vars == <<tables, counters, file, position, pc, job, replied, faults, bounds>>

Threads == Workers \cup {Main}
Words == UNION {Range(WordsOf[t]) : t \in Texts}

Job(kind, text) ==
  [kind |-> kind, text |-> text, questionId |-> 0, answerId |-> 0,
   answers |-> 0, inserted |-> 0, row |-> << >>, words |-> WordsOf[text], ids |-> << >>]

Rows(id) == {q \in question : q.questionId = id}

At(t, from) == pc[t] = from
Goto(t, to) == pc' = [pc EXCEPT ![t] = to]

(* A statement fails; what it was about is remembered.                     *)
Fails(statement, about) ==
  /\ failures < MaxFailures
  /\ failures' = failures + 1
  /\ failed' = [failed EXCEPT ![statement] = @ \cup {about}]

-----------------------------------------------------------------------------
(* What starts a thread's work.                                            *)

(* HttpServer::insertQuestion.                                             *)
InsertQuestion(t, text) ==
  /\ t \in Workers
  /\ requests < MaxRequests
  /\ At(t, "idle")
  /\ Goto(t, "takeQuestionId")
  /\ job' = [job EXCEPT ![t] = Job("ask", text)]
  /\ requests' = requests + 1
  /\ UNCHANGED <<tables, counters, file, position, replied, faults, crawls, crashes>>

(* HttpServer::insertAnswer keeps the row it found; it returns false if    *)
(* there is none, or if the query fails.                                   *)
InsertAnswer(t, id) ==
  /\ t \in Workers
  /\ requests < MaxRequests
  /\ At(t, "idle")
  /\ \E q \in Rows(id) :
       job' = [job EXCEPT ![t] = [Job("answer", q.text) EXCEPT !.row = <<q>>, !.answers = 1]]
  /\ Goto(t, "takeAnswerId")
  /\ requests' = requests + 1
  /\ UNCHANGED <<tables, counters, file, position, replied, faults, crawls, crashes>>

(* The timer of updateDataBase expires, and the file is opened.            *)
UpdateDataBase ==
  /\ file # << >>
  /\ At(Main, "idle")
  /\ Goto(Main, "parse")
  /\ position' = 0
  /\ failed' = [failed EXCEPT !.questions = {}]
  /\ UNCHANGED <<tables, counters, file, job, replied, failures, bounds>>

(* Fault: a result without a row counts as no result at all.               *)
Exists_Never(text) == FALSE

Exists(text) == \E q \in question : q.text = text

EndOfFile == position >= Len(file)

(* parseQuestion and parseAnswers: the next question of the file, and how  *)
(* many answers follow it.                                                 *)
Entry == file[position + 1]

(* One turn of its loop: the next entry is dropped if it has no answers,   *)
(* if its question exists, or if the SELECT for it fails.                  *)
ParseQuestion ==
  /\ At(Main, "parse")
  /\ ~EndOfFile
  /\ position' = position + 1
  /\ \/ /\ Entry.answers = 0 \/ Exists(Entry.text)
        /\ UNCHANGED <<pc, job, faults>>
     \/ /\ Entry.answers > 0
        /\ Fails("questions", Entry.text)
        /\ UNCHANGED <<pc, job>>
     \/ /\ Entry.answers > 0 /\ ~Exists(Entry.text)
        /\ Goto(Main, "takeQuestionId")
        /\ job' = [job EXCEPT ![Main] =
                     [Job("crawl", Entry.text) EXCEPT !.answers = Entry.answers]]
        /\ UNCHANGED faults
  /\ UNCHANGED <<tables, counters, file, replied, bounds>>

(* The end of the file: it is truncated.                                   *)
TruncateFile ==
  /\ At(Main, "parse")
  /\ EndOfFile
  /\ Goto(Main, "idle")
  /\ file' = << >>
  /\ position' = 0
  /\ UNCHANGED <<tables, counters, job, replied, faults, bounds>>

-----------------------------------------------------------------------------
(* nextQuestionId and nextAnswerId: "MutexLock(mutex_);" declares a new    *)
(* variable and locks nothing.  The addition may work on the value that    *)
(* was just read, or read the counter again.                               *)

Added(num, read, steps) == {num + steps, read + steps}

TakeQuestionId(t) ==
  /\ At(t, "takeQuestionId")
  /\ Goto(t, "addQuestionNum")
  /\ job' = [job EXCEPT ![t].questionId = questionNum]
  /\ UNCHANGED <<tables, counters, file, position, replied, faults, bounds>>

AddQuestionNum(t) ==
  /\ At(t, "addQuestionNum")
  /\ Goto(t, IF job[t].kind = "ask" THEN "words" ELSE "takeAnswerId")
  /\ questionNum' \in Added(questionNum, job[t].questionId, 1)
  /\ UNCHANGED <<tables, answerNum, file, position, job, replied, faults, bounds>>

TakeAnswerId(t) ==
  /\ At(t, "takeAnswerId")
  /\ Goto(t, "addAnswerNum")
  /\ job' = [job EXCEPT ![t].answerId = answerNum]
  /\ UNCHANGED <<tables, counters, file, position, replied, faults, bounds>>

(* Fault: the question is updated, or inserted, before its answers exist.  *)
AfterAnswerNum_QuestionFirst(kind) == IF kind = "answer" THEN "updateQuestion" ELSE "words"

AfterAnswerNum(kind) == "insertAnswer"

AddAnswerNum(t) ==
  /\ At(t, "addAnswerNum")
  /\ Goto(t, AfterAnswerNum(job[t].kind))
  /\ answerNum' \in Added(answerNum, job[t].answerId, job[t].answers)
  /\ UNCHANGED <<tables, questionNum, file, position, job, replied, faults, bounds>>

-----------------------------------------------------------------------------
(* The statements.  Whether an INSERT or UPDATE failed is never looked at. *)

(* Fault: one answer too many.                                             *)
MoreAnswers_OneMore(n, answers) == n <= answers

MoreAnswers(n, answers) == n < answers

(* DataBase::insertAnswer, for each of the answers.                        *)
InsertAnswerRow(t) ==
  LET row == <<job[t].answerId + job[t].inserted, job[t].text>> IN
  /\ At(t, "insertAnswer")
  /\ \/ answer' = answer \cup {row} /\ UNCHANGED faults
     \/ Fails("answers", row) /\ UNCHANGED answer
  /\ job' = [job EXCEPT ![t].inserted = @ + 1]
  /\ Goto(t, IF MoreAnswers(job[t].inserted + 1, job[t].answers) THEN "insertAnswer"
             ELSE IF job[t].kind = "answer" THEN "updateQuestion" ELSE "words")
  /\ UNCHANGED <<question, word, counters, file, position, replied, bounds>>

(* DataBase::insertWord reads the questionIds of the next word, or passes  *)
(* it over if there is no result ...                                       *)
SelectWord(t) ==
  LET w == Head(job[t].words) IN
  /\ At(t, "words")
  /\ job[t].words # << >>
  /\ \/ /\ Goto(t, "writeWord")
        /\ job' = [job EXCEPT ![t].ids = word[w]]
        /\ UNCHANGED faults
     \/ /\ Fails("words", <<job[t].questionId, w>>)
        /\ job' = [job EXCEPT ![t].words = Tail(@)]
        /\ UNCHANGED pc
  /\ UNCHANGED <<tables, counters, file, position, replied, bounds>>

(* ... and writes them back with the new one.  A second row for a word     *)
(* would not be read by queryFromTable, which takes the first.             *)
WriteWord(t) ==
  LET w == Head(job[t].words) IN
  /\ At(t, "writeWord")
  /\ Goto(t, "words")
  /\ \/ /\ word' = [word EXCEPT ![w] =
                      IF job[t].ids = << >> /\ @ # << >> THEN @
                      ELSE Append(job[t].ids, job[t].questionId)]
        /\ UNCHANGED faults
     \/ Fails("words", <<job[t].questionId, w>>) /\ UNCHANGED word
  /\ job' = [job EXCEPT ![t].words = Tail(@)]
  /\ UNCHANGED <<question, answer, counters, file, position, replied, bounds>>

(* Fault: the question is inserted as soon as one word is.                 *)
WordsDone_AfterFirst(t) == Len(job[t].words) < Len(WordsOf[job[t].text])

WordsDone(t) == job[t].words = << >>

(* The rest of DataBase::insertQuestion, after all words.                  *)
InsertQuestionRow(t) ==
  LET row == [questionId |-> job[t].questionId, text |-> job[t].text, detail |-> TRUE,
              answerIds |-> [i \in 1..job[t].answers |-> job[t].answerId + (i - 1)]] IN
  /\ At(t, "words")
  /\ WordsDone(t)
  /\ Goto(t, IF job[t].kind = "ask" THEN "idle" ELSE "parse")
  /\ \/ question' = question \cup {row} /\ UNCHANGED faults
     \/ Fails("questions", job[t].text) /\ UNCHANGED question
  /\ UNCHANGED <<answer, word, counters, file, position, job, replied, bounds>>

(* Fault: the ids that were there are not kept.                            *)
Updated_NewAnswerOnly(q, row, id) ==
  IF row.text \in Quoted THEN q
  ELSE [q EXCEPT !.text = row.text, !.answerIds = <<id>>, !.detail = FALSE]

(* DataBase::updateQuestion writes back the row as it was read, with the   *)
(* new answer's id; questionDetail becomes questionInfo["questionMap"],    *)
(* which is empty.  queryFromTable has turned '"' into "'", which ends the *)
(* string in the statement: it fails for a quoted text, unnoticed.         *)
Updated(q, row, id) ==
  IF row.text \in Quoted THEN q
  ELSE [q EXCEPT !.text = row.text, !.answerIds = Append(row.answerIds, id),
                 !.detail = FALSE]

UpdateQuestion(t) ==
  LET row == job[t].row[1] IN
  /\ At(t, "updateQuestion")
  /\ Goto(t, "idle")
  /\ \/ /\ question' = {IF q.questionId = row.questionId
                        THEN Updated(q, row, job[t].answerId) ELSE q : q \in question}
        /\ UNCHANGED faults
     \/ Fails("updates", <<row.questionId, job[t].answerId>>) /\ UNCHANGED question
  /\ replied' = replied \cup {<<row.questionId, job[t].answerId>>}
  /\ UNCHANGED <<answer, word, counters, file, position, job, bounds>>

-----------------------------------------------------------------------------
(* The first n entries, of the last one only some answers.                 *)
Written(n, answers) ==
  [i \in 1..n |-> IF i = n THEN [Crawled[i] EXCEPT !.answers = answers] ELSE Crawled[i]]

(* The crawler replaces the file; at three o'clock it is killed, and what  *)
(* it wrote until then is in the file.  CrawledFile shows what is read     *)
(* from a file that ends anywhere.                                         *)
Crawl ==
  /\ At(Main, "idle")
  /\ crawls < MaxCrawls
  /\ crawls' = crawls + 1
  /\ \E n \in 0..Len(Crawled) : \E answers \in 0..(IF n = 0 THEN 0 ELSE Crawled[n].answers) :
       file' = Written(n, answers)
  /\ UNCHANGED <<tables, counters, position, pc, job, replied, faults, requests, crashes>>

(* Fault: getTableLineNum returns the maximum itself.                      *)
LineNum_Max(ids) == {i \in ids : \A k \in ids : k <= i}

(* getTableLineNum, the value every counter starts with: the maximum of    *)
(* the ids and one.                                                        *)
LineNum(ids) == {i + 1 : i \in {j \in ids : \A k \in ids : k <= j}}

(* The process dies and is started again.                                  *)
Restart ==
  /\ crashes < MaxCrashes
  /\ crashes' = crashes + 1
  /\ questionNum' \in LineNum({q.questionId : q \in question})
  /\ answerNum' \in LineNum({a[1] : a \in answer})
  /\ pc' = [t \in Threads |-> "idle"]
  /\ position' = 0
  /\ UNCHANGED <<tables, file, job, replied, faults, requests, crawls>>

(* The tables are not empty: getTableLineNum cannot handle one that is.    *)
Init ==
  /\ \E t \in Texts :
       /\ question = {[questionId |-> 1, text |-> t, detail |-> TRUE, answerIds |-> <<1>>]}
       /\ answer = {<<1, t>>}
       /\ word = [w \in Words |-> IF w \in Range(WordsOf[t]) THEN <<1>> ELSE << >>]
       /\ job = [th \in Threads |-> Job("ask", t)]
  /\ questionNum = 2
  /\ answerNum = 2
  /\ file = << >>
  /\ position = 0
  /\ pc = [t \in Threads |-> "idle"]
  /\ replied = {}
  /\ failed = [answers |-> {}, words |-> {}, questions |-> {}, updates |-> {}]
  /\ requests = 0
  /\ crawls = 0
  /\ crashes = 0
  /\ failures = 0

Next ==
  \/ \E t \in Threads :
       \/ \E text \in Texts : InsertQuestion(t, text)
       \/ \E q \in question : InsertAnswer(t, q.questionId)
       \/ TakeQuestionId(t) \/ AddQuestionNum(t)
       \/ TakeAnswerId(t) \/ AddAnswerNum(t)
       \/ InsertAnswerRow(t) \/ SelectWord(t) \/ WriteWord(t)
       \/ InsertQuestionRow(t) \/ UpdateQuestion(t)
  \/ UpdateDataBase \/ ParseQuestion \/ TruncateFile
  \/ Crawl
  \/ Restart

Spec == Init /\ [][Next]_vars

-----------------------------------------------------------------------------
Statements == {"idle", "parse", "takeQuestionId", "addQuestionNum", "takeAnswerId",
               "addAnswerNum", "insertAnswer", "words", "writeWord", "updateQuestion"}

Row == [questionId : Nat, text : Texts, detail : BOOLEAN, answerIds : Seq(Nat)]

JobType ==
  [kind : {"ask", "answer", "crawl"}, text : Texts, questionId : Nat, answerId : Nat,
   answers : Nat, inserted : Nat, row : Seq(Row), words : Seq(Words), ids : Seq(Nat)]

FailedType ==
  [answers : SUBSET (Nat \X Texts), words : SUBSET (Nat \X Words),
   questions : SUBSET Texts, updates : SUBSET (Nat \X Nat)]

FaultsOK == failed \in FailedType /\ failures \in Nat

(* The type invariant.                                                     *)
TypeOK ==
  /\ question \subseteq Row
  /\ answer \subseteq Nat \X Texts
  /\ word \in [Words -> Seq(Nat)]
  /\ questionNum \in Nat /\ answerNum \in Nat
  /\ file \in Seq([text : Texts, answers : Nat])
  /\ position \in Nat
  /\ pc \in [Threads -> Statements]
  /\ job \in [Threads -> JobType]
  /\ \A t \in Threads : job[t].inserted <= job[t].answers
  /\ replied \subseteq Nat \X Nat
  /\ FaultsOK

(* Every answer a question lists is in the table, and answers that         *)
(* question, unless its INSERT failed; whatever the threads do to each     *)
(* other and whenever the process dies.                                    *)
AnswersBelong ==
  \A q \in question : \A i \in DOMAIN q.answerIds :
    <<q.answerIds[i], q.text>> \in answer \cup failed.answers

(* No two questions, and no two answers, have the same id.                 *)
IdsAreUnique ==
  /\ \A p, q \in question : p.questionId = q.questionId => p = q
  /\ \A a, b \in answer : a[1] = b[1] => a = b

(* A question is found by each of its words that is not a stop word,       *)
(* except those for which a statement failed.                              *)
FoundByItsWords ==
  \A q \in question : \A w \in Range(WordsOf[q.text]) :
    Contains(word[w], q.questionId) \/ <<q.questionId, w>> \in failed.words

(* An answer that was reported as a success is listed by its question,     *)
(* unless the question has a quotation mark or the UPDATE failed.          *)
RepliedIsListed ==
  \A r \in replied : \E q \in Rows(r[1]) :
    q.text \in Quoted \/ Contains(q.answerIds, r[2]) \/ r \in failed.updates

(* The update stores no question that is in the table, also when it is     *)
(* repeated after a crash.                                                 *)
StoredOnce ==
  pc[Main] = "words" /\ pc'[Main] = "parse" =>
    \A q \in question' \ question : \A p \in question : p.text # q.text

(* The file is truncated only when each of its questions that has answers  *)
(* is in the table, or one of its statements failed in this update.        *)
AllStored ==
  file' = << >> /\ crawls' = crawls =>
    \A i \in DOMAIN file :
      \/ file[i].answers = 0 \/ file[i].text \in failed.questions
      \/ \E q \in question : q.text = file[i].text

=============================================================================
