--------------------------- MODULE QuestionSearch ---------------------------
(***************************************************************************)
(* HttpServer::queryQuestion on the words DataBase::insertQuestion stored  *)
(* for clients and for the crawler.  Insertions, updates and queries come  *)
(* one at a time here; what threads do to each other is in QuestionStore,  *)
(* whose WordsOf is IndexWords and whose file holds Entries here.          *)
(***************************************************************************)
EXTENDS Segmenter, CrawledFile

CONSTANTS
  Questions,        \* texts clients ask
  Keys,             \* texts clients search for
  Crawled,          \* what the crawler finds: <<[title, detail, answers], ...>>
  StopWords,
  MaxQuestions      \* bound: questions stored

IsSeq(t) == t \in Seq(Range(t))

ASSUME QuestionSearchAssumption ==
  /\ \A t \in Questions \cup Keys : IsSeq(t)
  /\ IsSeq(Crawled)
  /\ \A c \in Range(Crawled) :
       /\ IsSeq(c.title) /\ IsSeq(c.detail) /\ IsSeq(c.answers)
       /\ \A a \in Range(c.answers) : IsSeq(a)

(* No text on a page holds the rune that the spider ends texts with.       *)
ASSUME CrawledTextsAssumption ==
  /\ CR # LF
  /\ \A c \in Range(Crawled) :
       \A text \in {c.title, c.detail} \cup Range(c.answers) : CR \notin Range(text)

VARIABLES
  question,         \* table question: the texts, by questionId
  answer,           \* table answer: the answers a question lists, by questionId
  word,             \* table word: questionIds of every word that has a row
  keyWords,         \* what was searched last
  listed            \* questionList of that search: <<id, matches>>

tables == <<question, answer, word>>
vars == <<tables, keyWords, listed>>

IsStopWord(w) == w \in StopWords

IndexWords(text) ==
  LET words == CutForSearch(text)
  IN  Kept(words, {i \in 1..Len(words) : ~IsStopWord(words[i])})

IdsOf(rows, w) == IF w \in DOMAIN rows THEN rows[w] ELSE << >>

Count(seq, e) == Cardinality({i \in DOMAIN seq : seq[i] = e})

Init ==
  /\ question = << >>
  /\ answer = << >>
  /\ word = << >>
  /\ keyWords = << >>
  /\ listed = << >>

(* Fault: a word that has a row is given a new one.                        *)
NewIds_Replaced(rows, words, w, id) == <<id>>

(* insertWord, once for every time the word is in the text.                *)
NewIds(rows, words, w, id) == IdsOf(rows, w) \o [i \in 1..Count(words, w) |-> id]

NextQuestionId(rows) == Len(rows) + 1

(* The tables after insertQuestion, and insertAnswerList before it.        *)
Stored(db, text, words, answers) ==
  LET id == NextQuestionId(db.question)
  IN  [question |-> Append(db.question, text),
       answer |-> Append(db.answer, answers),
       word |-> [w \in DOMAIN db.word \cup Range(words) |->
                   IF w \in Range(words) THEN NewIds(db.word, words, w, id) ELSE db.word[w]]]

Inserted(db, text, answers) == Stored(db, text, IndexWords(text), answers)

(* A search changes nothing that is stored: as a bound, none comes before. *)
BecomeTables(db) ==
  /\ keyWords = << >>
  /\ Len(db.question) <= MaxQuestions
  /\ question' = db.question /\ answer' = db.answer /\ word' = db.word
  /\ UNCHANGED <<keyWords, listed>>

Tables == [question |-> question, answer |-> answer, word |-> word]

InsertQuestion(text) == BecomeTables(Inserted(Tables, text, << >>))

(* What the crawler leaves when it is killed: a file that ends anywhere.   *)
Files == {Entries(SubSeq(Contents(Crawled), 1, n)) : n \in 0..Len(Contents(Crawled))}

(* updateDataBase drops a question that is in the table.                   *)
UpdateDataBase(entries) ==
  LET Add(db, e) ==
        IF e.question \in Range(db.question) THEN db ELSE Inserted(db, e.question, e.answers)
      after[n \in 0..Len(entries)] == IF n = 0 THEN Tables ELSE Add(after[n - 1], entries[n])
  IN  BecomeTables(after[Len(entries)])

(* idMap: how often the rows of the words name a question.                 *)
Matches(words, id) ==
  Cardinality(UNION {{<<i, k>> : k \in {n \in DOMAIN IdsOf(word, words[i]) :
                                         IdsOf(word, words[i])[n] = id}} : i \in DOMAIN words})

ComByValue(p, q) == p[2] > q[2]

(* sortedIds: equal questions come in any order.                           *)
QueryQuestion(key) ==
  LET words == IndexWords(key)
      idMap == {<<id, Matches(words, id)>> : id \in 1..Len(question)}
  IN
  /\ keyWords = << >>
  /\ keyWords' = key
  /\ \E sortedIds \in SetToSeqs({p \in idMap : p[2] > 0}) :
       /\ \A i, j \in 1..Len(sortedIds) : i < j => ~ComByValue(sortedIds[j], sortedIds[i])
       /\ listed' = sortedIds
  /\ UNCHANGED tables

Next ==
  \/ \E text \in Questions : InsertQuestion(text)
  \/ \E entries \in Files : UpdateDataBase(entries)
  \/ \E key \in Keys : QueryQuestion(key)

Spec == Init /\ [][Next]_vars

-----------------------------------------------------------------------------
(* Wherever the file ends, the update stores nothing but questions the     *)
(* crawler found, whole, with answers it found for them, whole and in      *)
(* order from the first.                                                   *)
StoredAsCrawled ==
  \A id \in DOMAIN question :
    \/ question[id] \in Questions /\ answer[id] = << >>
    \/ \E c \in Range(Crawled) :
         /\ question[id] = c.title
         /\ answer[id] # << >> /\ IsPrefix(answer[id], NotEmpty(c.answers))

(* A cut does not depend on what is stored: the next three properties look *)
(* at the texts searched for before anything is.                           *)

(* The cut of a text covers it without gaps or overlaps: no rune is lost   *)
(* between the dictionary, the HMM and the rules for ASCII, also one that  *)
(* none of them knows.                                                     *)
CutCovers ==
  question = << >> =>
  LET cut == Cut(keyWords) IN
  \A i \in 1..Len(keyWords) : \E w \in cut :
    /\ i \in w[1]..w[2]
    /\ \A v \in cut : i \in v[1]..v[2] => v = w

(* All ways to cut the places first..last into dictionary words and        *)
(* single runes.                                                           *)
AllCuts(s, first, last) ==
  {C \in SUBSET {r \in (first..last) \X (first..last) : r[2] \in Nexts(s, r[1], last)} :
     /\ \A i \in first..last : \E w \in C : i \in w[1]..w[2]
     /\ \A v, w \in C : v # w => v[2] < w[1] \/ w[2] < v[1]}

(* The weight of the word of a cut that begins at a place, if one does,    *)
(* and of all of them.                                                     *)
WeightAt(s, C, i) ==
  IF \E w \in C : w[1] = i
    THEN LET w == CHOOSE w \in C : w[1] = i IN UnitWeight(s, w[1], w[2])
    ELSE 0

CutWeight(s, C, first, last) ==
  LET weight[i \in first..(last + 1)] ==
        IF i > last THEN 0 ELSE WeightAt(s, C, i) + weight[i + 1]
  IN  weight[first]

(* The cut by dictionary is one of the greatest weight of all: what CalcDP *)
(* and CutByDag find from the end to the front is what trying all would.   *)
CutIsHeaviest ==
  question = << >> =>
  \A p \in Pieces(keyWords) :
    LET all == AllCuts(keyWords, p[1], p[2])
        cut == MPCut(keyWords, p[1], p[2])
    IN  /\ cut \in all
        /\ \A C \in all : CutWeight(keyWords, C, p[1], p[2]) <= CutWeight(keyWords, cut, p[1], p[2])

(* The weight of a sequence of statuses in the model.                      *)
PathWeight(s, status, first, last) ==
  LET weight[x \in first..last] ==
        IF x = first THEN Plus(StartProb[status[x]], GetEmitProb(status[x], s[x]))
        ELSE Plus(Plus(weight[x - 1], TransProb[status[x - 1]][status[x]]),
                  GetEmitProb(status[x], s[x]))
  IN  weight[last]

(* Viterbi finds the most probable statuses that end a word, whenever any  *)
(* are possible in the model at all.                                       *)
StatusIsLikeliest ==
  question = << >> =>
  \A p \in Stretches({i \in 1..Len(keyWords) : keyWords[i] \notin Ascii \cup Separators}) :
    LET found == PathWeight(keyWords, Viterbi(keyWords, p[1], p[2]), p[1], p[2]) IN
    \A status \in [p[1]..p[2] -> Status] :
      LET other == PathWeight(keyWords, status, p[1], p[2]) IN
      status[p[2]] \in {"E", "S"} /\ other > Floor => other <= found

(* A search lists every question that has a word in common with the key,   *)
(* and only those, each once, whenever and after which it was stored.      *)
ListedShareAWord ==
  keyWords # << >> =>
    /\ {listed[i][1] : i \in DOMAIN listed} =
         {id \in DOMAIN question :
            Range(IndexWords(question[id])) \cap Range(IndexWords(keyWords)) # {}}
    /\ \A i, j \in DOMAIN listed : listed[i][1] = listed[j][1] => i = j

=============================================================================
