-------------------------- MODULE MCQuestionSearch --------------------------
(* Five Chinese runes, of which da is in no dictionary by itself and in no *)
(* model, a letter, a digit, a point and a separator.                      *)
EXTENDS QuestionSearch

CONSTANTS zhong, guo, ren, min, da, letter, digit, point, space

MCDictLines ==
  << << <<zhong>>, -6>>, << <<guo>>, -7>>, << <<zhong, guo>>, -8>>,
     << <<guo, ren>>, -6>>, << <<zhong, guo, ren>>, -15>>, << <<ren, zhong>>, -12>>,
     << <<zhong, guo, ren, min>>, -9>>, << <<zhong>>, -5>> >>

(* A word with a weight of its own, two that get the median.               *)
MCUserLines == << << <<min>> >>, << <<ren, zhong>>, -7>>, << <<ren, da>> >> >>

MCStartProb == [y \in Status |-> CASE y = "B" -> -1 [] y = "S" -> -2 [] OTHER -> Floor]

MCTransProb ==
  [x \in Status |-> [y \in Status |->
     CASE <<x, y>> \in {<<"B", "E">>, <<"M", "E">>, <<"S", "S">>} -> -1
       [] <<x, y>> \in {<<"B", "M">>, <<"M", "M">>, <<"E", "S">>, <<"S", "B">>} -> -2
       [] <<x, y>> = <<"E", "B">> -> -1
       [] OTHER -> Floor]]

MCEmitProb ==
  [y \in Status |->
     CASE y = "B" -> [c \in {zhong, guo, min} |-> IF c = zhong THEN -2 ELSE -5]
       [] y = "E" -> [c \in {zhong, guo, ren} |-> IF c = ren THEN -1 ELSE -4]
       [] y = "M" -> [c \in {guo} |-> -3]
       [] y = "S" -> [c \in {zhong, ren} |-> -6]]

MCFloor == -100000

MCStopWords == {<<space>>, <<guo>>}

Runes == {zhong, guo, ren, min, da, letter, digit, point, space}

MCQuestions ==
  {<<zhong, guo, ren>>, <<guo, ren, zhong, guo, ren>>, <<ren, guo, da>>,
   <<letter, digit, space, zhong>>}

(* A question clients ask too, with an answer of two lines and an empty    *)
(* one; one nobody answered; one without a detail.                         *)
MCCrawled ==
  <<[title |-> <<zhong, guo, ren>>, detail |-> <<guo, LF, min>>,
     answers |-> << <<zhong>>, <<guo, LF, ren>>, << >> >>],
    [title |-> <<da, min>>, detail |-> <<zhong>>, answers |-> << >>],
    [title |-> <<ren, zhong>>, detail |-> << >>, answers |-> << <<min, guo>> >>]>>

MCKeys ==
  MCQuestions \cup BoundedSeq({zhong, guo, ren, da}, 4) \cup BoundedSeq(Runes, 3) \cup
  {<<zhong, guo, ren, min>>, <<ren, da, guo, ren, min, zhong>>,
   <<digit, point, digit, letter, digit>>}

=============================================================================
