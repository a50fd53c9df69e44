SPECIFICATION Spec
CONSTANTS
  zhong = zhong
  guo = guo
  ren = ren
  min = min
  da = da
  letter = letter
  digit = digit
  point = point
  space = space
  Letters = {letter}
  Digits = {digit}
  Dot = point
  Ascii = {letter, digit, point, space}
  Separators = {space}
  DictLines <- MCDictLines
  UserLines <- MCUserLines
  StartProb <- MCStartProb
  TransProb <- MCTransProb
  EmitProb <- MCEmitProb
  Floor <- MCFloor
  Questions <- MCQuestions
  Keys <- MCKeys
  Crawled <- MCCrawled
  CR = CR
  LF = LF
  StopWords <- MCStopWords
  MaxQuestions = 2
INVARIANTS
  StoredAsCrawled
  CutCovers
  CutIsHeaviest
  StatusIsLikeliest
  ListedShareAWord
CHECK_DEADLOCK FALSE
