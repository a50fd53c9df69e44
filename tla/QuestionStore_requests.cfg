SPECIFICATION MCSpec
CONSTANTS
  a = a
  b = b
  t1 = t1
  t2 = t2
  t3 = t3
  w1 = w1
  w2 = w2
  w3 = w3
  w4 = w4
  Main = Main
  Workers = {a, b}
  Texts = {t1, t2, t3}
  WordsOf <- MCWordsOf
  Quoted = {t2}
  Crawled <- MCCrawled
  MaxRequests = 3
  MaxCrawls = 2
  MaxCrashes = 1
  MaxFailures = 1
SYMMETRY Symmetry
INVARIANTS
  TypeOK
  AnswersBelong
  IdsAreUniqueAlone
  FoundByItsWordsAlone
  RepliedIsListedAlone
PROPERTY CrawledOnceAlone
CHECK_DEADLOCK FALSE
