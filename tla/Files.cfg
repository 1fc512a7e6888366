CONSTANTS
  w1 = w1  w2 = w2  w3 = w3  e1 = e1  e2 = e2  m1 = m1  r1 = r1  p = p  q = q  n = n
  Writes = {w1, w2, w3}
  Edits = {e1, e2}
  Moves = {m1}
  Removes = {r1}
  Target <- MCTarget
  Source <- MCSource
  Initial <- MCInitial
  Rooted = {p, q}
  Shell = Shell
  Capacity = 1
  Mixes <- MCMixes
  MaxGarbled = 1
  MaxShell = 1
  Inputs <- MCInputs
  RangeLists <- MCRangeLists
  Limits = {1, 2, 9}
  PageBytes = 3
  Top = 9
SPECIFICATION MCSpec
CHECK_DEADLOCK FALSE
INVARIANTS AnswersInOrder NoTransferLeft PagesAreExact NumbersAreTrue
PROPERTIES FilesAreAtomic CallsReturn
