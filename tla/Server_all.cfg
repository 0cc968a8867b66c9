\* The daemon ends and the workers wait.
CHECK_DEADLOCK FALSE
SPECIFICATION ServerSpec
CONSTANTS
  w1 = w1
  w2 = w2
  c1 = c1
  c2 = c2
  browse = browse
  add = add
  Workers = {w1, w2}
  Conns = {c1, c2}
  NoConn = NoConn
  Kinds = {browse, add}
  InvalidKind = InvalidKind
  MaxRequests = 3
INVARIANT
  AnswersFit
PROPERTIES
  RequestsAnswered
  WorkersOutliveServer
