\* A signup, a reader and a message of another service; the queue unbound, as
\* connect() leaves it.
SPECIFICATION FairSpec
CONSTANTS
  m1 = m1  m2 = m2
  id1 = id1  id2 = id2
  s1 = s1
  TheType = t
  Messages = {m1, m2}
  EventIds = {id1, id2}
  Types <- OneType
  IdOf <- TheIds
  TypeOf <- AllTypes
  Malformed = {}
  Own = {m1}
  QueueBound = FALSE
  MaxIds = 1
  Signups = {s1}
  Readers = {r1}
  EventOf <- TheEvent
INVARIANTS
  CutHasReason
  SilentUserHasReason
PROPERTIES
  StopsAtLast
\* The process ends for good.
CHECK_DEADLOCK FALSE
