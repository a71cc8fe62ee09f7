\* Two copies of one event, one event of the gateway's own that comes back to
\* it, and a copy that does not parse; room for one id; two restarts.
SPECIFICATION FairSpec
CONSTANTS
  m1 = m1  m2 = m2  m3 = m3  m4 = m4
  id1 = id1  id2 = id2  id3 = id3
  TheType = t
  Messages = {m1, m2, m3, m4}
  EventIds = {id1, id2, id3}
  Types <- OneType
  IdOf <- AllIds
  TypeOf <- AllTypes
  Malformed = {m4}
  Own = {m3}
  QueueBound = TRUE
  MaxIds = 1
  MaxRestarts = 2
INVARIANTS
  TypeOK
  UnackedIsRunning
  ProcessedIdsSound
  HandledOncePerLife
PROPERTIES
  QueuedIsSettled
  ImplementsQueue
\* The process may be down for good, or have nothing left to do.
CHECK_DEADLOCK FALSE
