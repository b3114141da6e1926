SPECIFICATION Spec
CONSTANTS
  m1 = m1
  m2 = m2
  m3 = m3
  Messages = {m1, m2, m3}
  Deliveries <- OneRedelivered
  Sender <- OneSender
  Doubtful = {m1}
  Solo = {m3}
  MaxMessages = 3
  MaxInFlight = 2
  MaxFaults = 1
  None = None
  Blank = Blank
CHECK_DEADLOCK FALSE
INVARIANTS NeverDropped NeverTwice
