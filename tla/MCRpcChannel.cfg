SPECIFICATION FairSpec
CONSTANT MaxRequests = 4
INVARIANTS PendingIsOpen AnswersInOrder
PROPERTIES ImplementsContract SettlesWhileAlive UnwrittenIsRejected
CHECK_DEADLOCK FALSE
