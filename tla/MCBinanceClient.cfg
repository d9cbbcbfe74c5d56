CONSTANTS
  MaxSubscribe = 2
  MaxLosses = 2
SPECIFICATION FairSpec
INVARIANT OneDriver
INVARIANT ConnectedWhileRead
INVARIANT OneConnectionPerBook
PROPERTY LossIsReported
PROPERTY LossIsRepaired
PROPERTY ShutdownEnds
