\* Does a client whose commit was received and not answered come to use its certificate?
SPECIFICATION Spec
CONSTANTS
  MaxCounter = 2
  MaxRequests = 2
  MaxLate = 1
PROPERTY CommitRecovers
CHECK_DEADLOCK FALSE
