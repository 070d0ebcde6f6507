CONSTANTS
  c1 = c1
  Client = {c1}
  MaxSeqNo = 1
  MaxAttemptNo = 1
  SeqNo <- MCSeqNo
  AttemptNo <- MCAttemptNo
SPECIFICATION FairSysSpec
INVARIANTS IInv AtMostOnce HandlerDrivesItsRecord IncompleteInv
PROPERTIES OnceSpec SuccessIsTheRecordedResponse OpenCallsAreAnswered
