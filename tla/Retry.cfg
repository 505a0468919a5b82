SPECIFICATION FairSpec
CONSTANTS
  Txs = {t1, t2, t3, t4}
  None = None
  Start = 9
  MaxAttempts = 3
CHECK_DEADLOCK FALSE
INVARIANTS NoLostUpdate OutcomeIsTrue ExhaustedByOthers
PROPERTY EveryTxEnds
