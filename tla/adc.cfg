SPECIFICATION FairSpec
CONSTANT Commands = {"LID_UNTIL_STOP", "stopAll"}
INVARIANTS TypeOK FreshSample HandlerOnlyWhileAcquiring BusExclusive ReadyInLoop
PROPERTIES ReadReturns ZReadReturns
