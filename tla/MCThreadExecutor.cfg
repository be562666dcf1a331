SPECIFICATION FairSpec
CONSTANTS
    Tasks = {t1, t2, t3, t4}
    NoTask = NoTask
INVARIANT TasksSound
PROPERTIES AcceptedEnds StopReturns
CHECK_DEADLOCK FALSE
