\* Every caller; the channel of those that read all the time is often full.
CONSTANTS
    t1 = t1
    t2 = t2
    t3 = t3
    t4 = t4
    FINISH = FINISH
    Tasks = {t1, t2, t3, t4}
    StageOf <- MCStageOf
    Last = 3
    Cap <- MCCap
    Calls = {"command", "remove", "observe", "step"}
    MayPanic = TRUE
SPECIFICATION FairSpec
INVARIANTS
    BarrierRespected
    FailStops
    FinishIsLast
    OkUnlessPanic
PROPERTIES
    RunEnds
    ImplementsStagedRun
\* A run is over when its caller ends; RunEnds says that it gets there.
CHECK_DEADLOCK FALSE
