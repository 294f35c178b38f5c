SPECIFICATION PlanSpec
CONSTANTS
    t1 = t1
    t2 = t2
    t3 = t3
    t4 = t4
    Ids = {t1, t2, t3, t4}
    MaxSteps = 3
    MaxStage = 2
    Sources = {"merge", "config"}
SYMMETRY Symmetry
INVARIANTS StagesAsMeant PanicMeansMisfit
