SPECIFICATION FairSpec
CONSTANTS
    Configs <- CheckedConfigs
    MaxWorks = 3
    LatStride = 1
    Times = {1, 2}
    Null = Null
INVARIANTS NoFalseAlarm FreesLive AllReturned PhasesApart Detected TotalIsSum SamplesGoOn
PROPERTIES Finishes
\* The threads are joined.
CHECK_DEADLOCK FALSE
