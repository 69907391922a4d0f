\* One reload of a configuration with relative scoring.
SPECIFICATION FairSpec
CONSTANTS
    Conns = {c1}
    MaxGens = 2
    Configs <- RelativeConfigs
PROPERTY
    AuxiliaryTasksEnd
CHECK_DEADLOCK FALSE
