SPECIFICATION FairSpec
CONSTANTS
    Tab = {t1}
    MaxBuild = 2
PROPERTIES
    RefreshBringsNew
