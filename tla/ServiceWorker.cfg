SPECIFICATION FairSpec
CONSTANTS
    Tab = {t1, t2}
    MaxBuild = 2
INVARIANTS
    TypeOK
    ActiveComplete
    InstalledNeverBreaks
PROPERTIES
    FilesInUseStay
    UpdateArrives
