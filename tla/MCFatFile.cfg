SPECIFICATION Spec
CONSTANTS
    f1 = f1
    f2 = f2
    File = {f1, f2}
    CLUSTERS = 5
    SEC_PER_CLUS = 1
    PAGE_BUFFERS = 2
    VACANT_CLUS_CACHE_SIZE = 1
    Data = {1}
    Limit <- MCLimit
    Lens = {2}
    Images <- MCImages
VIEW View
INVARIANTS
    ChainsMatch
    FreeAccounted
    SizeFits
PROPERTY StoresFiles
