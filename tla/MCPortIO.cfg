CONSTANTS
    e1 = e1
    e2 = e2
    b1 = b1
    b2 = b2
    f1 = f1
    f2 = f2
    Content <- MCContent
    NoMaster = NoMaster
    Own = Own
    Slaves <- MCSlaves
    Masters <- MCMasters
    Frames <- MCFrames
    Kernel = "both"
    SocketQueue = 1
    MaxChanges = 1
SPECIFICATION FairSpec
INVARIANT TypeOK
INVARIANT FilterMatchesComment
PROPERTY RxRefinement
