CONSTANTS
    Paths <- MCPaths
    Dirs <- MCDirs
    Files <- MCFiles
    Ifnames = {eth0}
    AnyName = AnyName
    Junk = Junk
    NoFd = NoFd
    SocketErrors = {"socket", "bind", "filter", "lock"}
    EthtoolErrors = {"socket", "ioctl"}
    SocketBuffer = 12
SPECIFICATION FairSpec
CHECK_DEADLOCK FALSE
INVARIANT TypeOK
PROPERTY CallsReturn
