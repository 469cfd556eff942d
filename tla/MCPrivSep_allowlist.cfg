CONSTANTS
    Paths <- MCPaths
    Dirs <- MCDirs
    Files <- MCFiles
    Ifnames = {eth0}
    AnyName = AnyName
    Junk = Junk
    NoFd = NoFd
    SocketErrors = {"socket", "bind", "filter", "lock"}
    EthtoolErrors = {"socket", "ioctl"}
    SocketBuffer = 12
CHECK_DEADLOCK FALSE
SPECIFICATION Spec
INVARIANT OnlyAuthorizedFiles
