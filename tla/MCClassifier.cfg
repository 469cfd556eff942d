CONSTANTS
    Phys = {e1, e2}
    Bonds = {b1, b2}
    Bridges = {br}
    Vlans = {v10}
    Wireless = {}
    NoMaster = NoMaster
    NoAddr = NoAddr
    NoPattern = NoPattern
    Loopback = {}
    MgmtPattern <- MCMgmtPattern
    ZeroMac = ZeroMac
    VlanDev <- MCVlanDev
    BridgePorts <- MCBridgePorts
    IfOrder <- MCIfOrder
    InetOrder <- MCInetOrder
    PermAddrPrinted = TRUE
    LockSupported = FALSE
    MonitorMayFail = TRUE
    MidScanChanges = FALSE
    MaxChanges = 2
SPECIFICATION Spec
INVARIANTS
    TypeOK
    SocketsAccounted
    OneHardwarePerInterface
    PermanentMacUsed
    SlavesAnnouncedAsBond
