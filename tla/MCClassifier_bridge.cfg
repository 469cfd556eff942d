CONSTANTS
    Phys = {e1, e2}
    Bonds = {b1}
    Bridges = {br}
    Vlans = {v10}
    Wireless = {}
    NoMaster = NoMaster
    NoAddr = NoAddr
    NoPattern = NoPattern
    Loopback = {}
    MgmtPattern = NoPattern
    ZeroMac = ZeroMac
    VlanDev <- MCVlanDev
    BridgePorts <- MCBridgePorts
    IfOrder <- MCIfOrder
    InetOrder <- MCInetOrder
    PermAddrPrinted = TRUE
    LockSupported = FALSE
    MonitorMayFail = FALSE
    MidScanChanges = FALSE
    MaxChanges = 3
SPECIFICATION Spec
INVARIANT
    NoBridgeAnnounced
