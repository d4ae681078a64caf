SPECIFICATION Spec
CONSTANTS
    wg0 = wg0
    wg1 = wg1
    mesh0 = mesh0
    c0 = c0
    c1 = c1
    m0 = m0
    g0 = g0
    g1 = g1
    psk = psk
    none = none
    CatchAll = catchall
    V6 = v6
    NoKey = nokey
    NoRow = norow
    NoAddr = none
    NoPsk = none
    Iface = {wg0, wg1, mesh0}
    IfaceOrder <- MCIfaceOrder
    Role <- MCRole
    SubnetSize <- MCSize
    Own <- MCOwn
    Key = {c0, c1, m0, g0, g1}
    FreshKey = {g0, g1}
    Address = {2, 3, 4, 5, catchall}
    AskedAddr = {4}
    Psk = {psk}
    Conf <- MCConf
    InitialRows <- MCRows
    MaxId = 4
    ByteBits = 2
    NoneFree = none
    WaitsInContext = 1
    s0 = s0
    s1 = s1
    Slot = {s0, s1}
    Limit <- MCLimit
    MaxTotal = 4
    InitiallyUp = {wg0, mesh0}
INVARIANTS
    TypeOK
    AllocationIsExclusive
    DriftIsExplained
    BootNeverStuck
PROPERTIES
    MeshUntouched
    ImportIsComplete
SYMMETRY MCSymmetry
CHECK_DEADLOCK FALSE
