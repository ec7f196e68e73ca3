SPECIFICATION NetSpec
CONSTANTS
    Servers = {s1, s2}
    POOL = 1
    Nobody = nobody
    RX_SLOTS = 2
    MaxPackets = 4
    RECEIVE_BUFFER_MAX = 3
    Frames <- NetFrames
    Sendings <- NetSendings
    NoFrame = noframe
    DISCOVERS = 2
    Budgets <- MCBudgets
INVARIANTS NetTypeOK RingSound LeaseValid
PROPERTIES ImplementsPort GetsAddress
