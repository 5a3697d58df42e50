CONSTANTS
    a1 = a1
    a2 = a2
    a3 = a3
    a4 = a4
    a5 = a5
    w1 = w1
    w2 = w2
    b1 = b1
    x1 = x1
    x2 = x2
    Addrs <- MCAddrs
    Null = Null
    Buffers = {w1, w2, b1}
    NoBuffer = NoBuffer
    Vectors = {x1, x2}
    Junk = Junk
    Callers = {"client"}
    Matvecs <- MCRetried
    Failures <- MCNoRoom
SPECIFICATION SafetySpec
INVARIANTS
    ScratchReused
