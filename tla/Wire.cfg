SPECIFICATION Spec
CONSTANTS
    Fds = {1, 2}
    LenCells = 2
    Sizes = {1, 2, 3}
    DATA_BUF_SIZE = 3
    MaxFrames = 2
    MaxDatagrams = 1
    Servers = {"A", "B"}
    NONCE_LEN = 2
    MAC_LEN = 1
    SharedKey = 1
INVARIANTS  FramesInOrder
PROPERTIES CloseIsNoticed
CHECK_DEADLOCK FALSE
