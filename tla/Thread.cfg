\* Two ordinary messages and one that terminates, two packets over TCP.
CONSTANTS
    Message = {m1, m2, m3}
    Fatal = {m3}
    Packets <- SmallLarge
SPECIFICATION FairSpec
INVARIANTS NoLostWakeup MisframingHasCause
PROPERTY MessagesHandled
CHECK_DEADLOCK FALSE
