\* Two clients of one account, one of them with two UDP addresses, one recovery task.
CONSTANTS
    c1 = c1
    c2 = c2
    p1 = p1
    p2 = p2
    p3 = p3
    Session = {c1, c2}
    Account = {a1}
    NoAccount = NoAccount
    NoSession = NoSession
    UdpPeer = {p1, p2, p3}
    NoPeer = NoPeer
    PeersOf <- TwoPeersForOne
    Recovery = {r1}
SPECIFICATION FairSpec
INVARIANTS  DowngradeIsSafe
PROPERTIES ImplementsPresence 
CHECK_DEADLOCK FALSE
