---------------------------- MODULE MCClientLoop ----------------------------
(* Instances of ClientLoop for TLC. *)
EXTENDS ClientLoop, TLC

(* Every client sends from an address of its own. *)
CONSTANTS c1, c2, p1, p2, p3

TwoPeersForOne == (c1 :> {p1, p3}) @@ (c2 :> {p2})

=============================================================================
