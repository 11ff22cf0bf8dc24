--------------------------- MODULE MCClientThread ---------------------------
(* Instances of ClientThread for TLC. *)
EXTENDS ClientThread

SmallLarge == <<"small", "large">>

=============================================================================
