----------------------------- MODULE MCKeyRing ------------------------------
(* KeyRing with a ring of four slots (three usable) and two distinct bytes. *)
EXTENDS KeyRing
MCByte == {97, 98}
=============================================================================
