------------------------------- MODULE MCUart -------------------------------
(* Uart with rings of three slots, one of which is always free. *)
EXTENDS Uart, TLC

Symmetry == Permutations(Bytes)

=============================================================================
