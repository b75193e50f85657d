------------------------------ MODULE MCLottery ------------------------------
(* A small instance of Lottery for TLC. *)
EXTENDS Lottery

CONSTANTS a1, a2, a3

=============================================================================
