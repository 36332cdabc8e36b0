------------------------------ MODULE MCReactor ------------------------------
(* Two sub-reactors. *)
EXTENDS Reactor

CONSTANTS r1, r2

TwoSubs == {r1, r2}
=============================================================================
