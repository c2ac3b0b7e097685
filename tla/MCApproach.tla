----------------------------- MODULE MCApproach -----------------------------
(* An approach forwards with a gate, and a retreat. *)
EXTENDS Approach

Numbers(max, min, n) ==
    [s \in Slots |-> CASE s = GATE_Z_MAX -> max [] s = GATE_Z_MIN -> min [] s = NSTEPS -> n]

MCParams == {Numbers(1, 0, 2), Numbers(2, 1, -2)}
=============================================================================
