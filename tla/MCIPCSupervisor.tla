-------------------------- MODULE MCIPCSupervisor --------------------------
(* IPCSupervisor on small instances. *)
EXTENDS IPCSupervisor, TLC

Symmetry == Permutations(Opener) \cup Permutations(Macer)
=============================================================================
