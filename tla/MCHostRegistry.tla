--------------------------- MODULE MCHostRegistry ---------------------------
(* Instances of HostRegistry for TLC. *)
EXTENDS HostRegistry, TLC

(* Request slots are interchangeable; only runs without liveness use this. *)
Slots == Permutations(Handlers)
SlotsAndMacs == Slots \cup Permutations(Macs)
=============================================================================
