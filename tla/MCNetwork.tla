---- MODULE MCNetwork ----
(* Instances of Network for TLC: ports are interchangeable. *)
EXTENDS Network

Ports == Permutations(Nodes)

====
