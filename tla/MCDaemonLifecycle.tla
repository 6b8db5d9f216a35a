------------------------- MODULE MCDaemonLifecycle -------------------------
(* Instances of DaemonLifecycle for TLC; commands are interchangeable, and  *)
(* so are daemon processes.                                                 *)
EXTENDS DaemonLifecycle, TLC

CONSTANTS c1, c2, d1, d2, d3

Interchangeable == Permutations(Client) \cup Permutations(Daemon)
=============================================================================
