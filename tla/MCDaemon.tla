------------------------------ MODULE MCDaemon ------------------------------
(* Instances of Daemon for TLC.                                             *)
EXTENDS Daemon, TLC

CONSTANTS c1, c2, p1, p2, p3
Sym == Permutations(Pids)
=============================================================================
