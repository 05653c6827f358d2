-------------------------- MODULE MCPermCacheStale --------------------------
(* Small instance of PermCacheStale for TLC.                               *)
EXTENDS PermCacheStale, TLC

CONSTANTS u1, a1, w1, w2

MCUsers == {u1}
MCApps == {a1}
MCWorkers == {w1, w2}
=============================================================================
