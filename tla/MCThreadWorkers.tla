-------------------------- MODULE MCThreadWorkers ---------------------------
(* Instances of ThreadWorkers for TLC.  The passing run stops at states in *)
(* which a command and an internal restart have overlapped: its properties *)
(* claim nothing from there on.                                            *)
EXTENDS ThreadWorkers

CONSTANTS processor, main, e1, e2, t1, t2

Uncrossed == ~crossed
=============================================================================
