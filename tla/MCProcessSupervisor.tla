------------------------- MODULE MCProcessSupervisor -------------------------
(* Restart sets of the strategies for the instances TLC checks.             *)
EXTENDS ProcessSupervisor

CONSTANTS a, b

\* one_for_one: a failure restarts only the process that failed.
OneForOne == [p \in Procs |-> {}]

\* rest_for_one with b depending on a: a failure of a also restarts b.
RestForOne == [p \in Procs |-> IF p = a THEN Procs \ {a} ELSE {}]

\* one_for_all over one supervision group.
OneForAll == [p \in Procs |-> Procs \ {p}]
==============================================================================
