------------------------- MODULE SwitchTransaction --------------------------
(* What a topology switch promises the rest of the system: seen between two *)
(* switches, the configured processes change all at once, to what the new   *)
(* recipe says or back to what there was, and the names that escape this    *)
(* are named.                                                               *)
EXTENDS Integers

CONSTANTS Names, NoConfig, Configs,
          Applied(_, _)  \* Applied(r, topo): the topology recipe r makes of topo

VARIABLES topo,      \* the configured processes and their configurations
          excused    \* names the last switch could not bring back

vars == <<topo, excused>>

Init == topo \in [Names -> Configs \union {NoConfig}] /\ excused = {}

\* The switch succeeded.
Switch(r) == topo' = Applied(r, topo) /\ excused' = {}

\* The switch failed: nothing changes but the excused names.
Restore ==
    /\ excused' \in SUBSET Names
    /\ topo' \in [Names -> Configs \union {NoConfig}]
    /\ \A n \in Names \ excused' : topo'[n] = topo[n]

\* A process is added by hand.
Add(n, c) == topo[n] = NoConfig /\ topo' = [topo EXCEPT ![n] = c] /\ UNCHANGED excused

Next ==
    \/ Restore
    \/ \E r \in Configs : Switch(r) \/ \E n \in Names : Add(n, r)
Spec == Init /\ [][Next]_vars
=============================================================================
