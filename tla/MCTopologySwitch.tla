--------------------------- MODULE MCTopologySwitch -------------------------
(* Two recipes that share the camera; the window is protected in both, the  *)
(* robot in the second only.  In the boot recipe the window waits for the   *)
(* camera (it names a process that is not there and itself, too), or the    *)
(* two wait for each other.                                                 *)
EXTENDS TopologySwitch, TLC

CONSTANTS cam, robot, window, day, night

MCMembers  == (day :> {cam, window}) @@ (night :> {cam, robot, window})
MCShielded == (day :> {window}) @@ (night :> {robot, window})

MCGraphs == {cam :> c @@ window :> w @@ robot :> {} :
                <<c, w>> \in {<<{}, {cam, robot, window}>>, <<{window}, {cam}>>}}
=============================================================================
