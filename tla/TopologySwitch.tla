--------------------------- MODULE TopologySwitch ---------------------------
(***************************************************************************)
(* The boot of ProcessManager and its topology switch: the boot waves over *)
(* depends_on, apply_topology with its snapshot, the five phases of        *)
(* FullReplacePlanner that TopologyManager.apply executes (stop_all,       *)
(* cleanup, provision, create, start), the rollback through the same       *)
(* phases, and restart_process, which shares the registries with them.     *)
(*                                                                         *)
(* All of it runs on ProcessManager's one command thread.  Around it child *)
(* processes die when they like, and a stubborn one may outlive even kill, *)
(* the last step of stop_many.  The monitor is paused during a switch; the *)
(* restarts it asks for arrive as commands between switches.               *)
(*                                                                         *)
(* A configuration is named by the recipe it comes from.  The order of the *)
(* names within a phase is left open.                                      *)
(***************************************************************************)
EXTENDS Integers, FiniteSets

CONSTANTS
    Names,       \* child processes
    Recipes,     \* recipes; a config is the recipe it comes from
    Boot,        \* the recipe the system boots with
    NoConfig,    \* a name without a config
    Members,     \* Members[r]: the processes of recipe r
    Shielded,    \* Shielded[r]: those with protected: True
    Graphs,      \* the depends_on graphs of the boot recipe to consider
    Stubborn,    \* names that may survive stop_many
    Spare,       \* bound: names process.create is used for
    MaxRounds    \* bound: provisioning rounds

ASSUME SwitchAssumption ==
    /\ IsFiniteSet(Names)
    /\ Boot \in Recipes /\ NoConfig \notin Recipes
    /\ Members \in [Recipes -> SUBSET Names]
    /\ Shielded \in [Recipes -> SUBSET Names]
    /\ \A r \in Recipes : Shielded[r] \subseteq Members[r]
    /\ Graphs \subseteq [Names -> SUBSET Names]
    /\ Stubborn \subseteq Names
    /\ MaxRounds \in Nat

VARIABLES
    deps,        \* depends_on of the boot recipe, until the boot is over
    phase,       \* what the command thread is doing
    left,        \* names the phase has still to handle
    config,      \* PM._process_configs
    registry,    \* registry[n]: the Process object get_process_by_name finds
    orphans,     \* history: names with a Process object it does not find
    queues,      \* names registered with SharedResourcesManager
    incarnation, \* PM._incarnations
    round,       \* provisioning rounds so far; round 0 is the boot
    recipe,      \* the recipe being applied
    snapshot,    \* the configs apply_topology saved, all names included
    touched,     \* new names the executed commands mention
    created,     \* names the rollback has created
    alarm,       \* PM._last_unstoppable
    paused,      \* apply_topology has stopped the monitor
    answer,      \* the last response
    excused,     \* history: names the last switch could not bring back
    ghosts,      \* history: configured names left without a started process
    late         \* history: names whose queues were made when the process was

boot    == <<deps>>
tables  == <<config, registry, orphans, queues, incarnation, late>>
work    == <<recipe, snapshot, touched, created, alarm>>
outcome == <<answer, excused, ghosts>>
vars    == <<boot, phase, left, tables, round, work, paused, outcome>>

Rounds  == 0 .. MaxRounds
Unknown == -1
Stages  == {"none", "new", "alive", "dead"}
Process == [stage : Stages, born : Rounds, round : Rounds,
            peers : [Names -> Rounds \union {Unknown}]]
Absent  == [stage |-> "none", born |-> 0, round |-> 0, peers |-> [n \in Names |-> Unknown]]
Forward == {"stop", "cleanup", "provision", "create", "start", "ready"}
Back    == {"rb stop", "rb cleanup", "rb provision", "rb create", "rb start"}
Answers == {"none", "applied", "rolled back", "untouched"}

TypeOK ==
    /\ deps \in [Names -> SUBSET Names]
    /\ phase \in {"boot", "idle"} \union Forward \union Back
    /\ left \subseteq Names
    /\ config \in [Names -> Recipes \union {NoConfig}]
    /\ registry \in [Names -> Process]
    /\ orphans \subseteq Names
    /\ queues \subseteq Names
    /\ incarnation \in [Names -> Rounds]
    /\ round \in Rounds
    /\ recipe \in Recipes
    /\ snapshot \in [Names -> Recipes \union {NoConfig}]
    /\ touched \subseteq Names /\ created \subseteq Names /\ alarm \subseteq Names
    /\ paused \in BOOLEAN
    /\ answer \in Answers
    /\ excused \subseteq Names /\ ghosts \subseteq Names /\ late \subseteq Names

-----------------------------------------------------------------------------
(* Boot waves: _compute_boot_waves, Kahn's algorithm by rounds.            *)

\* Mutant: an edge to an unknown process stays.
UpstreamUnknown(n) == deps[n] \ {n}

\* Edges to unknown processes and to oneself are dropped.
Upstream(n) == (deps[n] \intersect Members[Boot]) \ {n}

\* Placed[k]: the processes placed within k rounds.
Placed ==
    LET f[k \in 0 .. Cardinality(Names)] ==
            IF k = 0 THEN {}
            ELSE f[k - 1] \union {n \in Members[Boot] : Upstream(n) \subseteq f[k - 1]}
    IN  f

\* A round that places nobody while some remain: a cycle, one flat wave.
Cyclic  == Placed[Cardinality(Names)] # Members[Boot]
Wave(n) == IF Cyclic THEN 1
           ELSE CHOOSE k \in 1 .. Cardinality(Names) : n \in Placed[k] \ Placed[k - 1]

-----------------------------------------------------------------------------
(* The registries.                                                         *)

Protected == {n \in Names : config[n] # NoConfig /\ n \in Shielded[config[n]]}

Registered == {n \in Names : registry[n].stage # "none"}
Alive(n)   == registry[n].stage = "alive"

\* create_and_register: the object is built with its own incarnation and with
\* the queues registered at that moment; a name without queues gets them now,
\* when the earlier objects have already been built without them.
Object(n, stage) ==
    [stage |-> stage, born |-> incarnation[n], round |-> round,
     peers |-> [m \in Names |-> IF m \in queues \union {n} THEN incarnation[m] ELSE Unknown]]

\* A second entry of a name would stand behind the first, found by nobody.
Made(n, stage) ==
    /\ IF n \in Registered
       THEN orphans' = orphans \union {n} /\ UNCHANGED registry
       ELSE registry' = [registry EXCEPT ![n] = Object(n, stage)] /\ UNCHANGED orphans
    /\ queues' = queues \union {n}
    /\ late' = IF n \in queues THEN late ELSE late \union {n}

\* stop_many: those in spared outlive it, everybody else is dead.
Halted(n) == IF Alive(n) THEN [registry[n] EXCEPT !.stage = "dead"] ELSE registry[n]
Stopped(names, spared) ==
    registry' = [n \in Names |-> IF n \in names \ spared THEN Halted(n) ELSE registry[n]]
Spared(names) == SUBSET {n \in names \intersect Stubborn : Alive(n)}

Init ==
    /\ deps \in Graphs
    /\ phase = "boot" /\ left = Members[Boot]
    /\ config = [n \in Names |-> IF n \in Members[Boot] THEN Boot ELSE NoConfig]
    /\ registry = [n \in Names |-> Absent]
    /\ orphans = {}
    /\ queues = Members[Boot]
    /\ incarnation = [n \in Names |-> 0]
    /\ round = 0
    /\ recipe = Boot
    /\ snapshot = [n \in Names |-> NoConfig]
    /\ touched = {} /\ created = {} /\ alarm = {}
    /\ paused = FALSE
    /\ answer = "none" /\ excused = {} /\ ghosts = {} /\ late = {}

-----------------------------------------------------------------------------
(* Boot: _create_processes_from_config.  The queues of all processes are   *)
(* registered first (Init); then wave by wave.  The gate before a wave     *)
(* waits for the upstreams' ready, but only so long, so it orders nothing  *)
(* beyond the waves.                                                       *)

\* _boot_create_and_start; a failed create takes config and queues along.
BootOne(n) ==
    /\ phase = "boot" /\ n \in left
    /\ \A m \in left : Wave(n) <= Wave(m)
    /\ left' = left \ {n}
    /\ \/ Made(n, "alive") /\ UNCHANGED <<config, excused>>
       \/ /\ config' = [config EXCEPT ![n] = NoConfig]
          /\ queues' = queues \ {n}
          /\ excused' = excused \union {n}
          /\ UNCHANGED <<registry, orphans, late>>
    /\ UNCHANGED <<boot, phase, incarnation, round, work, paused, answer, ghosts>>

\* depends_on has done its work and is forgotten.
Booted ==
    /\ phase = "boot" /\ left = {}
    /\ phase' = "idle"
    /\ deps' = [n \in Names |-> {}]
    /\ UNCHANGED <<left, tables, round, work, paused, outcome>>

\* A child process dies by itself.
Crash(n) ==
    /\ Alive(n)
    /\ registry' = [registry EXCEPT ![n].stage = "dead"]
    /\ UNCHANGED <<boot, phase, left, config, orphans, queues, incarnation, late, round,
                   work, paused, outcome>>

-----------------------------------------------------------------------------
(* apply_topology, forward.                                                *)

ShieldedBefore == {n \in Names : snapshot[n] # NoConfig /\ n \in Shielded[snapshot[n]]}

\* Mutant: what to stop excludes what the new recipe protects.
OldByRecipe == {n \in Names : snapshot[n] # NoConfig} \ Shielded[recipe]

Old == {n \in Names : snapshot[n] # NoConfig} \ ShieldedBefore
New == Members[recipe] \ ShieldedBefore

\* The planner refuses the blueprint before it has emitted a command.
Refuse ==
    /\ phase = "idle"
    /\ answer' = "untouched" /\ alarm' = {} /\ excused' = {}
    /\ UNCHANGED <<boot, phase, left, tables, round, recipe, snapshot, touched, created,
                   paused, ghosts>>

Begin(r) ==
    /\ phase = "idle" /\ round + 2 <= MaxRounds
    /\ phase' = "stop" /\ left' = {}
    /\ recipe' = r /\ snapshot' = config
    /\ touched' = {} /\ created' = {} /\ alarm' = {}
    /\ paused' = TRUE
    /\ round' = round + 1
    /\ UNCHANGED <<boot, tables, outcome>>

\* A command of the list failed: no commit, roll back.
GiveUp == phase' = "rb stop" /\ left' = {}

\* process.stop_all: a name whose death is not confirmed stops the switch.
StopAll ==
    /\ phase = "stop"
    /\ \E spared \in Spared(Old) :
        /\ Stopped(Old, spared)
        /\ IF spared = {}
           THEN phase' = "cleanup" /\ left' = Old /\ UNCHANGED alarm
           ELSE GiveUp /\ alarm' = spared
    /\ UNCHANGED <<boot, config, orphans, queues, incarnation, late, round, recipe, snapshot,
                   touched, created, paused, outcome>>

\* Mutant: cleanup forgets the config and keeps the entry.
CleanKeepsEntry(n) ==
    /\ left' = left \ {n}
    /\ config' = [config EXCEPT ![n] = NoConfig]
    /\ queues' = queues \ {n}
    /\ late' = late \ {n}
    /\ ghosts' = ghosts \ {n}
    /\ UNCHANGED <<registry, orphans, incarnation>>

\* _topology_cleanup: config, registry, queues and the monitor's tails.
Clean(n) ==
    /\ left' = left \ {n}
    /\ config' = [config EXCEPT ![n] = NoConfig]
    /\ registry' = [registry EXCEPT ![n] = Absent]
    /\ orphans' = IF Alive(n) THEN orphans \union {n} ELSE orphans
    /\ queues' = queues \ {n}
    /\ late' = late \ {n}
    /\ ghosts' = ghosts \ {n}
    /\ UNCHANGED incarnation

Cleanup(n) ==
    /\ phase = "cleanup" /\ n \in left
    /\ Clean(n)
    /\ UNCHANGED <<boot, phase, round, work, paused, answer, excused>>

\* Mutant: register_process raises the incarnation as well.
ProvisionedTwice(n) ==
    /\ queues' = queues \union {n}
    /\ incarnation' = [incarnation EXCEPT ![n] = @ + 2]
    /\ late' = late \ {n}

\* _topology_provision: the next incarnation, with fresh queues or, when
\* register_process failed, without - its answer is not looked at.
Provisioned(n) ==
    /\ incarnation' = [incarnation EXCEPT ![n] = @ + 1]
    /\ \/ queues' = queues \union {n} /\ late' = late \ {n}
       \/ UNCHANGED <<queues, late>>

\* Mutant: the command's result is not kept.
ProvisionUnrecorded(n) ==
    /\ phase = "provision" /\ n \in left
    /\ Provisioned(n) /\ left' = left \ {n}
    /\ UNCHANGED <<boot, phase, config, registry, orphans, round, work, paused, outcome>>

Provision(n) ==
    /\ phase = "provision" /\ n \in left
    /\ Provisioned(n) /\ left' = left \ {n}
    /\ touched' = touched \union {n}
    /\ UNCHANGED <<boot, phase, config, registry, orphans, round, recipe, snapshot, created,
                   alarm, paused, outcome>>

\* Mutant: the incarnation is raised after the create.
CreateThenBump(n) ==
    /\ phase = "create" /\ n \in left
    /\ Made(n, "new")
    /\ config' = [config EXCEPT ![n] = recipe]
    /\ left' = left \ {n}
    /\ incarnation' = [incarnation EXCEPT ![n] = IF @ < MaxRounds THEN @ + 1 ELSE @]
    /\ UNCHANGED <<boot, phase, round, work, paused, outcome>>

\* _topology_create: the object, then the config.
Create(n) ==
    /\ phase = "create" /\ n \in left
    /\ \/ /\ Made(n, "new")
          /\ config' = [config EXCEPT ![n] = recipe]
          /\ left' = left \ {n} /\ UNCHANGED phase
       \/ GiveUp /\ UNCHANGED <<registry, orphans, config, queues, late>>
    /\ UNCHANGED <<boot, incarnation, round, work, paused, outcome>>

Launched(n) == registry' = [registry EXCEPT ![n].stage = "alive"]

Start(n) ==
    /\ phase = "start" /\ n \in left
    /\ \/ Launched(n) /\ left' = left \ {n} /\ UNCHANGED phase
       \/ GiveUp /\ UNCHANGED registry
    /\ UNCHANGED <<boot, config, orphans, queues, incarnation, late, round, work, paused, outcome>>

\* The next phase of the command list.
Follow ==
    [cleanup |-> "provision", provision |-> "create", create |-> "start", start |-> "ready"]

NextPhase ==
    /\ phase \in DOMAIN Follow /\ left = {}
    /\ phase' = Follow[phase]
    /\ left' = IF phase' = "ready" THEN {} ELSE New
    /\ UNCHANGED <<boot, tables, round, work, paused, outcome>>

\* apply_topology returns: its locals are gone, the monitor goes on (finally).
Return ==
    /\ phase' = "idle" /\ left' = {} /\ paused' = FALSE
    /\ recipe' = Boot /\ snapshot' = [n \in Names |-> NoConfig]
    /\ touched' = {} /\ created' = {}

\* The readiness barrier reports the dead and blocks nobody.
Commit ==
    /\ phase = "ready"
    /\ Return
    /\ answer' = "applied" /\ alarm' = {} /\ excused' = {}
    /\ UNCHANGED <<boot, tables, round, ghosts>>

\* An exception outside TopologyManager.apply: what was executed is unknown,
\* so the new names are those the tables know.
Raise ==
    /\ phase = "ready"
    /\ GiveUp
    /\ touched' = {n \in Members[recipe] : config[n] # NoConfig \/ n \in Registered}
    /\ UNCHANGED <<boot, tables, round, recipe, snapshot, created, alarm, paused, outcome>>

-----------------------------------------------------------------------------
(* _rollback_to_snapshot: the same phases, each of them best effort.       *)

\* _collect_partial_new leaves the protected alone - and a name that became
\* protected with the config of this very switch counts as one.
PartialNew == (touched \ Old) \ Protected
Adopted    == (touched \ Old) \intersect (Protected \ ShieldedBefore)

\* Mutant: what outlives the stop is cleaned and restored like the rest.
RbStopUnchecked ==
    /\ phase = "rb stop"
    /\ \E spared \in Spared(Old \union PartialNew) :
        /\ Stopped(Old \union PartialNew, spared)
        /\ left' = Old \union PartialNew
        /\ alarm' = IF spared = {} THEN alarm ELSE spared
        /\ excused' = spared \union Adopted
    /\ phase' = "rb cleanup"
    /\ round' = round + 1
    /\ ghosts' = ghosts \union {n \in Adopted : ~Alive(n)}
    /\ UNCHANGED <<boot, config, orphans, queues, incarnation, late, recipe, snapshot, touched,
                   created, paused, answer>>

\* Mutant: only what the failed stop_all could not stop is reported.
RbStopSilent ==
    /\ phase = "rb stop"
    /\ \E spared \in Spared(Old \union PartialNew) :
        /\ Stopped(Old \union PartialNew, spared)
        /\ left' = (Old \union PartialNew) \ spared
        /\ excused' = spared \union Adopted
    /\ phase' = "rb cleanup"
    /\ round' = round + 1
    /\ ghosts' = ghosts \union {n \in Adopted : ~Alive(n)}
    /\ UNCHANGED <<boot, config, orphans, queues, incarnation, late, recipe, snapshot, touched,
                   created, alarm, paused, answer>>

RbStop ==
    /\ phase = "rb stop"
    /\ \E spared \in Spared(Old \union PartialNew) :
        /\ Stopped(Old \union PartialNew, spared)
        /\ left' = (Old \union PartialNew) \ spared
        /\ alarm' = IF spared = {} THEN alarm ELSE spared
        /\ excused' = spared \union Adopted
    /\ phase' = "rb cleanup"
    /\ round' = round + 1
    /\ ghosts' = ghosts \union {n \in Adopted : ~Alive(n)}
    /\ UNCHANGED <<boot, config, orphans, queues, incarnation, late, recipe, snapshot, touched,
                   created, paused, answer>>

RbCleanup(n) ==
    /\ phase = "rb cleanup" /\ n \in left
    /\ Clean(n)
    /\ UNCHANGED <<boot, phase, round, work, paused, answer, excused>>

RbProvision(n) ==
    /\ phase = "rb provision" /\ n \in left
    /\ left' = left \ {n}
    /\ Provisioned(n)
    /\ UNCHANGED <<boot, phase, config, registry, orphans, round, work, paused, outcome>>

\* Mutant: register and create one name after the other.
RbCreateOneByOne(n) ==
    /\ phase = "rb create" /\ n \in left
    /\ left' = left \ {n}
    /\ Provisioned(n)
    /\ registry' = [registry EXCEPT ![n] =
                       [Object(n, "new") EXCEPT !.born = @ + 1, !.peers[n] = @ + 1]]
    /\ config' = [config EXCEPT ![n] = snapshot[n]]
    /\ created' = created \union {n}
    /\ UNCHANGED <<boot, phase, orphans, round, recipe, snapshot, touched, alarm,
                   paused, outcome>>

RbCreate(n) ==
    /\ phase = "rb create" /\ n \in left
    /\ left' = left \ {n}
    /\ \/ /\ Made(n, "new")
          /\ config' = [config EXCEPT ![n] = snapshot[n]]
          /\ created' = created \union {n}
          /\ UNCHANGED excused
       \/ /\ excused' = excused \union {n}
          /\ UNCHANGED <<registry, orphans, config, queues, late, created>>
    /\ UNCHANGED <<boot, phase, incarnation, round, recipe, snapshot, touched, alarm,
                   paused, answer, ghosts>>

RbStart(n) ==
    /\ phase = "rb start" /\ n \in left
    /\ left' = left \ {n}
    /\ \/ Launched(n) /\ UNCHANGED ghosts
       \/ ghosts' = ghosts \union {n} /\ UNCHANGED registry
    /\ UNCHANGED <<boot, phase, config, orphans, queues, incarnation, late, round, work, paused,
                   answer, excused>>

\* The next phase of the rollback.
FollowBack ==
    [c \in {"rb cleanup", "rb provision", "rb create"} |->
        CASE c = "rb cleanup"   -> "rb provision"
          [] c = "rb provision" -> "rb create"
          [] c = "rb create"    -> "rb start"]

\* The names to restore: those whose death has been confirmed.
RbNextPhase ==
    /\ phase \in DOMAIN FollowBack /\ left = {}
    /\ phase' = FollowBack[phase]
    /\ left' = IF phase' = "rb start" THEN created ELSE {n \in Old : config[n] = NoConfig}
    /\ UNCHANGED <<boot, tables, round, work, paused, outcome>>

\* Mutant: the rollback returns without resuming the monitor.
RolledBackPaused ==
    /\ phase = "rb start" /\ left = {}
    /\ phase' = "idle" /\ left' = {} /\ answer' = "rolled back"
    /\ UNCHANGED <<boot, tables, round, work, paused, excused, ghosts>>

RolledBack ==
    /\ phase = "rb start" /\ left = {}
    /\ Return
    /\ answer' = "rolled back"
    /\ UNCHANGED <<boot, tables, round, alarm, excused, ghosts>>

-----------------------------------------------------------------------------
(* restart_process, asked for by the monitor or the operator: the queues   *)
(* are reused, so the incarnation stays.  A stop that is not confirmed     *)
(* refuses the restart and touches nothing.                                *)

\* create may fail, and start may raise.
RestartProcess(n) ==
    /\ phase = "idle" /\ config[n] # NoConfig
    /\ \E entry \in {Absent, Object(n, "new"), Object(n, "alive")} :
        /\ registry' = [registry EXCEPT ![n] = entry]
        /\ ghosts' = IF entry.stage = "alive" THEN ghosts \ {n} ELSE ghosts \union {n}
    /\ queues' = queues \union {n} \* a reuse: the queues are there
    /\ UNCHANGED <<boot, phase, left, config, orphans, incarnation, late, round, work, paused,
                   answer, excused>>

-----------------------------------------------------------------------------
(* process.create and process.start, for a name that is free.              *)

\* create_process: no provisioning; auto_start is an option.
CreateProcess(n, r) ==
    /\ phase = "idle" /\ n \in Spare /\ config[n] = NoConfig /\ n \notin Registered
    /\ \E stage \in {"new", "alive"} :
        /\ Made(n, stage)
        /\ ghosts' = IF stage = "new" THEN ghosts \union {n} ELSE ghosts
    /\ config' = [config EXCEPT ![n] = r]
    /\ UNCHANGED <<boot, phase, left, incarnation, round, work, paused, answer, excused>>

\* start_process: an object that has already run cannot be started again.
StartProcess(n) ==
    /\ phase = "idle" /\ registry[n].stage = "new"
    /\ Launched(n)
    /\ ghosts' = ghosts \ {n}
    /\ UNCHANGED <<boot, phase, left, config, orphans, queues, incarnation, late, round, work,
                   paused, answer, excused>>

-----------------------------------------------------------------------------
\* The command thread's own work: it goes on by itself once it has begun.
Switching ==
    \/ StopAll \/ NextPhase \/ Commit \/ Raise \/ RbStop \/ RbNextPhase \/ RolledBack
    \/ \E n \in Names :
        \/ Cleanup(n) \/ Provision(n) \/ Create(n) \/ Start(n)
        \/ RbCleanup(n) \/ RbProvision(n) \/ RbCreate(n) \/ RbStart(n)

Booting == Booted \/ \E n \in Names : BootOne(n)

Next ==
    \/ Booting \/ Switching \/ Refuse
    \/ \E r \in Recipes : Begin(r)
    \/ \E n \in Names : Crash(n) \/ RestartProcess(n) \/ StartProcess(n)
    \/ \E n \in Names, r \in Recipes : CreateProcess(n, r)

Spec == Init /\ [][Next]_vars

\* Every wait of the thread (join, readiness gate, readiness barrier) has a
\* timeout, so it always takes its next step.
FairSpec == Spec /\ WF_vars(Booting) /\ WF_vars(Switching)

-----------------------------------------------------------------------------
(* Properties.                                                             *)

Quiet == phase = "idle"

\* No twin and no orphan: every child process is the one its name leads to,
\* so that stop_many can reach it.  (stop_many, remove_process, the exclusion
\* of the unstoppable in _rollback_to_snapshot.)
EveryLiveReachable == orphans = {}

\* Between switches a registered process has a config, so the next switch
\* counts it among those to stop (or among the protected), and a configured
\* process has been started, or a start or a restart of it has failed.
ConfigsMatchRegistry ==
    Quiet => \A n \in Names :
        /\ n \in Registered => config[n] # NoConfig
        /\ config[n] # NoConfig => \/ registry[n].stage \in {"alive", "dead"}
                                   \/ n \in ghosts

\* Between switches no running process stamps its messages with an incarnation
\* that is not its name's: the receivers would drop them as stale.
\* (_bump_incarnation before create_and_register.)
BornCurrent ==
    Quiet => \A n \in Names : Alive(n) => registry[n].born = incarnation[n]

\* Between switches a running process was built with the current queues of
\* every running process that is not younger, but for one whose queues could
\* not be provisioned.  (Provision all, then create all.)
PeersKnown ==
    Quiet => \A m, n \in Names :
        Alive(m) /\ Alive(n) /\ registry[m].round >= registry[n].round /\ n \notin late
            => registry[m].peers[n] = incarnation[n]

\* After a rollback the unprotected processes that run have been built by it,
\* or they are named in the answer as not stopped.
OutlivedAreNamed ==
    Quiet /\ answer = "rolled back" =>
        \A n \in Names \ Protected :
            Alive(n) /\ registry[n].round < round => n \in alarm

\* The dependencies of the boot recipe have a cycle.
Loop == \E S \in (SUBSET Members[Boot]) \ {{}} : \A n \in S : (deps[n] \intersect S) \ {n} # {}

\* The boot waves respect depends_on: nobody is created before a process it
\* depends on, except when the dependencies have a cycle.
BootOrder ==
    phase = "boot" /\ ~Loop =>
        \A n \in Registered : deps[n] \intersect left \subseteq {n}

\* The entry of n is the one it was; its process may have died.
SameEntry(n) ==
    [registry'[n] EXCEPT !.stage = "any"] = [registry[n] EXCEPT !.stage = "any"]

\* A switch, its rollback included, leaves the protected processes of the
\* running topology alone: config, entry and incarnation.
ShieldedUntouched ==
    [][phase \notin {"boot", "idle"} => \A n \in ShieldedBefore :
        config'[n] = config[n] /\ SameEntry(n) /\ incarnation'[n] = incarnation[n]]_vars

\* The monitor that a switch has paused is resumed.
MonitorResumes == paused ~> ~paused

\* The topology recipe r makes of topo: the protected stay as they are.
After(r, topo) ==
    [n \in Names |->
        IF topo[n] # NoConfig /\ n \in Shielded[topo[n]] THEN topo[n]
        ELSE IF n \in Members[r] THEN r ELSE NoConfig]

\* All or nothing: between switches the configured processes are what the
\* recipe makes of the former ones or the former ones, but for the excused.
Transaction == INSTANCE SwitchTransaction WITH
    topo    <- IF phase \in {"boot", "idle"} THEN config ELSE snapshot,
    Configs <- Recipes,
    Applied <- After
AllOrNothing == Transaction!Spec

=============================================================================
