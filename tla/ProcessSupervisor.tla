-------------------------- MODULE ProcessSupervisor --------------------------
(***************************************************************************)
(* The supervision loop of the process manager: ProcessMonitor polling on  *)
(* its own thread, the manager's message processor consuming one inbox     *)
(* (heartbeats of the children, process.restart commands of the monitor),  *)
(* PM.restart_process replacing an instance step by step, and the children *)
(* that crash, exit, hang and recover meanwhile.                           *)
(*                                                                         *)
(* Clocks are abstracted: a backoff, a heartbeat timeout, a recovery       *)
(* deadline or the expiry of a restart mark happens at some moment the     *)
(* code's own order of comparisons allows.                                 *)
(***************************************************************************)
EXTENDS Naturals, FiniteSets, Sequences

CONSTANTS
  Procs,          \* names of the child processes
  Protected,      \* names _get_protected_names returns
  Enabled,        \* names whose resolved RestartPolicy is enabled
  Induces,        \* Induces[p]: the restart set of trigger p (_resolve_restart_set)
  MaxRetries,     \* RestartPolicy.max_retries
  Windowed,       \* window_sec > 0: marks expire; FALSE: the lifetime counter
  HealthRestart,  \* flag FW_HEALTH_RESTART
  Faults,         \* kinds of fault the environment may inject
  OperatorActs,   \* an operator restarts, replaces and removes processes
  InboxCap        \* capacity of the manager's system queue

FaultKinds == {"crash", "exit", "hang", "create", "unkillable", "health"}

ASSUME SupervisorAssumption ==
  /\ Protected \subseteq Procs
  /\ Enabled \subseteq Procs
  /\ Induces \in [Procs -> SUBSET Procs]
  /\ \A p \in Procs : p \notin Induces[p]
  /\ MaxRetries \in Nat
  /\ InboxCap \in Nat \ {0}
  /\ Windowed \in BOOLEAN /\ HealthRestart \in BOOLEAN /\ OperatorActs \in BOOLEAN
  /\ Faults \subseteq FaultKinds

VARIABLES
  os,         \* the entry of ProcessRegistry.os_processes and its OS state
  config,     \* names with a saved config in PM._process_configs
  psr,        \* status in ProcessStateRegistry ("none": not registered)
  prev,       \* ProcessMonitor.previous_states
  hb,         \* _last_heartbeat: none, fresh, or stale (older than the timeout)
  marks,      \* marks of _restart_history still inside the window
  pending,    \* names in _pending_restarts
  induced,    \* _induced_restarts
  recovery,   \* _pending_recovery
  deadline,   \* names in _recovery_deadline
  givenUp,    \* _given_up
  health,     \* processes.<name>.health.status in the state store
  beaten,     \* history: a heartbeat was handled since the restart was last planned
  inbox,      \* the manager's system queue
  mon,        \* the stage of the monitor's current iteration
  todo,       \* processes the current _check_heartbeats has still to visit
  pm          \* what the message processor is executing

monitorVars == <<psr, prev, hb, marks, pending, induced, recovery, deadline,
                 givenUp, health, beaten>>
vars == <<os, config, monitorVars, inbox, mon, todo, pm>>

OsStates  == {"absent", "created", "up", "hung", "crashed", "exited"}
Alive     == {"up", "hung"}
Statuses  == {"none", "created", "initializing", "running", "stopped", "crashed",
              "unresponsive", "failed"}
Messages  == [type : {"heartbeat", "restart"}, name : Procs]
Idle      == [stage |-> "idle"]
Stages    == {"stop", "remove", "create", "start"}

Heartbeat(p) == [type |-> "heartbeat", name |-> p]
Restart(p)   == [type |-> "restart", name |-> p]
Running(stage, p) == [stage |-> stage, name |-> p]

TypeOK ==
  /\ os \in [Procs -> OsStates]
  /\ config \subseteq Procs
  /\ psr \in [Procs -> Statuses]
  /\ prev \in [Procs -> Statuses]
  /\ hb \in [Procs -> {"none", "fresh", "stale"}]
  /\ marks \in [Procs -> 0 .. MaxRetries]
  /\ pending \subseteq Procs /\ induced \subseteq Procs
  /\ recovery \subseteq Procs /\ deadline \subseteq Procs /\ givenUp \subseteq Procs
  /\ health \in [Procs -> {"ok", "failed"}]
  /\ beaten \subseteq Procs
  /\ inbox \in Seq(Messages) /\ Len(inbox) <= InboxCap
  /\ mon \in {"idle", "check", "dispatch", "timeouts"}
  /\ todo \subseteq Procs
  /\ pm \in {Idle} \cup [stage : Stages, name : Procs]

Init ==
  /\ os = [p \in Procs |-> "created"]
  /\ config = Procs
  /\ psr = [p \in Procs |-> "initializing"]
  /\ prev = [p \in Procs |-> "none"]
  /\ hb = [p \in Procs |-> "none"]
  /\ marks = [p \in Procs |-> 0]
  /\ pending = {} /\ induced = {} /\ recovery = {} /\ deadline = {} /\ givenUp = {}
  /\ health = [p \in Procs |-> "ok"]
  /\ beaten = {}
  /\ inbox = <<>>
  /\ mon = "idle"
  /\ todo = {}
  /\ pm = Idle

-----------------------------------------------------------------------------
(* _try_auto_restart and what it calls.                                    *)

\* Faulty variant: an induced member recovers by the heartbeat it always sent.
RecoversInduced(p) == p \in recovery /\ hb[p] # "none"

\* A scheduled name is recovered once a heartbeat arrived after the schedule;
\* an induced member never was ill, so its heartbeat proves nothing.
Recovers(p) == p \in recovery /\ p \notin induced /\ hb[p] # "none"

\* Names whose watchdog the caller has just lifted: the watchdog itself lifts it
\* before it retries, an iteration that saw the process recover lifted it too.
Lifted(p, reason) ==
  IF \/ reason = "restart-not-confirmed"
     \/ reason \in {"unresponsive", "health-failed"} /\ Recovers(p)
  THEN {p} ELSE {}

\* Only the live-process path reads health.status: "ok" clears the give-up gate.
Forgiven(p) == IF HealthRestart /\ health[p] = "ok" THEN givenUp \ {p} ELSE givenUp

GivenUpBefore(p, reason) == IF reason = "unresponsive" THEN Forgiven(p) ELSE givenUp

\* Faulty variant: the cascade does not look at the give-up gate.
CascadeRevives(p, reason) ==
  IF reason = "restart-not-confirmed" THEN {}
  ELSE {q \in Induces[p] \cap config : q \notin Protected \cup pending}

\* The members _cascade_restart schedules together with the trigger.
Cascade(p, reason) ==
  IF reason = "restart-not-confirmed" THEN {}
  ELSE {q \in Induces[p] \cap config : q \notin Protected \cup pending \cup givenUp}

Refuse(p, reason, seen, known) ==
  /\ prev' = [prev EXCEPT ![p] = seen]
  /\ psr' = [psr EXCEPT ![p] = known]
  /\ recovery' = recovery \ Lifted(p, reason)
  /\ deadline' = deadline \ Lifted(p, reason)
  /\ givenUp' = GivenUpBefore(p, reason)
  /\ UNCHANGED <<hb, marks, pending, induced, health, beaten>>

\* Faulty variant: the watchdog entry survives the give-up.
GiveUpKeepsDeadline(p) ==
  /\ prev' = [prev EXCEPT ![p] = "failed"]
  /\ psr' = [psr EXCEPT ![p] = "failed"]
  /\ recovery' = recovery \ {p}
  /\ givenUp' = givenUp \cup {p}
  /\ health' = [health EXCEPT ![p] = "failed"]
  /\ UNCHANGED <<hb, marks, pending, induced, deadline, beaten>>

GiveUp(p) ==
  /\ prev' = [prev EXCEPT ![p] = "failed"]
  /\ psr' = [psr EXCEPT ![p] = "failed"]
  /\ recovery' = recovery \ {p}
  /\ deadline' = deadline \ {p}
  /\ givenUp' = givenUp \cup {p}
  /\ health' = [health EXCEPT ![p] = "failed"]
  /\ UNCHANGED <<hb, marks, pending, induced, beaten>>

\* Faulty variant: the attempt is not recorded.
Uncharged(p) == marks

\* The attempt is appended to the history of the process that failed.
Charged(p) == [marks EXCEPT ![p] = @ + 1]

\* Faulty variant: old heartbeats survive the plan.
BaseKept(group) == hb

\* Faulty variant: only the trigger gets a deadline.
WatchTrigger(p, group) == deadline \cup {p}

\* The trigger and its induced members all get a deadline.
Watch(p, group) == deadline \cup group

\* Planning a restart forgets the heartbeats received so far.
BaseReset(group) == [q \in Procs |-> IF q \in group THEN "none" ELSE hb[q]]

Schedule(p, reason, seen, known) ==
  LET casc  == Cascade(p, reason)
      group == {p} \cup casc
  IN /\ prev' = [prev EXCEPT ![p] = seen]
     /\ psr' = [psr EXCEPT ![p] = known]
     /\ marks' = Charged(p)
     /\ pending' = pending \cup group
     /\ induced' = induced \cup casc
     /\ recovery' = recovery \cup group
     /\ deadline' = Watch(p, group)
     /\ hb' = BaseReset(group)
     /\ beaten' = beaten \ group
     /\ givenUp' = GivenUpBefore(p, reason)
     /\ UNCHANGED health

\* Faulty variant: one attempt too many.
ExhaustedLate(p) == marks[p] > MaxRetries
Exhausted(p) == marks[p] >= MaxRetries

\* seen and known are the statuses the caller has just written into
\* previous_states and into the registry.
TryAutoRestart(p, reason, seen, known) ==
  LET allowed == p \in Enabled \ Protected
  IN \/ ~allowed /\ Refuse(p, reason, seen, known)
     \/ allowed /\ Exhausted(p) /\ GiveUp(p)
     \/ allowed /\ ~Exhausted(p) /\ p \in pending /\ Refuse(p, reason, seen, known)
     \/ allowed /\ ~Exhausted(p) /\ p \notin pending /\ Schedule(p, reason, seen, known)
-----------------------------------------------------------------------------
(* The monitor thread: one _run_iteration, step by step.                   *)

\* The iteration starts by copying the registry's statuses over previous_states.
MonSync ==
  /\ mon = "idle"
  /\ prev' = psr
  /\ mon' = "check"
  /\ todo' = {p \in Procs : os[p] # "absent"}
  /\ UNCHANGED <<os, config, psr, hb, marks, pending, induced, recovery, deadline,
                 givenUp, health, beaten, inbox, pm>>

Visit(p) ==
  /\ mon = "check" /\ p \in todo
  /\ todo' = todo \ {p}
  /\ UNCHANGED <<os, config, inbox, mon, pm>>

Terminal == {"stopped", "crashed", "failed"}

MonHandleDead(p) ==
  /\ Visit(p)
  /\ os[p] \in {"created", "crashed", "exited"}
  /\ \/ prev[p] \in Terminal /\ UNCHANGED monitorVars
     \/ /\ prev[p] \notin Terminal /\ os[p] = "created"
        /\ prev' = [prev EXCEPT ![p] = "created"]
        /\ UNCHANGED <<psr, hb, marks, pending, induced, recovery, deadline, givenUp,
                       health, beaten>>
     \/ /\ prev[p] \notin Terminal /\ os[p] = "exited"
        /\ prev' = [prev EXCEPT ![p] = "stopped"]
        /\ psr' = [psr EXCEPT ![p] = "stopped"]
        /\ UNCHANGED <<hb, marks, pending, induced, recovery, deadline, givenUp,
                       health, beaten>>
     \/ /\ prev[p] \notin Terminal /\ os[p] = "crashed"
        /\ TryAutoRestart(p, "crashed", "crashed", "crashed")

PreRunning == {"none", "created", "initializing"}

\* A live process is promoted from any pre-running status.
Promoted(p, status) == IF prev[p] \in PreRunning THEN "running" ELSE status

TimedOut(p) == Promoted(p, prev[p]) = "running" /\ hb[p] = "stale"

HealthFailed(p) ==
  /\ HealthRestart /\ health[p] = "failed" /\ p \in Enabled
  /\ p \notin givenUp
  /\ p \notin pending
  /\ p \notin recovery \/ Recovers(p)

MonCheckAlive(p) ==
  /\ Visit(p)
  /\ os[p] \in Alive
  /\ \/ /\ TimedOut(p)
        /\ TryAutoRestart(p, "unresponsive", "unresponsive", "unresponsive")
     \/ /\ ~TimedOut(p) /\ HealthFailed(p)
        /\ TryAutoRestart(p, "health-failed", Promoted(p, prev[p]), Promoted(p, psr[p]))
     \/ /\ ~TimedOut(p) /\ ~HealthFailed(p)
        /\ prev' = [prev EXCEPT ![p] = Promoted(p, @)]
        /\ psr' = [psr EXCEPT ![p] = Promoted(p, @)]
        /\ recovery' = IF Recovers(p) THEN recovery \ {p} ELSE recovery
        /\ deadline' = IF Recovers(p) THEN deadline \ {p} ELSE deadline
        /\ givenUp' = Forgiven(p)
        /\ UNCHANGED <<hb, marks, pending, induced, health, beaten>>

MonCheckDone ==
  /\ mon = "check" /\ todo = {}
  /\ mon' = "dispatch"
  /\ UNCHANGED <<os, config, monitorVars, inbox, todo, pm>>

\* A due restart leaves the plan whether or not its command could be sent.
MonDispatch(p) ==
  /\ mon = "dispatch" /\ p \in pending
  /\ pending' = pending \ {p}
  /\ induced' = induced \ {p}
  /\ hb' = [hb EXCEPT ![p] = "none"]
  /\ inbox' = IF Len(inbox) < InboxCap THEN Append(inbox, Restart(p)) ELSE inbox
  /\ UNCHANGED <<os, config, psr, prev, marks, recovery, deadline, givenUp, health,
                 beaten, mon, todo, pm>>

MonDispatchDone ==
  /\ mon = "dispatch"
  /\ mon' = "timeouts"
  /\ UNCHANGED <<os, config, monitorVars, inbox, todo, pm>>

\* Faulty variant: the watchdog only sees names still in the registry.
OverdueRegistered(p) == p \in (deadline \cap recovery) \ pending /\ os[p] # "absent"

\* The recovery deadline lies after the due time of the same plan, and the
\* dispatch step runs first: a name whose deadline expired is no longer pending.
Overdue(p) == p \in (deadline \cap recovery) \ pending

MonRecoveryTimeout(p) ==
  /\ mon = "timeouts" /\ Overdue(p)
  /\ TryAutoRestart(p, "restart-not-confirmed", prev[p], psr[p])
  /\ UNCHANGED <<os, config, inbox, mon, todo, pm>>

MonIterationDone ==
  /\ mon = "timeouts"
  /\ mon' = "idle"
  /\ UNCHANGED <<os, config, monitorVars, inbox, todo, pm>>

Monitor ==
  \/ MonSync \/ MonCheckDone \/ MonDispatchDone \/ MonIterationDone
  \/ \E p \in Procs : \/ MonHandleDead(p) \/ MonCheckAlive(p)
                      \/ MonDispatch(p) \/ MonRecoveryTimeout(p)
-----------------------------------------------------------------------------
(* The manager's message processor.                                        *)

Receive(type) ==
  /\ pm = Idle /\ inbox # <<>> /\ Head(inbox).type = type
  /\ inbox' = Tail(inbox)

OnHeartbeat ==
  /\ Receive("heartbeat")
  /\ LET p == Head(inbox).name
     IN /\ hb' = [hb EXCEPT ![p] = "fresh"]
        /\ prev' = [prev EXCEPT ![p] = "running"]
        /\ beaten' = beaten \cup {p}
  /\ UNCHANGED <<os, config, psr, marks, pending, induced, recovery, deadline, givenUp,
                 health, mon, todo, pm>>

\* Faulty variant: the saved config is not looked up.
HasConfigAssumed(p) == p \in Procs

\* restart_process refuses a name without a saved config.
HasConfig(p) == p \in config

RestartBegin ==
  /\ Receive("restart")
  /\ LET p == Head(inbox).name
     IN pm' = IF HasConfig(p) THEN Running("stop", p) ELSE Idle
  /\ UNCHANGED <<os, config, monitorVars, mon, todo>>

\* stop_one: graceful exit, terminate or kill; an instance that survives even the
\* kill aborts the restart.
RestartStop(p) ==
  /\ pm = Running("stop", p)
  /\ \/ /\ os[p] \notin Alive
        /\ pm' = Running("remove", p) /\ UNCHANGED os
     \/ /\ os[p] \in Alive
        /\ \E dead \in {"crashed"} \cup (IF os[p] = "up" THEN {"exited"} ELSE {}) :
             os' = [os EXCEPT ![p] = dead]
        /\ pm' = Running("remove", p)
     \/ /\ os[p] = "hung" /\ "unkillable" \in Faults
        /\ pm' = Idle /\ UNCHANGED os
  /\ UNCHANGED <<config, monitorVars, inbox, mon, todo>>

\* The list is mutated in place under the monitor's iteration: the removed entry is
\* gone and its successor may be skipped. A missing registry record is recreated, an
\* existing one keeps the status it has.
RestartRemove(p) ==
  /\ pm = Running("remove", p)
  /\ os' = [os EXCEPT ![p] = "absent"]
  /\ psr' = [psr EXCEPT ![p] = IF @ = "none" THEN "initializing" ELSE @]
  /\ \E skipped \in SUBSET todo : Cardinality(skipped) <= 1 /\ todo' = todo \ ({p} \cup skipped)
  /\ pm' = Running("create", p)
  /\ UNCHANGED <<config, prev, hb, marks, pending, induced, recovery, deadline, givenUp,
                 health, beaten, inbox, mon>>

RestartCreate(p) ==
  /\ pm = Running("create", p)
  /\ \/ /\ os' = [os EXCEPT ![p] = "created"]
        /\ todo' = IF mon = "check" THEN todo \cup {p} ELSE todo
        /\ pm' = Running("start", p)
     \/ /\ "create" \in Faults
        /\ pm' = Idle
        /\ UNCHANGED <<os, todo>>
  /\ UNCHANGED <<config, monitorVars, inbox, mon>>

RestartStart(p) ==
  /\ pm = Running("start", p)
  /\ os' = [os EXCEPT ![p] = "up"]
  /\ pm' = Idle
  /\ UNCHANGED <<config, monitorVars, inbox, mon, todo>>

Manager ==
  \/ OnHeartbeat \/ RestartBegin
  \/ \E p \in Procs : RestartStop(p) \/ RestartRemove(p) \/ RestartCreate(p) \/ RestartStart(p)

\* ProcessMonitor.forget_process; the heartbeat clocks of the others restart when
\* start() resumes the monitor.
Forget(p) ==
  /\ prev' = [prev EXCEPT ![p] = "none"]
  /\ hb' = [q \in Procs |-> IF q = p \/ hb[q] = "none" THEN "none" ELSE "fresh"]
  /\ marks' = [marks EXCEPT ![p] = 0]
  /\ pending' = pending \ {p}
  /\ induced' = induced \ {p}
  /\ recovery' = recovery \ {p}
  /\ deadline' = deadline \ {p}
  /\ givenUp' = givenUp \ {p}
  /\ beaten' = beaten \ {p}

\* apply_topology on the message processor, with the monitor paused between two
\* iterations: p is cleaned up and, if it belongs to the new topology, started.
SwitchReplace(p) ==
  /\ OperatorActs /\ pm = Idle /\ mon = "idle" /\ p \in config \ Protected
  /\ Forget(p)
  /\ os' = [os EXCEPT ![p] = "up"]
  /\ psr' = [psr EXCEPT ![p] = "initializing"]
  /\ health' = [health EXCEPT ![p] = "ok"]
  /\ UNCHANGED <<config, inbox, mon, todo, pm>>

SwitchRemove(p) ==
  /\ OperatorActs /\ pm = Idle /\ mon = "idle" /\ p \in config \ Protected
  /\ Forget(p)
  /\ config' = config \ {p}
  /\ os' = [os EXCEPT ![p] = "absent"]
  /\ psr' = [psr EXCEPT ![p] = "none"]
  /\ health' = [health EXCEPT ![p] = "ok"]
  /\ UNCHANGED <<inbox, mon, todo, pm>>

OperatorRestart(p) ==
  /\ OperatorActs /\ Len(inbox) < InboxCap
  /\ inbox' = Append(inbox, Restart(p))
  /\ UNCHANGED <<os, config, monitorVars, mon, todo, pm>>

Operator == \E p \in Procs : SwitchReplace(p) \/ SwitchRemove(p) \/ OperatorRestart(p)
-----------------------------------------------------------------------------
(* The children and the clocks.                                            *)

ChildMoves(p, from, to, fault) ==
  /\ os[p] \in from /\ fault \in Faults
  /\ os' = [os EXCEPT ![p] = to]
  /\ UNCHANGED <<config, monitorVars, inbox, mon, todo, pm>>

\* Boot: PM starts the created process (restart starts its own, RestartStart).
BootStart(p) ==
  /\ os[p] = "created" /\ pm = Idle
  /\ os' = [os EXCEPT ![p] = "up"]
  /\ UNCHANGED <<config, monitorVars, inbox, mon, todo, pm>>

ChildBeat(p) ==
  /\ os[p] = "up" /\ Len(inbox) < InboxCap
  /\ inbox' = Append(inbox, Heartbeat(p))
  /\ UNCHANGED <<os, config, monitorVars, mon, todo, pm>>

\* The child publishes its own health.status.
ChildHealth(p) ==
  /\ os[p] = "up" /\ "health" \in Faults
  /\ \E h \in {"ok", "failed"} : health' = [health EXCEPT ![p] = h]
  /\ UNCHANGED <<os, config, psr, prev, hb, marks, pending, induced, recovery, deadline,
                 givenUp, beaten, inbox, mon, todo, pm>>

HeartbeatAges(p) ==
  /\ hb[p] = "fresh"
  /\ hb' = [hb EXCEPT ![p] = "stale"]
  /\ UNCHANGED <<os, config, psr, prev, marks, pending, induced, recovery, deadline, givenUp,
                 health, beaten, inbox, mon, todo, pm>>

\* Faulty variant: marks expire that are not there.
MarkExpiresUnguarded(p) ==
  /\ marks' = [marks EXCEPT ![p] = @ - 1]
  /\ UNCHANGED <<os, config, psr, prev, hb, pending, induced, recovery, deadline, givenUp,
                 health, beaten, inbox, mon, todo, pm>>

\* A mark leaves the window (or _maybe_reset_on_stable clears them one by one).
MarkExpires(p) ==
  /\ Windowed /\ marks[p] > 0
  /\ marks' = [marks EXCEPT ![p] = @ - 1]
  /\ UNCHANGED <<os, config, psr, prev, hb, pending, induced, recovery, deadline, givenUp,
                 health, beaten, inbox, mon, todo, pm>>

Environment ==
  \E p \in Procs :
    \/ BootStart(p) \/ ChildBeat(p) \/ ChildHealth(p) \/ HeartbeatAges(p) \/ MarkExpires(p)
    \/ ChildMoves(p, Alive, "crashed", "crash")
    \/ ChildMoves(p, {"up"}, "exited", "exit")
    \/ ChildMoves(p, {"up"}, "hung", "hang")
    \/ ChildMoves(p, {"hung"}, "up", "hang")

Next == Monitor \/ Manager \/ Operator \/ Environment

\* Both threads keep running, a due restart and an expired deadline are eventually
\* noticed (their clocks advance), a live child keeps beating while the queue has room.
Fairness ==
  /\ WF_vars(MonSync) /\ WF_vars(MonCheckDone) /\ WF_vars(MonDispatchDone)
  /\ WF_vars(MonIterationDone) /\ WF_vars(Manager)
  /\ \A p \in Procs :
       /\ WF_vars(MonHandleDead(p) \/ MonCheckAlive(p))
       /\ SF_vars(MonDispatch(p)) /\ SF_vars(MonRecoveryTimeout(p))
       /\ WF_vars(BootStart(p)) /\ WF_vars(ChildBeat(p))

Spec == Init /\ [][Next]_vars
FairSpec == Spec /\ Fairness
-----------------------------------------------------------------------------
(* Safety.                                                                 *)

\* H3: a restart awaits recovery exactly as long as its watchdog is armed, and an
\* induced mark never outlives the planned restart it belongs to (the recovered
\* branch, the give-up, the cascade, the dispatch, the watchdog and a switch all
\* have to keep the four structures in step).
WatchdogPaired == deadline = recovery /\ induced \subseteq pending

\* NEW-6b: the healthy member of a cascade stays under its watchdog until its restart
\* is dispatched, however many heartbeats it sends meanwhile; only a give-up ends that
\* (and with the health path an operator may lift the give-up itself).
InducedWatched == ~HealthRestart => induced \subseteq recovery \cup givenUp

\* A protected process (GUI, the manager) is never planned for a restart and never
\* watched, neither for its own failure nor as the member of a cascade.
ProtectedUntouched == Protected \cap (pending \cup recovery \cup givenUp) = {}

\* A process a switch removed stays down: no plan, watchdog or restart command that
\* was already in the manager's queue brings it back.
RemovedStaysDown ==
  \A p \in Procs \ config :
    /\ os[p] = "absent"
    /\ p \notin pending \cup recovery \cup givenUp
    /\ pm # Idle => pm.name # p

\* A restart of p is planned, on its way to the manager or being executed.
RestartUnderWay(p) ==
  p \in pending \/ (pm # Idle /\ pm.name = p) \/ \E i \in DOMAIN inbox : inbox[i] = Restart(p)

\* H3, R2: a process that has left the registry because the create of its restart
\* failed is under its watchdog, given up on, or a restart of it is under way. The
\* exception is the one the source accepts for a live trigger: a heartbeat handled
\* since the plan, which disarms the watchdog although the restart is executed.
\* (Without the health path, which lifts a give-up, and without an operator, whose
\* restarts nobody watches.)
LostIsTracked ==
  ~HealthRestart /\ ~OperatorActs =>
    \A p \in config \cap (Enabled \ Protected) :
      os[p] = "absent" =>
        \/ p \in recovery \cap deadline
        \/ p \in givenUp \/ RestartUnderWay(p)
        \/ p \in beaten

\* With the lifetime counter a give-up is final for the planner: as long as p stays
\* given up neither its own failures, nor the watchdog, nor the cascade of another
\* process plans a restart of it anew. (One planned before the give-up stays.)
GivenUpNotReplanned ==
  [][~Windowed => \A p \in givenUp \cap givenUp' : p \in pending' => p \in pending]_vars

-----------------------------------------------------------------------------
(* What the source says of itself and the code does not keep.              *)

\* Given up is terminal: no restart of such a process is planned.
GivenUpNotPlanned == pending \cap givenUp = {}

-----------------------------------------------------------------------------
(* Liveness.                                                               *)

\* With the lifetime counter the supervisor falls silent, however often processes fail,
\* creates fail and commands are lost: no endless retry loop between the crash path, the
\* cascade, the health path and the watchdog.
SupervisorQuiesces == <>[](pending = {} /\ recovery = {})

\* A crash of a process the registry knows as running, with no restart of it under way,
\* ends with a live instance or with a loud give-up, although creates fail, commands
\* are lost and instances hang.
FirstCrashHandled ==
  \A p \in Enabled \ Protected :
    os[p] = "crashed" /\ psr[p] = "running" /\ ~RestartUnderWay(p)
      ~> os[p] \in Alive \/ p \in givenUp

\* The same for every crash, whatever the registry says.
EveryCrashHandled ==
  \A p \in Enabled \ Protected :
    os[p] = "crashed" ~> os[p] # "crashed" \/ p \in givenUp
=============================================================================
