----------------------- MODULE ProcessSupervisor_proofs -----------------------
(* Proofs that the supervision invariants hold for every set of processes,  *)
(* every policy and every restart set.                                      *)
EXTENDS ProcessSupervisor, TLAPS

\* The part of TypeOK that speaks of the monitor's own structures.
MonitorTypeOK ==
  /\ psr \in [Procs -> Statuses]
  /\ prev \in [Procs -> Statuses]
  /\ hb \in [Procs -> {"none", "fresh", "stale"}]
  /\ marks \in [Procs -> 0 .. MaxRetries]
  /\ pending \subseteq Procs /\ induced \subseteq Procs
  /\ recovery \subseteq Procs /\ deadline \subseteq Procs /\ givenUp \subseteq Procs
  /\ health \in [Procs -> {"ok", "failed"}]
  /\ beaten \subseteq Procs

\* The part of RemovedStaysDown that speaks of the monitor's own structures.
RemovedUnsupervised == \A p \in Procs \ config : p \notin pending \cup recovery \cup givenUp

\* A heartbeat base comes from a heartbeat handled since the plan.
HeardSincePlan == \A p \in Procs : hb[p] # "none" => p \in beaten

\* Who was given up on has used up its attempts, and a lifetime counter keeps them.
GivenUpIsSpent == ~Windowed => \A p \in givenUp : Exhausted(p)

\* The names that are watched, given up on or have been heard since their plan.
Safe == recovery \cup givenUp \cup beaten

\* The invariants over the monitor's structures only.
MonitorInv ==
  /\ MonitorTypeOK
  /\ WatchdogPaired
  /\ InducedWatched
  /\ HeardSincePlan
  /\ GivenUpIsSpent
  /\ ProtectedUntouched
  /\ RemovedUnsupervised

\* From its plan on a restarted process is safe, through the queue and through the
\* steps of restart_process, and so is one that is left without an instance.
Tracked ==
  ~HealthRestart /\ ~OperatorActs =>
    \A p \in Enabled \ Protected : RestartUnderWay(p) \/ os[p] = "absent" => p \in Safe

\* The inductive invariant: the structures stay paired, fresh, bounded and clear of
\* protected and removed names only together, and only if no restart is under way for
\* a name without a config.
SupInv == TypeOK /\ MonitorInv /\ RemovedStaysDown /\ Tracked

\* A step keeps Tracked if it loses no safe name, and puts a restart under way or
\* removes an instance only where a restart was under way or the name is watched.
LEMMA TrackedKept ==
  ASSUME Tracked,
         ~HealthRestart /\ ~OperatorActs =>
           \A p \in Enabled \ Protected :
             /\ p \in Safe => p \in Safe'
             /\ RestartUnderWay(p)' \/ os'[p] = "absent" =>
                  RestartUnderWay(p) \/ os[p] = "absent" \/ p \in recovery'
  PROVE  Tracked'
BY DEF Tracked, Safe

\* A step that leaves the monitor's structures alone leaves their invariants alone.
LEMMA MonitorFrame ==
  ASSUME MonitorInv, UNCHANGED <<config, monitorVars>>
  PROVE  MonitorInv'
BY DEF MonitorInv, MonitorTypeOK, WatchdogPaired, InducedWatched, HeardSincePlan, GivenUpIsSpent, Exhausted,
       ProtectedUntouched, RemovedUnsupervised, monitorVars

\* What Tracked speaks of is not touched.
LEMMA TrackedFrame ==
  ASSUME Tracked, UNCHANGED <<os, inbox, pm, pending, recovery, givenUp, beaten>>
  PROVE  Tracked'
BY TrackedKept DEF Safe, RestartUnderWay

\* Sending to the manager's queue and consuming from it keep it a queue of messages.
LEMMA InboxTypes ==
  ASSUME TypeOK
  PROVE  /\ \A p \in Procs : /\ Append(inbox, Heartbeat(p)) \in Seq(Messages)
                           /\ Append(inbox, Restart(p)) \in Seq(Messages)
         /\ inbox # <<>> => Head(inbox).name \in Procs /\ Tail(inbox) \in Seq(Messages)
         /\ \A m \in Messages : Len(Append(inbox, m)) = Len(inbox) + 1
         /\ inbox # <<>> => Len(Tail(inbox)) <= InboxCap
<1>1. \A p \in Procs : Heartbeat(p) \in Messages /\ Restart(p) \in Messages
  BY DEF Heartbeat, Restart, Messages
<1>2. \A m \in Messages : m.name \in Procs
  BY DEF Messages
<1>3. inbox \in Seq(Messages)
  BY DEF TypeOK
<1>4. \A m \in Messages : Append(inbox, m) \in Seq(Messages) /\ Len(Append(inbox, m)) = Len(inbox) + 1
  BY <1>3
<1>5. inbox # <<>> => /\ Head(inbox) \in Messages /\ Tail(inbox) \in Seq(Messages)
                      /\ Len(Tail(inbox)) = Len(inbox) - 1
  BY <1>3
<1>6. Len(inbox) <= InboxCap /\ Len(inbox) \in Nat /\ InboxCap \in Nat
  BY <1>3, SupervisorAssumption DEF TypeOK
<1> QED
  BY <1>1, <1>2, <1>4, <1>5, <1>6

\* A restart command in the queue was there before, or is the one just sent.
LEMMA InboxCommands ==
  ASSUME TypeOK, NEW p \in Procs
  PROVE  /\ \A m \in Messages :
              (\E i \in DOMAIN Append(inbox, m) : Append(inbox, m)[i] = Restart(p)) =>
                m = Restart(p) \/ \E i \in DOMAIN inbox : inbox[i] = Restart(p)
         /\ inbox # <<>> =>
              /\ Head(inbox).type = "restart" /\ Head(inbox).name = p =>
                   \E i \in DOMAIN inbox : inbox[i] = Restart(p)
              /\ (\E i \in DOMAIN Tail(inbox) : Tail(inbox)[i] = Restart(p)) =>
                   \E i \in DOMAIN inbox : inbox[i] = Restart(p)
<1>1. inbox \in Seq(Messages)
  BY DEF TypeOK
<1>2. ASSUME NEW m \in Messages, NEW i \in DOMAIN Append(inbox, m), Append(inbox, m)[i] = Restart(p)
      PROVE  m = Restart(p) \/ \E j \in DOMAIN inbox : inbox[j] = Restart(p)
  BY <1>1, <1>2
<1>3. ASSUME inbox # <<>>, NEW i \in DOMAIN Tail(inbox), Tail(inbox)[i] = Restart(p)
      PROVE  \E j \in DOMAIN inbox : inbox[j] = Restart(p)
  <2>1. i + 1 \in DOMAIN inbox /\ inbox[i + 1] = Tail(inbox)[i]
    BY <1>1, <1>3
  <2> QED
    BY <1>3, <2>1
<1>4. ASSUME inbox # <<>>, Head(inbox).type = "restart", Head(inbox).name = p
      PROVE  \E j \in DOMAIN inbox : inbox[j] = Restart(p)
  <2>1. 1 \in DOMAIN inbox /\ inbox[1] = Head(inbox) /\ Head(inbox) \in Messages
    BY <1>1, <1>4
  <2>2. Head(inbox) = Restart(p)
    BY <1>4, <2>1 DEF Messages, Restart
  <2> QED
    BY <2>1, <2>2
<1> QED
  BY <1>2, <1>3, <1>4

\* What one _try_auto_restart call does to the invariants of the monitor's structures.
LEMMA AttemptInv ==
  ASSUME MonitorInv, NEW p \in config, config \subseteq Procs,
         NEW reason, NEW seen \in Statuses, NEW known \in Statuses,
         reason = "restart-not-confirmed" => p \notin induced,
         TryAutoRestart(p, reason, seen, known), UNCHANGED config
  PROVE  MonitorInv'
<1> USE SupervisorAssumption DEF MonitorInv, MonitorTypeOK
<1>1. CASE Refuse(p, reason, seen, known)
  BY <1>1 DEF Refuse, Lifted, Recovers, GivenUpBefore, Forgiven, WatchdogPaired, InducedWatched, HeardSincePlan,
              GivenUpIsSpent, Exhausted, ProtectedUntouched, RemovedUnsupervised
<1>2. CASE p \in Enabled \ Protected /\ Exhausted(p) /\ GiveUp(p)
  BY <1>2 DEF GiveUp, WatchdogPaired, InducedWatched, HeardSincePlan, GivenUpIsSpent, Exhausted,
              ProtectedUntouched, RemovedUnsupervised, Statuses
<1>3. CASE /\ p \in Enabled \ Protected /\ ~Exhausted(p) /\ p \notin pending
           /\ Schedule(p, reason, seen, known)
  <2> DEFINE group == {p} \cup Cascade(p, reason)
  <2>1. /\ group \subseteq config
        /\ group \cap Protected = {}
        /\ Cascade(p, reason) \subseteq group
        /\ p \notin Cascade(p, reason)
    BY <1>3 DEF Cascade
  <2>2. /\ pending' = pending \cup group
        /\ induced' = induced \cup Cascade(p, reason)
        /\ recovery' = recovery \cup group
        /\ deadline' = deadline \cup group
        /\ hb' = [q \in Procs |-> IF q \in group THEN "none" ELSE hb[q]]
        /\ beaten' = beaten \ group
        /\ givenUp' \subseteq givenUp /\ (~HealthRestart => givenUp' = givenUp)
        /\ marks' = [marks EXCEPT ![p] = @ + 1] /\ marks[p] < MaxRetries
        /\ health' = health
        /\ prev' = [prev EXCEPT ![p] = seen]
        /\ psr' = [psr EXCEPT ![p] = known]
    BY <1>3 DEF Schedule, Watch, GivenUpBefore, Forgiven, BaseReset, Charged, Exhausted
  <2> HIDE DEF group
  <2>3. MonitorTypeOK'
    BY <2>1, <2>2
  <2>4. WatchdogPaired'
    BY <2>1, <2>2 DEF WatchdogPaired
  <2>5. InducedWatched'
    BY <2>1, <2>2 DEF InducedWatched
  <2>6. HeardSincePlan'
    BY <2>1, <2>2 DEF HeardSincePlan
  <2>7. GivenUpIsSpent'
    BY <2>2 DEF GivenUpIsSpent, Exhausted
  <2>8. ProtectedUntouched'
    BY <2>1, <2>2 DEF ProtectedUntouched
  <2>9. RemovedUnsupervised'
    BY <2>1, <2>2 DEF RemovedUnsupervised
  <2> QED
    BY <2>3, <2>4, <2>5, <2>6, <2>7, <2>8, <2>9
<1> QED
  BY <1>1, <1>2, <1>3 DEF TryAutoRestart

\* What it does to the plan: without the health path no name ceases to be safe, and
\* what is planned is watched. A name given up on is not planned, if the counter is a
\* lifetime one: its attempts are used up, and no cascade takes it.
LEMMA AttemptPlans ==
  ASSUME MonitorInv, NEW p \in Procs, NEW reason, NEW seen, NEW known,
         reason = "restart-not-confirmed" => p \notin pending,
         TryAutoRestart(p, reason, seen, known)
  PROVE  /\ pending' \subseteq pending \cup recovery'
         /\ ~HealthRestart => \A q \in Enabled \ Protected : q \in Safe => q \in Safe'
         /\ ~Windowed => \A q \in givenUp : q \in pending' => q \in pending
<1> USE DEF Safe
<1>1. ASSUME Refuse(p, reason, seen, known), p \in Enabled \ Protected => p \in pending
      PROVE  /\ pending' \subseteq pending \cup recovery'
             /\ ~HealthRestart => \A q \in Enabled \ Protected : q \in Safe => q \in Safe'
             /\ ~Windowed => \A q \in givenUp : q \in pending' => q \in pending
  <2>1. pending' = pending /\ beaten' = beaten /\ recovery' = recovery \ Lifted(p, reason)
        /\ (~HealthRestart => givenUp' = givenUp)
    BY <1>1 DEF Refuse, GivenUpBefore, Forgiven
  <2>2. p \in Enabled \ Protected => \A q \in Lifted(p, reason) : q \in beaten
    BY <1>1 DEF Lifted, Recovers, MonitorInv, HeardSincePlan
  <2>3. Lifted(p, reason) \subseteq {p}
    BY DEF Lifted
  <2> QED
    BY <2>1, <2>2, <2>3
<1>2. CASE Exhausted(p) /\ GiveUp(p)
  BY <1>2 DEF GiveUp
<1>3. CASE ~Exhausted(p) /\ Schedule(p, reason, seen, known)
  <2>1. p \notin givenUp \/ Windowed
    BY <1>3 DEF MonitorInv, GivenUpIsSpent
  <2>2. \A q \in Cascade(p, reason) : q \notin givenUp
    BY DEF Cascade
  <2>3. /\ pending' = pending \cup {p} \cup Cascade(p, reason)
        /\ recovery' = recovery \cup {p} \cup Cascade(p, reason)
        /\ beaten' = beaten \ ({p} \cup Cascade(p, reason))
        /\ ~HealthRestart => givenUp' = givenUp
    BY <1>3 DEF Schedule, GivenUpBefore, Forgiven
  <2> QED
    BY <2>1, <2>2, <2>3
<1> QED
  BY <1>1, <1>2, <1>3 DEF TryAutoRestart

\* One iteration of the monitor, step by step.
LEMMA MonitorStep ==
  ASSUME SupInv, Monitor
  PROVE  SupInv'
<1> USE SupervisorAssumption DEF SupInv
<1>1. CASE MonSync
  <2>1. TypeOK' /\ MonitorInv' /\ RemovedStaysDown'
    BY <1>1 DEF MonSync, TypeOK, MonitorInv, MonitorTypeOK, WatchdogPaired, InducedWatched, HeardSincePlan,
       GivenUpIsSpent, Exhausted, ProtectedUntouched, RemovedUnsupervised, RemovedStaysDown
  <2>2. Tracked'
    BY <1>1, TrackedFrame DEF MonSync
  <2> QED BY <2>1, <2>2
<1>2. CASE MonCheckDone \/ MonDispatchDone \/ MonIterationDone
  <2>1. MonitorInv'
    BY <1>2, MonitorFrame DEF MonCheckDone, MonDispatchDone, MonIterationDone
  <2>2. TypeOK' /\ RemovedStaysDown'
    BY <1>2 DEF MonCheckDone, MonDispatchDone, MonIterationDone, TypeOK, RemovedStaysDown,
       monitorVars
  <2>3. Tracked'
    BY <1>2, TrackedFrame DEF MonCheckDone, MonDispatchDone, MonIterationDone, monitorVars
  <2> QED BY <2>1, <2>2, <2>3
<1>3. ASSUME NEW p \in Procs, MonHandleDead(p)
      PROVE  SupInv'
  <2>1. p \in config /\ UNCHANGED <<os, config, inbox, mon, pm>> /\ todo' \subseteq Procs
    BY <1>3 DEF MonHandleDead, Visit, RemovedStaysDown, TypeOK
  <2>2. MonitorInv'
    <3>1. CASE UNCHANGED monitorVars
      BY <2>1, <3>1, MonitorFrame
    <3>2. CASE TryAutoRestart(p, "crashed", "crashed", "crashed")
      BY <2>1, <3>2, AttemptInv DEF TypeOK, Statuses
    <3>3. CASE /\ \/ prev' = [prev EXCEPT ![p] = "created"] /\ UNCHANGED psr
                  \/ /\ prev' = [prev EXCEPT ![p] = "stopped"]
                     /\ psr' = [psr EXCEPT ![p] = "stopped"]
               /\ UNCHANGED <<hb, marks, pending, induced, recovery, deadline, givenUp,
                              health, beaten>>
      BY <2>1, <3>3 DEF MonitorInv, MonitorTypeOK, WatchdogPaired, InducedWatched, HeardSincePlan,
         GivenUpIsSpent, Exhausted, ProtectedUntouched, RemovedUnsupervised, Statuses
    <3> QED BY <1>3, <3>1, <3>2, <3>3 DEF MonHandleDead
  <2>3. TypeOK' /\ RemovedStaysDown'
    BY <2>1, <2>2 DEF TypeOK, MonitorInv, MonitorTypeOK, RemovedUnsupervised, RemovedStaysDown
  <2>4. Tracked'
    <3>1. CASE UNCHANGED <<pending, recovery, givenUp, beaten>>
      BY <2>1, <3>1, TrackedFrame
    <3>2. CASE TryAutoRestart(p, "crashed", "crashed", "crashed")
      BY <2>1, <3>2, AttemptPlans, TrackedKept DEF RestartUnderWay
    <3> QED BY <1>3, <3>1, <3>2 DEF MonHandleDead, monitorVars
  <2> QED BY <2>2, <2>3, <2>4
<1>4. ASSUME NEW p \in Procs, MonCheckAlive(p)
      PROVE  SupInv'
  <2>1. p \in config /\ UNCHANGED <<os, config, inbox, mon, pm>> /\ todo' \subseteq Procs
    BY <1>4 DEF MonCheckAlive, Visit, RemovedStaysDown, TypeOK, Alive
  <2>2. Promoted(p, prev[p]) \in Statuses /\ Promoted(p, psr[p]) \in Statuses
    BY DEF Promoted, TypeOK, Statuses
  <2>3. MonitorInv'
    <3>1. CASE TryAutoRestart(p, "unresponsive", "unresponsive", "unresponsive")
      BY <2>1, <3>1, AttemptInv DEF TypeOK, Statuses
    <3>2. CASE TryAutoRestart(p, "health-failed", Promoted(p, prev[p]), Promoted(p, psr[p]))
      BY <2>1, <2>2, <3>2, AttemptInv DEF TypeOK
    <3>3. CASE /\ prev' = [prev EXCEPT ![p] = Promoted(p, @)]
               /\ psr' = [psr EXCEPT ![p] = Promoted(p, @)]
               /\ recovery' = IF Recovers(p) THEN recovery \ {p} ELSE recovery
               /\ deadline' = IF Recovers(p) THEN deadline \ {p} ELSE deadline
               /\ givenUp' = Forgiven(p)
               /\ UNCHANGED <<hb, marks, pending, induced, health, beaten>>
      BY <2>1, <2>2, <3>3 DEF MonitorInv, MonitorTypeOK, WatchdogPaired, InducedWatched, HeardSincePlan,
         GivenUpIsSpent, Exhausted, ProtectedUntouched, RemovedUnsupervised, Forgiven, Recovers
    <3> QED BY <1>4, <3>1, <3>2, <3>3 DEF MonCheckAlive
  <2>4. TypeOK' /\ RemovedStaysDown'
    BY <2>1, <2>3 DEF TypeOK, MonitorInv, MonitorTypeOK, RemovedUnsupervised, RemovedStaysDown
  <2>5. Tracked'
    <3>1. CASE \/ TryAutoRestart(p, "unresponsive", "unresponsive", "unresponsive")
               \/ TryAutoRestart(p, "health-failed", Promoted(p, prev[p]), Promoted(p, psr[p]))
      BY <2>1, <3>1, AttemptPlans, TrackedKept DEF RestartUnderWay
    <3>2. CASE /\ recovery' = IF Recovers(p) THEN recovery \ {p} ELSE recovery
               /\ givenUp' = Forgiven(p)
               /\ UNCHANGED <<pending, beaten>>
      <4>1. Recovers(p) => p \in beaten
        BY DEF Recovers, MonitorInv, HeardSincePlan
      <4>2. \A q \in Procs : ~HealthRestart /\ q \in Safe => q \in Safe'
        BY <3>2, <4>1 DEF Safe, Forgiven
      <4> QED
        BY <2>1, <3>2, <4>2, TrackedKept, SupervisorAssumption DEF RestartUnderWay
    <3> QED BY <1>4, <3>1, <3>2 DEF MonCheckAlive
  <2> QED BY <2>3, <2>4, <2>5
<1>5. ASSUME NEW p \in Procs, MonDispatch(p)
      PROVE  SupInv'
  <2>1. inbox' \in Seq(Messages) /\ Len(inbox') <= InboxCap
    <3>1. Len(inbox) \in Nat /\ Len(inbox) <= InboxCap /\ InboxCap \in Nat /\ Restart(p) \in Messages
      BY SupervisorAssumption DEF TypeOK, Restart, Messages
    <3> QED
      BY <1>5, <3>1, InboxTypes DEF MonDispatch, TypeOK
  <2>2. MonitorInv'
    BY <1>5 DEF MonDispatch, MonitorInv, MonitorTypeOK, WatchdogPaired, InducedWatched, HeardSincePlan,
       GivenUpIsSpent, Exhausted, ProtectedUntouched, RemovedUnsupervised
  <2>3. TypeOK' /\ RemovedStaysDown'
    BY <1>5, <2>1, <2>2 DEF MonDispatch, TypeOK, MonitorInv, MonitorTypeOK, RemovedStaysDown
  <2>4. Tracked'
    <3>1. p \in pending /\ pending' = pending \ {p} /\ UNCHANGED <<os, pm, recovery, givenUp, beaten>>
          /\ (inbox' = Append(inbox, Restart(p)) \/ inbox' = inbox)
      BY <1>5 DEF MonDispatch
    <3>2. Restart(p) \in Messages /\ \A q \in Procs : Restart(q) = Restart(p) => q = p
      BY DEF Restart, Messages
    <3>3. \A q \in Procs : RestartUnderWay(q)' => RestartUnderWay(q)
      BY <3>1, <3>2, InboxCommands DEF RestartUnderWay
    <3> QED
      BY <3>1, <3>3, TrackedKept, SupervisorAssumption DEF Safe
  <2> QED BY <2>2, <2>3, <2>4
<1>6. ASSUME NEW p \in Procs, MonRecoveryTimeout(p)
      PROVE  SupInv'
  <2>1. p \in config /\ p \notin induced /\ p \notin pending /\ UNCHANGED <<os, config, inbox, mon, pm, todo>>
    BY <1>6 DEF MonRecoveryTimeout, Overdue, MonitorInv, RemovedUnsupervised, WatchdogPaired
  <2>2. MonitorInv'
    BY <1>6, <2>1, AttemptInv DEF MonRecoveryTimeout, TypeOK
  <2>3. TypeOK' /\ RemovedStaysDown'
    BY <2>1, <2>2 DEF TypeOK, MonitorInv, MonitorTypeOK, RemovedUnsupervised, RemovedStaysDown
  <2>4. Tracked'
    BY <1>6, <2>1, AttemptPlans, TrackedKept DEF MonRecoveryTimeout, RestartUnderWay
  <2> QED BY <2>2, <2>3, <2>4
<1> QED
  BY <1>1, <1>2, <1>3, <1>4, <1>5, <1>6 DEF Monitor

\* The message processor: heartbeats and the steps of a restart.
LEMMA ManagerStep ==
  ASSUME SupInv, Manager
  PROVE  SupInv'
<1> USE SupervisorAssumption DEF SupInv
<1>1. CASE OnHeartbeat
  <2>1. Head(inbox).name \in Procs /\ inbox' \in Seq(Messages) /\ Len(inbox') <= InboxCap
    BY <1>1, InboxTypes DEF OnHeartbeat, Receive
  <2>2. MonitorInv'
    BY <1>1, <2>1 DEF OnHeartbeat, MonitorInv, MonitorTypeOK, WatchdogPaired, InducedWatched,
       HeardSincePlan, GivenUpIsSpent, Exhausted, ProtectedUntouched, RemovedUnsupervised, Statuses
  <2>3. TypeOK' /\ RemovedStaysDown'
    BY <1>1, <2>1, <2>2 DEF OnHeartbeat, TypeOK, MonitorInv, MonitorTypeOK, RemovedStaysDown
  <2>4. Tracked'
    <3>1. inbox # <<>> /\ inbox' = Tail(inbox) /\ UNCHANGED <<os, pm, pending, recovery, givenUp>>
          /\ beaten \subseteq beaten'
      BY <1>1 DEF OnHeartbeat, Receive
    <3>2. \A q \in Procs : RestartUnderWay(q)' => RestartUnderWay(q)
      BY <3>1, InboxCommands DEF RestartUnderWay
    <3> QED
      BY <3>1, <3>2, TrackedKept, SupervisorAssumption DEF Safe
  <2> QED BY <2>2, <2>3, <2>4
<1>2. CASE RestartBegin
  <2>1. Head(inbox).name \in Procs /\ inbox' \in Seq(Messages) /\ Len(inbox') <= InboxCap
    BY <1>2, InboxTypes DEF RestartBegin, Receive
  <2>2. MonitorInv'
    BY <1>2, MonitorFrame DEF RestartBegin
  <2>3. TypeOK' /\ RemovedStaysDown'
    BY <1>2, <2>1 DEF RestartBegin, HasConfig, Running, Stages, TypeOK, RemovedStaysDown,
       monitorVars
  <2>4. Tracked'
    <3>1. /\ inbox # <<>> /\ inbox' = Tail(inbox) /\ Head(inbox).type = "restart"
          /\ UNCHANGED <<os, pending, recovery, givenUp, beaten>>
          /\ pm' = Idle \/ pm'.name = Head(inbox).name
      BY <1>2 DEF RestartBegin, Receive, Running, monitorVars
    <3>2. \A q \in Procs : RestartUnderWay(q)' => RestartUnderWay(q)
      BY <3>1, InboxCommands DEF RestartUnderWay
    <3> QED
      BY <3>1, <3>2, TrackedKept, SupervisorAssumption DEF Safe
  <2> QED BY <2>2, <2>3, <2>4
<1>3. ASSUME NEW p \in Procs,
             RestartStop(p) \/ RestartRemove(p) \/ RestartCreate(p) \/ RestartStart(p)
      PROVE  SupInv'
  <2>0. Tracked'
    <3>1. /\ pm.name = p /\ pm # Idle
          /\ UNCHANGED <<inbox, pending, recovery, givenUp, beaten>>
          /\ pm' = Idle \/ pm'.name = p
          /\ \A q \in Procs : os'[q] = "absent" => q = p \/ os[q] = "absent"
      BY <1>3 DEF RestartStop, RestartRemove, RestartCreate, RestartStart, Running, Idle, TypeOK, monitorVars
    <3> QED
      BY <3>1, TrackedKept, SupervisorAssumption DEF Safe, RestartUnderWay
  <2>1. p \in config
    BY <1>3 DEF RestartStop, RestartRemove, RestartCreate, RestartStart, Running, Idle,
       RemovedStaysDown
  <2>2. CASE RestartStop(p)
    <3>1. MonitorInv'
      BY <2>2, MonitorFrame DEF RestartStop
    <3>2. os' \in [Procs -> OsStates] /\ \A q \in Procs \ {p} : os'[q] = os[q]
      BY <2>2 DEF RestartStop, TypeOK, OsStates
    <3>3. pm' = Idle \/ pm' = Running("remove", p)
      BY <2>2 DEF RestartStop
    <3>4. TypeOK' /\ RemovedStaysDown'
      BY <2>1, <2>2, <3>2, <3>3 DEF RestartStop, TypeOK, RemovedStaysDown, monitorVars, Running, Stages
    <3> QED BY <2>0, <3>1, <3>4
  <2>3. CASE RestartRemove(p)
    <3>1. MonitorInv'
      BY <2>3 DEF RestartRemove, MonitorInv, MonitorTypeOK, WatchdogPaired, InducedWatched,
         HeardSincePlan, GivenUpIsSpent, Exhausted, ProtectedUntouched, RemovedUnsupervised, Statuses
    <3>2. TypeOK' /\ RemovedStaysDown'
      BY <2>1, <2>3, <3>1 DEF RestartRemove, TypeOK, OsStates, MonitorInv, MonitorTypeOK,
         RemovedStaysDown, Running, Stages
    <3> QED BY <2>0, <3>1, <3>2
  <2>4. CASE RestartCreate(p)
    <3>1. MonitorInv'
      BY <2>4, MonitorFrame DEF RestartCreate
    <3>2. /\ os' \in [Procs -> OsStates] /\ \A q \in Procs \ {p} : os'[q] = os[q]
          /\ todo' \subseteq Procs
      BY <2>4 DEF RestartCreate, TypeOK, OsStates
    <3>3. pm' = Idle \/ pm' = Running("start", p)
      BY <2>4 DEF RestartCreate
    <3>4. TypeOK' /\ RemovedStaysDown'
      BY <2>1, <2>4, <3>2, <3>3 DEF RestartCreate, TypeOK, RemovedStaysDown, monitorVars,
         Running, Stages
    <3> QED BY <2>0, <3>1, <3>4
  <2>5. CASE RestartStart(p)
    <3>1. MonitorInv'
      BY <2>5, MonitorFrame DEF RestartStart
    <3>2. TypeOK' /\ RemovedStaysDown'
      BY <2>1, <2>5 DEF RestartStart, TypeOK, OsStates, RemovedStaysDown, monitorVars
    <3> QED BY <2>0, <3>1, <3>2
  <2> QED BY <1>3, <2>2, <2>3, <2>4, <2>5
<1> QED
  BY <1>1, <1>2, <1>3 DEF Manager

\* Switches and operator commands.
LEMMA OperatorStep ==
  ASSUME SupInv, Operator
  PROVE  SupInv'
<1> USE SupervisorAssumption DEF SupInv
<1>1. ASSUME NEW p \in Procs, SwitchReplace(p) \/ SwitchRemove(p)
      PROVE  SupInv'
  <2>1. MonitorInv'
    <3>1. /\ Forget(p)
          /\ config' \subseteq config /\ config \ {p} \subseteq config'
          /\ psr' \in [Procs -> Statuses] /\ health' \in [Procs -> {"ok", "failed"}]
      <4>1. CASE SwitchReplace(p)
        BY <4>1 DEF SwitchReplace, TypeOK, Statuses
      <4>2. CASE SwitchRemove(p)
        BY <4>2 DEF SwitchRemove, TypeOK, Statuses
      <4> QED BY <1>1, <4>1, <4>2
    <3>2. MonitorTypeOK'
      BY <3>1 DEF Forget, MonitorInv, MonitorTypeOK, Statuses
    <3>3. WatchdogPaired' /\ InducedWatched'
      BY <3>1 DEF Forget, MonitorInv, WatchdogPaired, InducedWatched
    <3>4. HeardSincePlan'
      BY <3>1 DEF Forget, MonitorInv, MonitorTypeOK, HeardSincePlan
    <3>5. GivenUpIsSpent'
      BY <3>1 DEF Forget, MonitorInv, MonitorTypeOK, GivenUpIsSpent, Exhausted
    <3>6. ProtectedUntouched' /\ RemovedUnsupervised'
      BY <3>1 DEF Forget, MonitorInv, ProtectedUntouched, RemovedUnsupervised
    <3> QED BY <3>2, <3>3, <3>4, <3>5, <3>6 DEF MonitorInv
  <2>2. TypeOK'
    <3>1. CASE SwitchReplace(p)
      BY <2>1, <3>1 DEF SwitchReplace, TypeOK, OsStates, MonitorInv, MonitorTypeOK
    <3>2. CASE SwitchRemove(p)
      BY <2>1, <3>2 DEF SwitchRemove, TypeOK, OsStates, MonitorInv, MonitorTypeOK
    <3> QED BY <1>1, <3>1, <3>2
  <2>3. RemovedStaysDown'
    BY <1>1, <2>1 DEF SwitchReplace, SwitchRemove, TypeOK, RemovedStaysDown, MonitorInv,
       RemovedUnsupervised
  <2>4. Tracked'
    BY <1>1 DEF SwitchReplace, SwitchRemove, Tracked
  <2> QED BY <2>1, <2>2, <2>3, <2>4
<1>2. ASSUME NEW p \in Procs, OperatorRestart(p)
      PROVE  SupInv'
  <2>1. MonitorInv'
    BY <1>2, MonitorFrame DEF OperatorRestart
  <2>2. TypeOK' /\ RemovedStaysDown'
    <3>1. Len(inbox) \in Nat /\ InboxCap \in Nat /\ Restart(p) \in Messages
      BY SupervisorAssumption DEF TypeOK, Restart, Messages
    <3> QED
      BY <1>2, <3>1, InboxTypes DEF OperatorRestart, TypeOK, RemovedStaysDown, monitorVars
  <2>3. Tracked'
    BY <1>2 DEF OperatorRestart, Tracked
  <2> QED BY <2>1, <2>2, <2>3
<1> QED
  BY <1>1, <1>2 DEF Operator

\* The children and the clocks.
LEMMA EnvironmentStep ==
  ASSUME SupInv, Environment
  PROVE  SupInv'
<1> USE SupervisorAssumption DEF SupInv
<1>1. ASSUME NEW p \in Procs, NEW from \in SUBSET (OsStates \ {"absent"}), NEW to \in OsStates,
             to # "absent", NEW fault, ChildMoves(p, from, to, fault)
      PROVE  SupInv'
  <2>1. MonitorInv'
    BY <1>1, MonitorFrame DEF ChildMoves
  <2>2. TypeOK' /\ RemovedStaysDown'
    BY <1>1 DEF ChildMoves, TypeOK, RemovedStaysDown, monitorVars
  <2>3. Tracked'
    <3>1. /\ UNCHANGED <<inbox, pm, pending, recovery, givenUp, beaten>>
          /\ \A q \in Procs : os'[q] = "absent" => os[q] = "absent"
      BY <1>1 DEF ChildMoves, TypeOK, monitorVars
    <3> QED
      BY <3>1, TrackedKept, SupervisorAssumption DEF Safe, RestartUnderWay
  <2> QED BY <2>1, <2>2, <2>3
<1>2. ASSUME NEW p \in Procs, BootStart(p) \/ ChildBeat(p)
      PROVE  SupInv'
  <2>1. MonitorInv'
    BY <1>2, MonitorFrame DEF BootStart, ChildBeat
  <2>2. CASE BootStart(p)
    <3>1. TypeOK' /\ RemovedStaysDown'
      BY <2>1, <2>2 DEF BootStart, TypeOK, OsStates, RemovedStaysDown, monitorVars
    <3>2. /\ UNCHANGED <<inbox, pm, pending, recovery, givenUp, beaten>>
          /\ \A q \in Procs : os'[q] = "absent" => os[q] = "absent"
      BY <2>2 DEF BootStart, TypeOK, monitorVars
    <3>3. Tracked'
      BY <3>2, TrackedKept, SupervisorAssumption DEF Safe, RestartUnderWay
    <3> QED BY <2>1, <3>1, <3>3
  <2>3. CASE ChildBeat(p)
    <3>1. Len(inbox) \in Nat /\ InboxCap \in Nat /\ Heartbeat(p) \in Messages
      BY SupervisorAssumption DEF TypeOK, Heartbeat, Messages
    <3>2. TypeOK' /\ RemovedStaysDown'
      BY <2>3, <3>1, InboxTypes DEF ChildBeat, TypeOK, RemovedStaysDown, monitorVars
    <3>3. /\ UNCHANGED <<os, pm, pending, recovery, givenUp, beaten>>
          /\ inbox' = Append(inbox, Heartbeat(p)) /\ \A q \in Procs : Heartbeat(p) # Restart(q)
      BY <2>3 DEF ChildBeat, monitorVars, Heartbeat, Restart
    <3>4. \A q \in Procs : RestartUnderWay(q)' => RestartUnderWay(q)
      BY <3>1, <3>3, InboxCommands DEF RestartUnderWay
    <3>5. Tracked'
      BY <3>3, <3>4, TrackedKept, SupervisorAssumption DEF Safe
    <3> QED BY <2>1, <3>2, <3>5
  <2> QED BY <1>2, <2>2, <2>3
<1>3. ASSUME NEW p \in Procs, ChildHealth(p) \/ HeartbeatAges(p) \/ MarkExpires(p)
      PROVE  SupInv'
  <2>1. MonitorInv'
    BY <1>3 DEF ChildHealth, HeartbeatAges, MarkExpires, MonitorInv, MonitorTypeOK,
       WatchdogPaired, InducedWatched, HeardSincePlan, GivenUpIsSpent, Exhausted, ProtectedUntouched,
       RemovedUnsupervised
  <2>2. TypeOK' /\ RemovedStaysDown'
    BY <1>3, <2>1 DEF ChildHealth, HeartbeatAges, MarkExpires, TypeOK, MonitorInv,
       MonitorTypeOK, RemovedStaysDown
  <2>3. Tracked'
    BY <1>3, TrackedFrame DEF ChildHealth, HeartbeatAges, MarkExpires
  <2> QED BY <2>1, <2>2, <2>3
<1> QED
  BY <1>1, <1>2, <1>3 DEF Environment, OsStates, Alive

LEMMA SupInvInit == Init => SupInv
BY SupervisorAssumption DEF Init, SupInv, Tracked, RestartUnderWay, TypeOK, MonitorInv, MonitorTypeOK, WatchdogPaired, InducedWatched,
   HeardSincePlan, GivenUpIsSpent, ProtectedUntouched, RemovedUnsupervised,
   RemovedStaysDown, OsStates, Statuses, Messages, Idle

LEMMA SupInvStep == SupInv /\ [Next]_vars => SupInv'
<1> SUFFICES ASSUME SupInv, [Next]_vars PROVE SupInv'
  OBVIOUS
<1>1. CASE UNCHANGED vars
  <2>1. MonitorInv'
    BY <1>1, MonitorFrame DEF vars, SupInv
  <2>2. TypeOK' /\ RemovedStaysDown'
    BY <1>1 DEF vars, monitorVars, SupInv, TypeOK, RemovedStaysDown
  <2>3. Tracked'
    BY <1>1, TrackedFrame DEF vars, monitorVars, SupInv
  <2> QED BY <2>1, <2>2, <2>3 DEF SupInv
<1> QED
  BY <1>1, MonitorStep, ManagerStep, OperatorStep, EnvironmentStep DEF Next

\* Only _try_auto_restart adds to the plan, and it plans nobody who was given up on.
LEMMA SupInvPlans ==
  ASSUME SupInv, Next, ~Windowed, NEW p \in givenUp, p \in pending'
  PROVE  p \in pending
<1> USE DEF SupInv
<1>1. ASSUME NEW q \in Procs, MonHandleDead(q) \/ MonCheckAlive(q) \/ MonRecoveryTimeout(q)
      PROVE  p \in pending
  <2>1. CASE pending' = pending
    BY <2>1
  <2>2. CASE \E reason, seen, known : /\ TryAutoRestart(q, reason, seen, known)
                                      /\ reason = "restart-not-confirmed" => q \notin pending
    BY <2>2, AttemptPlans
  <2> QED
    BY <1>1, <2>1, <2>2 DEF MonHandleDead, MonCheckAlive, MonRecoveryTimeout, Overdue, monitorVars
<1>2. CASE \/ MonSync \/ MonCheckDone \/ MonDispatchDone \/ MonIterationDone
           \/ \E q \in Procs : MonDispatch(q)
  BY <1>2 DEF MonSync, MonCheckDone, MonDispatchDone, MonIterationDone, MonDispatch, monitorVars
<1>3. CASE Manager
  BY <1>3 DEF Manager, OnHeartbeat, RestartBegin, RestartStop, RestartRemove, RestartCreate, RestartStart, monitorVars
<1>4. CASE Operator
  BY <1>4 DEF Operator, SwitchReplace, SwitchRemove, OperatorRestart, Forget, monitorVars
<1>5. CASE Environment
  BY <1>5 DEF Environment, BootStart, ChildBeat, ChildHealth, HeartbeatAges, MarkExpires, ChildMoves, monitorVars
<1> QED
  BY <1>1, <1>2, <1>3, <1>4, <1>5 DEF Next, Monitor

\* Type correctness of the supervisor, for every set of processes and every policy.
THEOREM SupervisorTypeCorrect == Spec => []TypeOK
BY SupInvInit, SupInvStep, PTL DEF Spec, SupInv

\* The watchdog, the plan and the recovery set never come apart (process_monitor.py,
\* _try_auto_restart, _cascade_restart, _dispatch_due_restarts, forget_process).
THEOREM SupervisorWatchdogPaired == Spec => []WatchdogPaired
BY SupInvInit, SupInvStep, PTL DEF Spec, SupInv, MonitorInv

\* A healthy member of a cascade never loses its watchdog before its restart is
\* dispatched (process_monitor.py, _check_heartbeats, the recovered branch).
THEOREM SupervisorInducedWatched == Spec => []InducedWatched
BY SupInvInit, SupInvStep, PTL DEF Spec, SupInv, MonitorInv

\* A process whose create failed is watched, given up on or about to be restarted,
\* but for the one exception LostIsTracked names (process_monitor.py,
\* _try_auto_restart, _dispatch_due_restarts, _check_recovery_timeouts).
THEOREM SupervisorLostIsTracked == Spec => []LostIsTracked
<1>1. SupInv => LostIsTracked
  BY DEF SupInv, MonitorInv, MonitorTypeOK, WatchdogPaired, Tracked, Safe, LostIsTracked
<1> QED
  BY <1>1, SupInvInit, SupInvStep, PTL DEF Spec

\* Nobody plans a restart of a process that was given up on: not its own failures,
\* whose attempts stay used up, and not the cascade of another process.
THEOREM SupervisorGivenUpNotReplanned == Spec => GivenUpNotReplanned
<1> DEFINE A == ~Windowed => \A p \in givenUp \cap givenUp' : p \in pending' => p \in pending
<1>1. SupInv /\ [Next]_vars => [A]_vars
  BY SupInvPlans
<1> QED
  BY <1>1, SupInvInit, SupInvStep, PTL DEF Spec, GivenUpNotReplanned

\* No failure and no cascade ever plans a protected process.
THEOREM SupervisorProtectedUntouched == Spec => []ProtectedUntouched
BY SupInvInit, SupInvStep, PTL DEF Spec, SupInv, MonitorInv

\* A process removed by a switch is never brought back by a restart in flight.
THEOREM SupervisorRemovedStaysDown == Spec => []RemovedStaysDown
BY SupInvInit, SupInvStep, PTL DEF Spec, SupInv, MonitorInv
===============================================================================
