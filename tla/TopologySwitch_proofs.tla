----------------------- MODULE TopologySwitch_proofs -----------------------
(***************************************************************************)
(* Proofs about TopologySwitch.  The inductive invariant IInv says, for    *)
(* every phase of the boot, of the switch and of the rollback, which names *)
(* have been handled already and what they look like then.                 *)
(***************************************************************************)
EXTENDS TopologySwitch, TLAPS

-----------------------------------------------------------------------------
(* What holds in every state.                                              *)

\* Nothing is left of n; n has been started or its start has failed.
Nothing(n) == config[n] = NoConfig /\ n \notin Registered
Started(n) ==
    /\ config[n] # NoConfig
    /\ registry[n].stage \in {"alive", "dead"} \/ n \in ghosts
Settled(n) == Nothing(n) \/ Started(n)

Tables ==
    \A n \in Names :
        /\ n \in Registered => config[n] # NoConfig
        /\ config[n] # NoConfig => n \in queues
        /\ n \in Registered => registry[n].born = incarnation[n] /\ registry[n].round <= round

\* Provisioning raises an incarnation at most once a round.
Early == {"stop", "cleanup", "provision", "rb cleanup", "rb provision"}
Incarnations ==
    /\ phase \in Forward \union {"rb stop"} => round + 1 <= MaxRounds
    /\ \A n \in Names :
        /\ incarnation[n] <= round
        /\ phase \in {"stop", "cleanup", "rb cleanup"} => incarnation[n] < round
        /\ phase \in {"provision", "rb provision"} /\ n \in left => incarnation[n] < round

\* An entry knows the entries that are not younger, and whoever was built in
\* this round knows every queue there is; provisioning comes before building.
Acquainted ==
    \A m, n \in Names :
        m \in Registered /\ n \in Registered /\ registry[m].round >= registry[n].round
        /\ n \notin late => registry[m].peers[n] = incarnation[n]
Announced ==
    \A m, n \in Names :
        m \in Registered /\ registry[m].round = round /\ n \in queues
        /\ n \notin late => registry[m].peers[n] = incarnation[n]
NoneYet == phase \in Early => \A m \in Names : m \in Registered => registry[m].round < round
Peers   == Acquainted /\ Announced /\ NoneYet

-----------------------------------------------------------------------------
(* What holds in each phase.                                               *)

AtBoot == phase = "boot" =>
    /\ left \subseteq Members[Boot] /\ answer = "none"
    /\ \A n \in Names : IF n \in left THEN config[n] = Boot /\ n \notin Registered
                                      ELSE Settled(n)
AtIdle == phase = "idle" => left = {} /\ \A n \in Names : Settled(n)

InSwitch == phase \notin {"boot", "idle"} =>
    \A n \in Names :
        /\ n \in ShieldedBefore => config[n] = snapshot[n] /\ Settled(n)
        /\ snapshot[n] = NoConfig /\ n \notin touched => Nothing(n)
NoneCreated == phase \notin {"rb create", "rb start"} => created = {}

AtStop == phase = "stop" =>
    config = snapshot /\ touched = {} /\ \A n \in Names : Settled(n)
AtCleanup == phase = "cleanup" =>
    /\ left \subseteq Old /\ touched = {}
    /\ \A n \in Old : ~Alive(n) /\ (n \notin left => Nothing(n))
AtProvision == phase = "provision" =>
    /\ left \subseteq New /\ touched = New \ left
    /\ \A n \in Old \union New : Nothing(n)
AtCreate == phase = "create" =>
    /\ left \subseteq New /\ touched = New
    /\ \A n \in Old \union New :
        IF n \in New \ left THEN config[n] = recipe /\ registry[n].stage = "new"
                            ELSE Nothing(n)
AtStart == phase = "start" =>
    /\ left \subseteq New /\ touched = New
    /\ \A n \in New :
        config[n] = recipe /\ n \in Registered /\ (registry[n].stage = "new" <=> n \in left)
    /\ \A n \in Old \ New : Nothing(n)
AtReady == phase = "ready" =>
    /\ touched = New
    /\ \A n \in New : config[n] = recipe /\ registry[n].stage \in {"alive", "dead"}
    /\ \A n \in Old \ New : Nothing(n)

\* The names the rollback stops; those of them that outlived it; those it
\* could not bring back.
Victims     == Old \union PartialNew
Survivor(n) == n \in excused /\ n \in alarm /\ Started(n)
Lost(n)     == Nothing(n) /\ (n \in Old => n \in excused)
Restored(n) == config[n] = snapshot[n] /\ n \in Registered /\ registry[n].round = round

InRollback == phase \in Back \ {"rb stop"} =>
    \A n \in Adopted : n \in excused /\ Started(n)
AtRbCleanup == phase = "rb cleanup" =>
    /\ left \subseteq Victims
    /\ \A n \in Victims : IF n \in left THEN ~Alive(n) ELSE Nothing(n) \/ Survivor(n)
AtRbProvision == phase = "rb provision" =>
    /\ \A n \in left : n \in Old /\ Nothing(n)
    /\ \A n \in Victims : Nothing(n) \/ Survivor(n)
AtRbCreate == phase = "rb create" =>
    /\ left \subseteq Old \ created /\ created \subseteq Old
    /\ \A n \in Victims :
        \/ n \in left /\ Nothing(n)
        \/ n \in created /\ Restored(n) /\ registry[n].stage = "new"
        \/ n \notin left \union created /\ (Survivor(n) \/ Lost(n))
AtRbStart == phase = "rb start" =>
    /\ left \subseteq created /\ created \subseteq Old
    /\ \A n \in Victims :
        \/ n \in left /\ Restored(n) /\ registry[n].stage = "new"
        \/ n \in created \ left /\ Restored(n) /\ Started(n)
        \/ n \notin created /\ (Survivor(n) \/ Lost(n))

Phases ==
    /\ AtBoot /\ AtIdle /\ InSwitch /\ NoneCreated
    /\ AtStop /\ AtCleanup /\ AtProvision /\ AtCreate /\ AtStart /\ AtReady
    /\ InRollback /\ AtRbCleanup /\ AtRbProvision /\ AtRbCreate /\ AtRbStart

\* An object older than the rollback is named too, whether it runs or not.
Outlived ==
    phase = "idle" /\ answer = "rolled back" =>
        \A n \in Names \ Protected :
            n \in Registered /\ registry[n].round < round => n \in alarm

IInv ==
    /\ TypeOK /\ EveryLiveReachable /\ Tables /\ Incarnations /\ Peers /\ Phases
    /\ Outlived

-----------------------------------------------------------------------------
(* What the steps do to the registry: the type of the new one, the stage of *)
(* each entry in it, and what becomes of the birth of each.                 *)

SameBirth(m) ==
    /\ registry'[m].born = registry[m].born /\ registry'[m].round = registry[m].round
    /\ registry'[m].peers = registry[m].peers

LEMMA Sets ==
    ASSUME TypeOK
    PROVE  /\ Old \subseteq Names /\ New \subseteq Names /\ Members[Boot] \subseteq Names
           /\ PartialNew \subseteq Names /\ Adopted \subseteq Names /\ Victims \subseteq Names
BY SwitchAssumption DEF TypeOK, Old, New, PartialNew, Adopted, Victims

LEMMA Numbers ==
    ASSUME TypeOK
    PROVE  round \in Nat /\ \A m \in Names : registry[m].round \in Nat /\ incarnation[m] \in Nat
BY SwitchAssumption DEF TypeOK, Process, Rounds

\* An object is born with the incarnation of its name and the peers of the day.
LEMMA ObjectFacts ==
    ASSUME TypeOK, NEW n \in Names, NEW stage \in {"new", "alive"}
    PROVE  /\ Object(n, stage) \in Process
           /\ Object(n, stage).stage = stage /\ Object(n, stage).born = incarnation[n]
           /\ Object(n, stage).round = round
           /\ \A m \in queues \union {n} : Object(n, stage).peers[m] = incarnation[m]
<1> USE SwitchAssumption DEF TypeOK, Rounds
<1> DEFINE P == [m \in Names |-> IF m \in queues \union {n} THEN incarnation[m] ELSE Unknown]
<1>1. P \in [Names -> Rounds \union {Unknown}] /\ \A m \in queues \union {n} : P[m] = incarnation[m]
    OBVIOUS
<1>2. Object(n, stage) = [stage |-> stage, born |-> incarnation[n], round |-> round, peers |-> P]
    BY DEF Object
<1> HIDE DEF P
<1> QED
    BY <1>1, <1>2 DEF Process, Stages

LEMMA AbsentFacts == Absent \in Process /\ Absent.stage = "none"
BY SwitchAssumption DEF Absent, Process, Stages, Rounds

\* One entry changes its stage.
LEMMA Restaged ==
    ASSUME TypeOK, NEW n \in Names, NEW stage \in Stages,
           registry' = [registry EXCEPT ![n].stage = stage]
    PROVE  /\ registry' \in [Names -> Process]
           /\ \A m \in Names :
                /\ SameBirth(m)
                /\ registry'[m].stage = IF m = n THEN stage ELSE registry[m].stage
BY DEF TypeOK, Process, SameBirth

\* One entry is replaced.
LEMMA Replaced ==
    ASSUME TypeOK, NEW n \in Names, NEW entry \in Process,
           registry' = [registry EXCEPT ![n] = entry]
    PROVE  /\ registry' \in [Names -> Process]
           /\ registry'[n] = entry
           /\ \A m \in Names \ {n} : SameBirth(m) /\ registry'[m].stage = registry[m].stage
BY DEF TypeOK, SameBirth

\* stop_many changes the stage of the living among names, but for the spared.
LEMMA StoppedFacts ==
    ASSUME TypeOK, NEW names, NEW spared, Stopped(names, spared)
    PROVE  /\ registry' \in [Names -> Process]
           /\ \A m \in Names :
                /\ SameBirth(m)
                /\ registry'[m].stage = IF m \in names \ spared /\ Alive(m) THEN "dead"
                                        ELSE registry[m].stage
BY DEF TypeOK, Stopped, Halted, Alive, Process, Stages, SameBirth

\* What peers know stays true while nothing they know is made anew.
LEMMA PeersKept ==
    ASSUME TypeOK, Tables, Peers, UNCHANGED <<late, incarnation, queues>>,
           round' = round \/ round' = round + 1,
           \A m \in Names : m \in Registered' => m \in Registered /\ SameBirth(m)
    PROVE  Acquainted' /\ Announced'
BY Numbers DEF Peers, Acquainted, Announced, Tables, SameBirth

\* Between switches: an object is as old as it was, or of this round.
LEMMA OutlivedKept ==
    ASSUME TypeOK, Outlived, phase = "idle", UNCHANGED <<answer, round, alarm>>,
           \A m \in Names : m \in Registered' =>
               \/ m \in Registered /\ SameBirth(m) /\ config'[m] = config[m]
               \/ registry'[m].round = round
    PROVE  Outlived'
<1> SUFFICES ASSUME answer = "rolled back", NEW m \in Names \ Protected', m \in Registered',
                    registry'[m].round < round
             PROVE  m \in alarm
    BY DEF Outlived
<1>1. m \in Registered /\ SameBirth(m) /\ config'[m] = config[m]
  <2>1. ASSUME registry'[m].round = round PROVE FALSE
    <3>1. round < round
      BY <2>1
    <3> QED
      BY ONLY TypeOK, <3>1, Numbers, SwitchAssumption
  <2> QED
    BY <2>1
<1>2. m \notin Protected
    BY <1>1 DEF Protected
<1> QED
    BY <1>1, <1>2 DEF Outlived, SameBirth

\* The rollback touches the configs of old names, and takes those of the new
\* ones away: neither changes what there is to stop.
LEMMA VictimsKept ==
    ASSUME TypeOK, UNCHANGED <<snapshot, touched>>,
           \A m \in Names \ Old :
               config'[m] = config[m] \/ (m \in Victims /\ config'[m] = NoConfig)
    PROVE  /\ Old' = Old /\ ShieldedBefore' = ShieldedBefore
           /\ Adopted' = Adopted /\ Victims' = Victims
<1>1. Old' = Old /\ ShieldedBefore' = ShieldedBefore /\ touched \subseteq Names
    BY DEF Old, ShieldedBefore, TypeOK
<1>2. ASSUME NEW m \in touched \ Old
      PROVE  \/ config'[m] = config[m]
             \/ m \notin Protected /\ m \notin Protected'
    BY <1>1, SwitchAssumption DEF Victims, PartialNew, Protected
<1>3. \A m \in touched \ Old : m \in Protected <=> m \in Protected'
    BY <1>1, <1>2 DEF Protected
<1> QED
    BY <1>1, <1>3 DEF Adopted, Victims, PartialNew

\* What is known of a name stays true while its entry, its config and what is
\* excused of it stay.
LEMMA NameKept ==
    ASSUME NEW m \in Names, SameBirth(m), registry'[m].stage = registry[m].stage,
           config'[m] = config[m], m \in ghosts => m \in ghosts',
           m \in excused => m \in excused', UNCHANGED <<alarm, round, snapshot>>
    PROVE  /\ Nothing(m)' <=> Nothing(m)
           /\ Started(m) => Started(m)'
           /\ Settled(m) => Settled(m)'
           /\ Survivor(m) => Survivor(m)'
           /\ Lost(m) => Lost(m)'
           /\ Restored(m) => Restored(m)'
<1>1. Old' = Old
    BY DEF Old, ShieldedBefore
<1>2. m \in Registered' <=> m \in Registered
    BY DEF Registered
<1>3. /\ Nothing(m)' <=> Nothing(m)
      /\ Started(m) => Started(m)'
    BY <1>2 DEF Nothing, Started
<1> QED
    BY <1>1, <1>2, <1>3 DEF Settled, Survivor, Lost, Restored, SameBirth

-----------------------------------------------------------------------------
\* The initial states.
LEMMA InitInv == Init => IInv
<1> SUFFICES ASSUME Init PROVE IInv
    OBVIOUS
<1> USE SwitchAssumption DEF Init, Registered, Alive
<1>1. TypeOK
  <2>1. registry \in [Names -> Process]
    BY AbsentFacts
  <2>2. config \in [Names -> Recipes \union {NoConfig}] /\ left \subseteq Names
    OBVIOUS
  <2>3. /\ incarnation \in [Names -> Rounds] /\ round \in Rounds
        /\ snapshot \in [Names -> Recipes \union {NoConfig}] /\ deps \in [Names -> SUBSET Names]
    BY DEF Rounds
  <2> QED
    BY <2>1, <2>2, <2>3 DEF TypeOK, Answers
<1>2. Tables /\ Incarnations /\ Peers
    BY AbsentFacts DEF Tables, Incarnations, Peers, Acquainted, Announced, NoneYet, Forward
<1>3. Phases
    BY DEF Phases, AtBoot, AtIdle, InSwitch, NoneCreated, AtStop, AtCleanup, AtProvision, AtCreate,
           AtStart, AtReady, InRollback, AtRbCleanup, AtRbProvision, AtRbCreate, AtRbStart,
           Settled, Nothing, Back, Absent
<1> QED
    BY <1>1, <1>2, <1>3 DEF IInv, EveryLiveReachable, Outlived

\* Boot: one process is created and started, or its creation fails.
LEMMA BootOneInv ==
    ASSUME IInv, NEW n \in Names, BootOne(n)
    PROVE  IInv'
<1> USE SwitchAssumption DEF IInv
<1>1. CASE BootOne(n) /\ Made(n, "alive") /\ UNCHANGED <<config, excused>>
  <2>1. /\ registry' \in [Names -> Process]
        /\ registry'[n] = Object(n, "alive")
        /\ \A m \in Names \ {n} : SameBirth(m) /\ registry'[m].stage = registry[m].stage
        /\ registry'[n].stage = "alive" /\ registry'[n].born = incarnation[n]
        /\ registry'[n].round = round
        /\ \A m \in queues \union {n} : registry'[n].peers[m] = incarnation[m]
      BY <1>1, Replaced, ObjectFacts DEF AtBoot, BootOne, Made, Phases
  <2>2. TypeOK'
      BY <1>1, <2>1 DEF BootOne, Made, TypeOK, boot, work
  <2>3. EveryLiveReachable' /\ Tables'
    <3>1. EveryLiveReachable'
        BY <1>1, <2>1 DEF AtBoot, BootOne, EveryLiveReachable, Made, Phases
    <3>2. Tables'
        BY <1>1, <2>1 DEF AtBoot, BootOne, Made, Phases, Registered, Rounds, Tables, TypeOK
    <3> QED
        BY <3>1, <3>2
  <2>4. Incarnations'
      BY <1>1, <2>1 DEF BootOne, Incarnations
  <2>5. Peers'
    <3>1. Acquainted'
      <4> SUFFICES ASSUME NEW k \in Names, NEW l \in Names, k \in Registered', l \in Registered',
                          registry'[k].round >= registry'[l].round, l \notin late'
                   PROVE  registry'[k].peers[l] = incarnation'[l]
        BY DEF Acquainted
      <4>1. CASE k = n
          BY <1>1, <2>1, <4>1, Numbers DEF BootOne, Registered, Tables
      <4>2. CASE k # n /\ l = n
        <5>1. k \in Registered /\ SameBirth(k)
            BY <2>1, <4>2 DEF Registered
        <5>2. registry[k].round = round
          <6>1. registry'[k].round = registry[k].round /\ registry[k].round <= round
              BY <5>1 DEF SameBirth, Tables
          <6>2. registry'[k].round >= round
              BY <2>1, <4>2
          <6> QED
              BY <6>1, <6>2, Numbers
        <5>3. n \in queues /\ n \notin late /\ incarnation' = incarnation
            BY <1>1, <4>2 DEF BootOne, Made
        <5> QED
            BY <4>2, <5>1, <5>2, <5>3 DEF Announced, Peers, SameBirth
      <4>3. CASE k # n /\ l # n
          BY <1>1, <2>1, <4>3, Numbers DEF Acquainted, BootOne, Made, Peers, Registered
      <4> QED
          BY <4>1, <4>2, <4>3
    <3>2. Announced'
        BY <1>1, <2>1 DEF Announced, BootOne, Made, Peers, Registered
    <3>3. NoneYet'
        BY <1>1, <2>1 DEF BootOne, Early, NoneYet
    <3> QED
        BY <3>1, <3>2, <3>3 DEF Peers
  <2>6. Phases'
    <3>1. phase' = "boot"
        BY <1>1 DEF BootOne
    <3>2. NoneCreated'
        BY <1>1, <3>1, <2>1 DEF BootOne, NoneCreated, Phases, work
    <3>3. AtBoot'
        BY <1>1, <3>1, <2>1 DEF AtBoot, BootOne, Nothing, Phases, Registered, Settled, Started
    <3> QED
        BY <3>1, <3>2, <3>3 DEF AtCleanup, AtCreate, AtIdle, AtProvision, AtRbCleanup,
               AtRbCreate, AtRbProvision, AtRbStart, AtReady, AtStart, AtStop, Back,
               InRollback, InSwitch, Phases
  <2>7. Outlived'
      BY <1>1, <2>1 DEF BootOne, Outlived
  <2> QED
      BY <2>2, <2>3, <2>4, <2>5, <2>6, <2>7 DEF IInv
<1>2. CASE BootOne(n) /\ UNCHANGED <<registry, orphans, late>> /\ excused' = excused \union {n}
           /\ config' = [config EXCEPT ![n] = NoConfig] /\ queues' = queues \ {n}
  <2>2. TypeOK'
      BY <1>2 DEF BootOne, TypeOK, boot, work
  <2>3. EveryLiveReachable' /\ Tables'
    <3>1. EveryLiveReachable'
        BY <1>2 DEF EveryLiveReachable
    <3>2. Tables'
        BY <1>2 DEF AtBoot, BootOne, Phases, Registered, Tables, TypeOK
    <3> QED
        BY <3>1, <3>2
  <2>4. Incarnations'
      BY <1>2 DEF BootOne, Incarnations
  <2>5. Peers'
      BY <1>2 DEF Acquainted, Announced, BootOne, NoneYet, Peers, Registered
  <2>6. Phases'
    <3>1. phase' = "boot"
        BY <1>2 DEF BootOne
    <3>2. NoneCreated'
        BY <1>2, <3>1 DEF BootOne, NoneCreated, Phases, work
    <3>3. AtBoot'
        BY <1>2, <3>1 DEF AtBoot, BootOne, Nothing, Phases, Registered, Settled, Started, TypeOK
    <3> QED
        BY <3>1, <3>2, <3>3 DEF AtCleanup, AtCreate, AtIdle, AtProvision, AtRbCleanup,
               AtRbCreate, AtRbProvision, AtRbStart, AtReady, AtStart, AtStop, Back,
               InRollback, InSwitch, Phases
  <2>7. Outlived'
      BY <1>2 DEF BootOne, Outlived
  <2> QED
      BY <2>2, <2>3, <2>4, <2>5, <2>6, <2>7 DEF IInv
<1> QED
    BY <1>1, <1>2 DEF BootOne

\* Boot is over.
LEMMA BootedInv ==
    ASSUME IInv, Booted
    PROVE  IInv'
<1> USE SwitchAssumption DEF IInv
<1>2. TypeOK'
    BY DEF Booted, TypeOK, outcome, tables, work
<1>3. EveryLiveReachable' /\ Tables'
  <2>1. EveryLiveReachable'
      BY DEF Booted, EveryLiveReachable, tables
  <2>2. Tables'
      BY DEF Booted, Registered, Tables, tables
  <2> QED
      BY <2>1, <2>2
<1>4. Incarnations'
    BY DEF Booted, Forward, Incarnations, tables
<1>5. Peers'
  <2>1. Acquainted'
      BY DEF Acquainted, Booted, Peers, Registered, tables
  <2>2. Announced'
      BY DEF Announced, Booted, Peers, Registered, tables
  <2>3. NoneYet'
      BY DEF Booted, Early, NoneYet
  <2> QED
      BY <2>1, <2>2, <2>3 DEF Peers
<1>6. Phases'
  <2>1. phase' = "idle"
      BY DEF Booted
  <2>2. NoneCreated'
      BY <2>1 DEF Booted, NoneCreated, Phases, work
  <2>3. AtIdle'
      BY <2>1 DEF AtBoot, AtIdle, Booted, Nothing, Phases, Registered, Settled, Started, outcome,
         tables
  <2> QED
      BY <2>1, <2>2, <2>3 DEF AtBoot, AtCleanup, AtCreate, AtProvision, AtRbCleanup,
             AtRbCreate, AtRbProvision, AtRbStart, AtReady, AtStart, AtStop, Back,
             InRollback, InSwitch, Phases
<1>7. Outlived'
    BY DEF AtBoot, Booted, Outlived, Phases, outcome
<1> QED
    BY <1>2, <1>3, <1>4, <1>5, <1>6, <1>7 DEF IInv

\* A child dies: the phases ask of a name only whether it has been started.
LEMMA CrashInv ==
    ASSUME IInv, NEW n \in Names, Crash(n)
    PROVE  IInv'
<1> USE SwitchAssumption DEF IInv, Crash, boot, tables, work, outcome
<1>1. /\ registry' \in [Names -> Process]
      /\ \A m \in Names :
            /\ SameBirth(m)
            /\ registry'[m].stage = IF m = n THEN "dead" ELSE registry[m].stage
    BY Restaged DEF Stages
<1>2. Alive(n) /\ registry[n].stage = "alive"
    BY DEF Alive
<1>3. /\ Registered' = Registered
      /\ \A m \in Names : /\ Alive(m)' => Alive(m)
                          /\ Settled(m) => Settled(m)'
                          /\ Started(m) => Started(m)'
                          /\ Nothing(m) <=> Nothing(m)'
                          /\ (registry'[m].stage = "new") = (registry[m].stage = "new")
                          /\ (registry'[m].stage \in {"alive", "dead"})
                                = (registry[m].stage \in {"alive", "dead"})
    BY <1>1, <1>2 DEF Registered, Alive, Settled, Started, Nothing
<1>4. /\ Old' = Old /\ New' = New /\ ShieldedBefore' = ShieldedBefore
      /\ Protected' = Protected /\ Adopted' = Adopted /\ Victims' = Victims
      /\ Old \union New \union Victims \union Adopted \subseteq Names
    BY DEF Old, New, ShieldedBefore, Protected, Adopted, Victims, PartialNew, TypeOK
<1>5. TypeOK'
    BY <1>1 DEF TypeOK
<1>6. EveryLiveReachable' /\ Tables' /\ Incarnations' /\ Peers'
  <2>1. EveryLiveReachable' /\ Incarnations'
    BY DEF EveryLiveReachable, Incarnations
  <2>2. Tables' /\ Peers'
    BY <1>1, <1>3 DEF Tables, Peers, Acquainted, Announced, NoneYet
  <2> QED
    BY <2>1, <2>2
<1>7. Phases'
  <2>1. AtBoot' /\ AtIdle' /\ InSwitch' /\ NoneCreated'
    BY <1>3, <1>4 DEF Phases, AtBoot, AtIdle, InSwitch, NoneCreated
  <2>2. AtStop' /\ AtCleanup' /\ AtProvision'
    BY <1>3, <1>4 DEF Phases, AtStop, AtCleanup, AtProvision
  <2>3. AtCreate' /\ AtStart' /\ AtReady'
    BY <1>3, <1>4 DEF Phases, AtCreate, AtStart, AtReady
  <2>4. InRollback' /\ AtRbCleanup' /\ AtRbProvision'
    BY <1>3, <1>4 DEF Phases, InRollback, AtRbCleanup, AtRbProvision, Survivor
  <2>5. \A m \in Names : /\ Survivor(m) => Survivor(m)'
                         /\ Lost(m) => Lost(m)'
                         /\ Restored(m) => Restored(m)'
    BY <1>1, <1>3, <1>4 DEF Survivor, Lost, Restored, SameBirth
  <2>6. AtRbCreate'
    BY <1>3, <1>4, <2>5 DEF Phases, AtRbCreate
  <2>7. AtRbStart'
    BY <1>3, <1>4, <2>5 DEF Phases, AtRbStart
  <2> QED
    BY <2>1, <2>2, <2>3, <2>4, <2>6, <2>7 DEF Phases
<1>8. Outlived'
  <2>1. \A m \in Names : registry'[m].round = registry[m].round
    BY <1>1 DEF SameBirth
  <2> QED
    BY <1>3, <1>4, <2>1 DEF Outlived
<1> QED
    BY <1>5, <1>6, <1>7, <1>8

\* A refused switch.
LEMMA RefuseInv ==
    ASSUME IInv, Refuse
    PROVE  IInv'
<1> USE SwitchAssumption DEF IInv
<1>2. TypeOK'
    BY DEF Answers, Refuse, TypeOK, boot, tables
<1>3. EveryLiveReachable' /\ Tables'
  <2>1. EveryLiveReachable'
      BY DEF EveryLiveReachable, Refuse, tables
  <2>2. Tables'
      BY DEF Refuse, Registered, Tables, tables
  <2> QED
      BY <2>1, <2>2
<1>4. Incarnations'
    BY DEF Incarnations, Refuse, tables
<1>5. Peers'
  <2>1. Acquainted'
      BY DEF Acquainted, Peers, Refuse, Registered, tables
  <2>2. Announced'
      BY DEF Announced, Peers, Refuse, Registered, tables
  <2>3. NoneYet'
      BY DEF NoneYet, Peers, Refuse, Registered, tables
  <2> QED
      BY <2>1, <2>2, <2>3 DEF Peers
<1>6. Phases'
  <2>1. phase' = "idle"
      BY DEF Refuse
  <2>2. NoneCreated'
      BY <2>1 DEF NoneCreated, Phases, Refuse
  <2>3. AtIdle'
      BY <2>1 DEF AtIdle, Nothing, Phases, Refuse, Registered, Settled, Started, tables
  <2> QED
      BY <2>1, <2>2, <2>3 DEF AtBoot, AtCleanup, AtCreate, AtProvision, AtRbCleanup,
             AtRbCreate, AtRbProvision, AtRbStart, AtReady, AtStart, AtStop, Back,
             InRollback, InSwitch, Phases
<1>7. Outlived'
    BY DEF Outlived, Refuse
<1> QED
    BY <1>2, <1>3, <1>4, <1>5, <1>6, <1>7 DEF IInv

\* A switch begins; what was true between switches holds of the snapshot.
LEMMA BeginInv ==
    ASSUME IInv, NEW r \in Recipes, Begin(r)
    PROVE  IInv'
<1> USE SwitchAssumption DEF IInv
<1>2. TypeOK'
  <2>1. round' \in Rounds
      BY Numbers DEF Begin, Rounds
  <2> QED
      BY <2>1 DEF Begin, Forward, TypeOK, boot, outcome, tables
<1>3. EveryLiveReachable' /\ Tables'
  <2>1. EveryLiveReachable'
      BY Numbers DEF Begin, EveryLiveReachable, tables
  <2>2. Tables'
      BY Numbers DEF Begin, Registered, Tables, tables
  <2> QED
      BY <2>1, <2>2
<1>4. Incarnations'
    BY Numbers DEF Begin, Incarnations, tables
<1>5. Peers'
  <2>1. Acquainted'
      BY Numbers DEF Acquainted, Begin, Peers, Registered, tables
  <2>2. Announced'
      BY Numbers DEF Announced, Begin, Registered, Tables, tables
  <2>3. NoneYet'
      BY Numbers DEF Begin, NoneYet, Peers, Registered, Tables, tables
  <2> QED
      BY <2>1, <2>2, <2>3 DEF Peers
<1>6. Phases'
  <2>1. phase' = "stop"
      BY DEF Begin
  <2>2. InSwitch'
      BY <2>1 DEF AtIdle, Begin, InSwitch, Nothing, Phases, Registered, Settled, Started, outcome,
         tables
  <2>3. NoneCreated'
      BY <2>1 DEF Begin, NoneCreated
  <2>4. AtStop'
      BY <2>1 DEF AtIdle, AtStop, Begin, Nothing, Phases, Registered, Settled, Started, outcome,
         tables
  <2> QED
      BY <2>1, <2>2, <2>3, <2>4 DEF AtBoot, AtCleanup, AtCreate, AtIdle, AtProvision,
             AtRbCleanup, AtRbCreate, AtRbProvision, AtRbStart, AtReady, AtStart, Back,
             InRollback, Phases
<1>7. Outlived'
    BY DEF Begin, Outlived
<1> QED
    BY <1>2, <1>3, <1>4, <1>5, <1>6, <1>7 DEF IInv

\* stop_all: everybody is dead, or the switch is given up.
LEMMA StopAllInv ==
    ASSUME IInv, StopAll
    PROVE  IInv'
<1> USE SwitchAssumption DEF IInv
<1>1. PICK spared \in Spared(Old) :
            /\ phase = "stop" /\ Stopped(Old, spared)
            /\ IF spared = {} THEN phase' = "cleanup" /\ left' = Old /\ UNCHANGED alarm
                              ELSE GiveUp /\ alarm' = spared
            /\ UNCHANGED <<boot, config, orphans, queues, incarnation, late, round, recipe,
                           snapshot, touched, created, paused, outcome>>
    BY DEF StopAll
<1>2. CASE spared = {}
  <2>1. /\ registry' \in [Names -> Process]
        /\ \A m \in Names :
              /\ SameBirth(m)
              /\ registry'[m].stage = IF m \in Old /\ Alive(m) THEN "dead"
                                       ELSE registry[m].stage
        /\ Registered' = Registered
      BY <1>1, <1>2, <1>1, <1>2, StoppedFacts DEF Alive, Registered
  <2>2. TypeOK'
      BY <1>1, <1>2, <2>1 DEF Forward, Old, TypeOK, boot, outcome
  <2>3. EveryLiveReachable' /\ Tables'
    <3>1. EveryLiveReachable'
        BY <1>1, <1>2, <2>1 DEF EveryLiveReachable
    <3>2. Tables'
        BY <1>1, <1>2, <2>1 DEF SameBirth, Tables
    <3> QED
        BY <3>1, <3>2
  <2>4. Incarnations'
      BY <1>1, <1>2, <2>1 DEF Forward, Incarnations
  <2>5. Peers'
    <3>1. UNCHANGED <<late, incarnation, queues>> /\ (round' = round \/ round' = round + 1)
        BY <1>1, <1>2 DEF boot, outcome, tables, work
    <3>2. \A m \in Names : m \in Registered' => m \in Registered /\ SameBirth(m)
        BY <1>1, <1>2, <2>1 DEF Registered, SameBirth
    <3>3. Acquainted' /\ Announced'
        BY <3>1, <3>2, PeersKept
    <3>4. NoneYet'
        BY <1>1, <1>2, <2>1, <3>2, Numbers DEF Early, NoneYet, Peers, SameBirth
    <3> QED
        BY <3>3, <3>4 DEF Peers
  <2>6. Phases'
    <3>1. phase' = "cleanup"
        BY <1>1, <1>2 DEF boot, outcome, tables, work
    <3>2. InSwitch'
        BY <1>1, <1>2, <3>1, <2>1 DEF InSwitch, Nothing, Phases, Settled, ShieldedBefore, Started,
           outcome
    <3>3. NoneCreated'
        BY <1>1, <1>2, <3>1, <2>1 DEF NoneCreated, Phases
    <3>4. AtCleanup'
        BY <1>1, <1>2, <3>1, <2>1 DEF Alive, AtCleanup, AtStop, Old, Phases, ShieldedBefore
    <3> QED
        BY <3>1, <3>2, <3>3, <3>4 DEF AtBoot, AtCreate, AtIdle, AtProvision, AtRbCleanup,
               AtRbCreate, AtRbProvision, AtRbStart, AtReady, AtStart, AtStop, Back,
               InRollback, Phases
  <2>7. Outlived'
      BY <1>1, <1>2, <2>1 DEF Outlived
  <2> QED
      BY <2>2, <2>3, <2>4, <2>5, <2>6, <2>7 DEF IInv
<1>3. CASE spared # {}
  <2>1. /\ registry' \in [Names -> Process]
        /\ \A m \in Names :
              /\ SameBirth(m)
              /\ registry'[m].stage = IF m \in Old \ spared /\ Alive(m) THEN "dead"
                                       ELSE registry[m].stage
        /\ Registered' = Registered
      BY <1>1, <1>3, <1>1, <1>3, StoppedFacts DEF Alive, Registered
  <2>2. TypeOK'
      BY <1>1, <1>3, <2>1 DEF Back, GiveUp, Spared, TypeOK, boot, outcome
  <2>3. EveryLiveReachable' /\ Tables'
    <3>1. EveryLiveReachable'
        BY <1>1, <1>3, <2>1 DEF EveryLiveReachable
    <3>2. Tables'
        BY <1>1, <1>3, <2>1 DEF SameBirth, Tables
    <3> QED
        BY <3>1, <3>2
  <2>4. Incarnations'
      BY <1>1, <1>3, <2>1 DEF Forward, Incarnations
  <2>5. Peers'
    <3>1. UNCHANGED <<late, incarnation, queues>> /\ (round' = round \/ round' = round + 1)
        BY <1>1, <1>3 DEF boot, outcome, tables, work
    <3>2. \A m \in Names : m \in Registered' => m \in Registered /\ SameBirth(m)
        BY <1>1, <1>3, <2>1 DEF Registered, SameBirth
    <3>3. Acquainted' /\ Announced'
        BY <3>1, <3>2, PeersKept
    <3>4. NoneYet'
        BY <1>1, <1>3, <2>1, <3>2, Numbers DEF Early, NoneYet, Peers, SameBirth
    <3> QED
        BY <3>3, <3>4 DEF Peers
  <2>6. Phases'
    <3>1. phase' = "rb stop"
        BY <1>1, <1>3 DEF GiveUp
    <3>2. InSwitch'
        BY <1>1, <1>3, <3>1, <2>1 DEF InSwitch, Nothing, Phases, Settled, ShieldedBefore, Started,
           outcome
    <3>3. NoneCreated'
        BY <1>1, <1>3, <3>1, <2>1 DEF NoneCreated, Phases
    <3> QED
        BY <3>1, <3>2, <3>3 DEF AtBoot, AtCleanup, AtCreate, AtIdle, AtProvision, AtRbCleanup,
           AtRbCreate, AtRbProvision, AtRbStart, AtReady, AtStart, AtStop, InRollback, Phases
  <2>7. Outlived'
      BY <1>1, <1>3, <2>1 DEF GiveUp, Outlived
  <2> QED
      BY <2>2, <2>3, <2>4, <2>5, <2>6, <2>7 DEF IInv
<1> QED
    BY <1>2, <1>3

\* cleanup: nothing is left of n.
LEMMA CleanupInv ==
    ASSUME IInv, NEW n \in Names, Cleanup(n)
    PROVE  IInv'
<1> USE SwitchAssumption DEF IInv
<1>1. /\ registry' \in [Names -> Process]
      /\ registry'[n] = Absent
      /\ \A m \in Names \ {n} : SameBirth(m) /\ registry'[m].stage = registry[m].stage
      /\ registry'[n].stage = "none"
    BY Replaced, AbsentFacts DEF Clean, Cleanup
<1>2. TypeOK'
    BY <1>1 DEF Clean, Cleanup, TypeOK, boot, work
<1>3. EveryLiveReachable' /\ Tables'
  <2>1. EveryLiveReachable'
      BY <1>1 DEF AtCleanup, Clean, Cleanup, EveryLiveReachable, Phases
  <2>2. Tables'
      BY <1>1 DEF Clean, Cleanup, Registered, Tables, TypeOK
  <2> QED
      BY <2>1, <2>2
<1>4. Incarnations'
    BY <1>1 DEF Clean, Cleanup, Incarnations
<1>5. Peers'
  <2>1. Acquainted'
      BY <1>1 DEF Acquainted, Clean, Cleanup, Peers, Registered
  <2>2. Announced'
      BY <1>1 DEF Announced, Clean, Cleanup, Peers, Registered
  <2>3. NoneYet'
      BY <1>1 DEF Cleanup, NoneYet, Peers, Registered, SameBirth
  <2> QED
      BY <2>1, <2>2, <2>3 DEF Peers
<1>6. Phases'
  <2>1. phase' = "cleanup"
      BY DEF Cleanup
  <2>2. InSwitch'
      BY <2>1, <1>1 DEF AtCleanup, Clean, Cleanup, InSwitch, Nothing, Old, Phases, Registered,
         Settled, ShieldedBefore, Started, work
  <2>3. NoneCreated'
      BY <2>1, <1>1 DEF Cleanup, NoneCreated, Phases, work
  <2>4. AtCleanup'
      BY <2>1, <1>1 DEF Alive, AtCleanup, Clean, Cleanup, Nothing, Old, Phases, Registered,
         ShieldedBefore, TypeOK, work
  <2> QED
      BY <2>1, <2>2, <2>3, <2>4 DEF AtBoot, AtCreate, AtIdle, AtProvision, AtRbCleanup,
             AtRbCreate, AtRbProvision, AtRbStart, AtReady, AtStart, AtStop, Back,
             InRollback, Phases
<1>7. Outlived'
    BY <1>1 DEF Cleanup, Outlived
<1> QED
    BY <1>2, <1>3, <1>4, <1>5, <1>6, <1>7 DEF IInv

\* provision: the next incarnation of n, with or without queues.
LEMMA ProvisionInv ==
    ASSUME IInv, NEW n \in Names, Provision(n)
    PROVE  IInv'
<1> USE SwitchAssumption DEF IInv
<1>1. Provisioned(n) /\ left' = left \ {n} /\ UNCHANGED phase
    BY DEF Provision
<1>2. /\ n \in left /\ n \notin Registered /\ incarnation[n] < round
      /\ incarnation' = [incarnation EXCEPT ![n] = incarnation[n] + 1]
      /\ \/ queues' = queues \union {n} /\ late' = late \ {n}
         \/ UNCHANGED <<queues, late>>
      /\ UNCHANGED <<registry, round, phase>> /\ left' = left \ {n}
    BY <1>1 DEF Provision, Provisioned, Phases, AtProvision, Nothing, Incarnations
<1>3. TypeOK'
  <2>1. incarnation[n] + 1 \in Rounds
      BY <1>2, Numbers DEF TypeOK, Rounds
  <2>2. incarnation' \in [Names -> Rounds]
      BY <1>2, <2>1 DEF TypeOK
  <2>3. /\ queues' \subseteq Names /\ late' \subseteq Names /\ left' \subseteq Names
        /\ touched' \subseteq Names
      BY <1>2 DEF TypeOK, Provision
  <2>4. UNCHANGED <<deps, config, orphans, recipe, snapshot, created, alarm, paused, answer,
                    excused, ghosts>>
      BY DEF Provision, boot, outcome
  <2> QED
      BY <1>2, <2>2, <2>3, <2>4 DEF TypeOK
<1>4. EveryLiveReachable' /\ Tables'
  <2>1. EveryLiveReachable'
      BY <1>1 DEF EveryLiveReachable, Provision
  <2>2. Tables'
    <3>1. UNCHANGED <<config, registry, round>> /\ queues \subseteq queues'
        BY <1>2 DEF Provision
    <3>2. \A m \in Names \ {n} : incarnation'[m] = incarnation[m]
        BY <1>2 DEF TypeOK
    <3> QED
        BY <1>2, <3>1, <3>2 DEF Registered, Tables
  <2> QED
      BY <2>1, <2>2
<1>5. Incarnations'
  <2>1. \A m \in Names : incarnation'[m] = IF m = n THEN incarnation[n] + 1 ELSE incarnation[m]
      BY <1>2 DEF TypeOK
  <2>2. ASSUME NEW m \in Names
        PROVE  incarnation'[m] <= round' /\ (m \in left' => incarnation'[m] < round')
    <3>1. incarnation[m] <= round /\ (m \in left => incarnation[m] < round)
        BY DEF Incarnations, Provision, RbProvision
    <3>2. round \in Nat /\ incarnation[m] \in Nat
        BY Numbers
    <3> QED
        BY <1>2, <2>1, <3>1, <3>2
  <2>4. phase' \notin {"stop", "cleanup", "rb cleanup"}
      BY <1>2 DEF Provision, RbProvision
  <2>5. phase' \in Forward \union {"rb stop"} => round' + 1 <= MaxRounds
      BY <1>2 DEF Incarnations
  <2> QED
      BY <2>2, <2>4, <2>5 DEF Incarnations
<1>6. Peers'
  <2>1. Registered' = Registered
      BY <1>2 DEF Registered
  <2>2. \A m \in Registered : m # n /\ (m \notin late' => m \notin late)
      BY <1>2
  <2>3. \A m \in Names \ {n} : incarnation'[m] = incarnation[m]
      BY <1>2 DEF TypeOK
  <2>4. Acquainted'
      BY <1>2, <2>1, <2>2, <2>3 DEF Peers, Acquainted
  <2>5. NoneYet'
      BY <1>2, <2>1 DEF Peers, NoneYet
  <2>6. \A m \in Registered' : registry'[m].round # round'
    <3>1. \A m \in Registered : registry[m].round < round
        BY <1>1 DEF Provision, Peers, NoneYet, Early, Registered
    <3> QED
        BY <1>2, <2>1, <3>1, Numbers DEF Registered
  <2>7. Announced'
      BY <2>6 DEF Announced
  <2> QED
      BY <2>4, <2>5, <2>7 DEF Peers
<1>7. Phases'
  <2>1. phase' = "provision"
      BY <1>1 DEF Provision
  <2>2. InSwitch'
      BY <1>1, <2>1 DEF InSwitch, Nothing, Phases, Provision, Registered, Settled, ShieldedBefore,
         Started, outcome
  <2>3. NoneCreated'
      BY <1>1, <2>1 DEF NoneCreated, Phases, Provision
  <2>4. AtProvision'
      BY <1>1, <2>1 DEF AtProvision, New, Nothing, Old, Phases, Provision, Registered,
         ShieldedBefore
  <2> QED
      BY <2>1, <2>2, <2>3, <2>4 DEF AtBoot, AtCleanup, AtCreate, AtIdle, AtRbCleanup,
             AtRbCreate, AtRbProvision, AtRbStart, AtReady, AtStart, AtStop, Back,
             InRollback, Phases
<1>8. Outlived'
    BY <1>1 DEF Outlived, Provision
<1> QED
    BY <1>3, <1>4, <1>5, <1>6, <1>7, <1>8 DEF IInv

\* create: the object of n and its config, or the switch is given up.
LEMMA CreateInv ==
    ASSUME IInv, NEW n \in Names, Create(n)
    PROVE  IInv'
<1> USE SwitchAssumption DEF IInv
<1>1. CASE Made(n, "new") /\ config' = [config EXCEPT ![n] = recipe]
           /\ left' = left \ {n} /\ UNCHANGED phase
  <2>1. /\ registry' \in [Names -> Process]
        /\ registry'[n] = Object(n, "new")
        /\ \A m \in Names \ {n} : SameBirth(m) /\ registry'[m].stage = registry[m].stage
        /\ registry'[n].stage = "new" /\ registry'[n].born = incarnation[n]
        /\ registry'[n].round = round
        /\ \A m \in queues \union {n} : registry'[n].peers[m] = incarnation[m]
      BY <1>1, Replaced, ObjectFacts DEF AtCreate, Create, Made, Nothing, Phases
  <2>2. TypeOK'
    <3>1. /\ left' \subseteq Names /\ orphans' \subseteq Names
          /\ queues' \subseteq Names /\ late' \subseteq Names
          /\ config' \in [Names -> Recipes \union {NoConfig}]
        BY <1>1 DEF Made, TypeOK
    <3>2. UNCHANGED <<phase, boot, incarnation, round, work, paused, outcome>>
        BY <1>1 DEF Create, boot, outcome, work
    <3> QED
        BY <2>1, <3>1, <3>2 DEF TypeOK, boot, outcome, work
  <2>3. EveryLiveReachable' /\ Tables'
    <3>1. EveryLiveReachable'
        BY <1>1, <2>1 DEF AtCreate, Create, EveryLiveReachable, Made, Nothing, Phases
    <3>2. Tables'
        BY <1>1, <2>1 DEF Create, Made, Registered, Rounds, SameBirth, Tables, TypeOK
    <3> QED
        BY <3>1, <3>2
  <2>4. Incarnations'
      BY <1>1, <2>1 DEF Create, Incarnations
  <2>5. Peers'
    <3>1. Acquainted'
      <4> SUFFICES ASSUME NEW k \in Names, NEW l \in Names, k \in Registered', l \in Registered',
                          registry'[k].round >= registry'[l].round, l \notin late'
                   PROVE  registry'[k].peers[l] = incarnation'[l]
        BY DEF Acquainted
      <4>1. CASE k = n
          BY <1>1, <2>1, <4>1, Numbers DEF Create, Registered, Tables
      <4>2. CASE k # n /\ l = n
        <5>1. k \in Registered /\ SameBirth(k)
            BY <2>1, <4>2 DEF Registered
        <5>2. registry[k].round = round
          <6>1. registry'[k].round = registry[k].round /\ registry[k].round <= round
              BY <5>1 DEF SameBirth, Tables
          <6>2. registry'[k].round >= round
              BY <2>1, <4>2
          <6> QED
              BY <6>1, <6>2, Numbers
        <5>3. n \in queues /\ n \notin late /\ incarnation' = incarnation
            BY <1>1, <4>2 DEF Create, Made
        <5> QED
            BY <4>2, <5>1, <5>2, <5>3 DEF Announced, Peers, SameBirth
      <4>3. CASE k # n /\ l # n
          BY <1>1, <2>1, <4>3, Numbers DEF Acquainted, Create, Made, Peers, Registered
      <4> QED
          BY <4>1, <4>2, <4>3
    <3>2. Announced'
        BY <1>1, <2>1 DEF Announced, Create, Made, Peers, Registered, SameBirth
    <3>3. NoneYet'
        BY <1>1, <2>1 DEF Create, Early, NoneYet
    <3> QED
        BY <3>1, <3>2, <3>3 DEF Peers
  <2>6. Phases'
    <3>1. phase' = "create"
        BY <1>1 DEF Create
    <3>2. InSwitch'
        BY <1>1, <3>1, <2>1 DEF AtCreate, Create, InSwitch, Nothing, Phases, Registered, Settled,
           ShieldedBefore, Started, outcome, work
    <3>3. NoneCreated'
        BY <1>1, <3>1, <2>1 DEF Create, NoneCreated, Phases, work
    <3>4. AtCreate'
        BY <1>1, <3>1, <2>1 DEF AtCreate, Create, New, Nothing, Old, Phases, Registered,
           ShieldedBefore, TypeOK, work
    <3> QED
        BY <3>1, <3>2, <3>3, <3>4 DEF AtBoot, AtCleanup, AtIdle, AtProvision, AtRbCleanup,
               AtRbCreate, AtRbProvision, AtRbStart, AtReady, AtStart, AtStop, Back,
               InRollback, Phases
  <2>7. Outlived'
      BY <1>1, <2>1 DEF Create, Outlived
  <2> QED
      BY <2>2, <2>3, <2>4, <2>5, <2>6, <2>7 DEF IInv
<1>2. CASE GiveUp /\ UNCHANGED <<registry, orphans, config, queues, late>>
  <2>2. TypeOK'
      BY <1>2 DEF Back, Create, GiveUp, TypeOK, boot, outcome, work
  <2>3. EveryLiveReachable' /\ Tables'
    <3>1. EveryLiveReachable'
        BY <1>2 DEF EveryLiveReachable
    <3>2. Tables'
        BY <1>2 DEF Create, Registered, Tables
    <3> QED
        BY <3>1, <3>2
  <2>4. Incarnations'
      BY <1>2 DEF Create, Forward, GiveUp, Incarnations
  <2>5. Peers'
      BY <1>2 DEF Acquainted, Announced, Create, Early, GiveUp, NoneYet, Peers, Registered
  <2>6. Phases'
    <3>1. phase' = "rb stop"
        BY <1>2 DEF GiveUp
    <3>2. InSwitch'
        BY <1>2, <3>1 DEF Create, InSwitch, Nothing, Phases, Registered, Settled, ShieldedBefore,
           Started, outcome, work
    <3>3. NoneCreated'
        BY <1>2, <3>1 DEF Create, NoneCreated, Phases, work
    <3> QED
        BY <3>1, <3>2, <3>3 DEF AtBoot, AtCleanup, AtCreate, AtIdle, AtProvision, AtRbCleanup,
           AtRbCreate, AtRbProvision, AtRbStart, AtReady, AtStart, AtStop, InRollback, Phases
  <2>7. Outlived'
      BY <1>2 DEF GiveUp, Outlived
  <2> QED
      BY <2>2, <2>3, <2>4, <2>5, <2>6, <2>7 DEF IInv
<1> QED
    BY <1>1, <1>2 DEF Create

\* start: n runs, or the switch is given up.
LEMMA StartInv ==
    ASSUME IInv, NEW n \in Names, Start(n)
    PROVE  IInv'
<1> USE SwitchAssumption DEF IInv
<1>1. CASE Launched(n) /\ left' = left \ {n} /\ UNCHANGED phase
  <2>0. n \in Registered
      BY <1>1 DEF AtStart, Phases, Start
  <2>1. /\ registry' \in [Names -> Process]
        /\ \A m \in Names :
              /\ SameBirth(m)
              /\ registry'[m].stage = IF m = n THEN "alive" ELSE registry[m].stage
        /\ Registered' = Registered
    <3>1. /\ registry' \in [Names -> Process]
          /\ \A m \in Names :
                /\ SameBirth(m)
                /\ registry'[m].stage = IF m = n THEN "alive" ELSE registry[m].stage
        BY <1>1, Restaged DEF Launched, Stages
    <3>2. Registered' = Registered
        BY <2>0, <3>1 DEF Registered
    <3> QED
        BY <3>1, <3>2
  <2>2. TypeOK'
      BY <1>1, <2>1, <2>0 DEF Start, TypeOK, boot, outcome, work
  <2>3. EveryLiveReachable' /\ Tables'
    <3>1. EveryLiveReachable'
        BY <1>1, <2>1, <2>0 DEF EveryLiveReachable, Start
    <3>2. Tables'
        BY <1>1, <2>1, <2>0 DEF SameBirth, Start, Tables
    <3> QED
        BY <3>1, <3>2
  <2>4. Incarnations'
      BY <1>1, <2>1, <2>0 DEF Incarnations, Start
  <2>5. Peers'
    <3>1. UNCHANGED <<late, incarnation, queues>> /\ (round' = round \/ round' = round + 1)
        BY <1>1 DEF Start
    <3>2. \A m \in Names : m \in Registered' => m \in Registered /\ SameBirth(m)
        BY <1>1, <2>1, <2>0 DEF Registered, SameBirth
    <3>3. Acquainted' /\ Announced'
        BY <3>1, <3>2, PeersKept
    <3>4. NoneYet'
        BY <1>1, <2>1, <2>0, <3>2, Numbers DEF NoneYet, Peers, SameBirth, Start
    <3> QED
        BY <3>3, <3>4 DEF Peers
  <2>6. Phases'
    <3>1. phase' = "start"
        BY <1>1 DEF Start
    <3>2. InSwitch'
        BY <1>1, <3>1, <2>1, <2>0 DEF InSwitch, Nothing, Phases, Settled, ShieldedBefore, Start,
           Started, outcome, work
    <3>3. NoneCreated'
        BY <1>1, <3>1, <2>1, <2>0 DEF NoneCreated, Phases, Start, work
    <3>4. AtStart'
        BY <1>1, <3>1, <2>1, <2>0 DEF AtStart, New, Nothing, Old, Phases, ShieldedBefore, Start,
           TypeOK, work
    <3> QED
        BY <3>1, <3>2, <3>3, <3>4 DEF AtBoot, AtCleanup, AtCreate, AtIdle, AtProvision,
               AtRbCleanup, AtRbCreate, AtRbProvision, AtRbStart, AtReady, AtStop, Back,
               InRollback, Phases
  <2>7. Outlived'
      BY <1>1, <2>1, <2>0 DEF Outlived, Start
  <2> QED
      BY <2>2, <2>3, <2>4, <2>5, <2>6, <2>7 DEF IInv
<1>2. CASE GiveUp /\ UNCHANGED registry
  <2>2. TypeOK'
      BY <1>2 DEF Back, GiveUp, Start, TypeOK, boot, outcome, work
  <2>3. EveryLiveReachable' /\ Tables'
    <3>1. EveryLiveReachable'
        BY <1>2 DEF EveryLiveReachable, Start
    <3>2. Tables'
        BY <1>2 DEF Registered, Start, Tables
    <3> QED
        BY <3>1, <3>2
  <2>4. Incarnations'
      BY <1>2 DEF Forward, GiveUp, Incarnations, Start
  <2>5. Peers'
      BY <1>2 DEF Acquainted, Announced, Early, GiveUp, NoneYet, Peers, Registered, Start
  <2>6. Phases'
    <3>1. phase' = "rb stop"
        BY <1>2 DEF GiveUp
    <3>2. InSwitch'
        BY <1>2, <3>1 DEF InSwitch, Nothing, Phases, Registered, Settled, ShieldedBefore, Start,
           Started, outcome, work
    <3>3. NoneCreated'
        BY <1>2, <3>1 DEF NoneCreated, Phases, Start, work
    <3> QED
        BY <3>1, <3>2, <3>3 DEF AtBoot, AtCleanup, AtCreate, AtIdle, AtProvision, AtRbCleanup,
           AtRbCreate, AtRbProvision, AtRbStart, AtReady, AtStart, AtStop, InRollback, Phases
  <2>7. Outlived'
      BY <1>2 DEF GiveUp, Outlived
  <2> QED
      BY <2>2, <2>3, <2>4, <2>5, <2>6, <2>7 DEF IInv
<1> QED
    BY <1>1, <1>2 DEF Start

\* The next phase of the command list.
LEMMA NextPhaseInv ==
    ASSUME IInv, NextPhase
    PROVE  IInv'
<1> USE SwitchAssumption DEF IInv
<1>1. CASE phase = "cleanup"
  <2>2. TypeOK'
      BY <1>1, Sets DEF Forward, Follow, NextPhase, TypeOK, boot, outcome, tables, work
  <2>3. EveryLiveReachable' /\ Tables'
    <3>1. EveryLiveReachable'
        BY <1>1 DEF EveryLiveReachable, NextPhase, tables
    <3>2. Tables'
        BY <1>1 DEF NextPhase, Registered, Tables, tables
    <3> QED
        BY <3>1, <3>2
  <2>4. Incarnations'
      BY <1>1 DEF Forward, Incarnations, NextPhase, tables
  <2>5. Peers'
    <3>1. Acquainted'
        BY <1>1 DEF Acquainted, NextPhase, Peers, Registered, tables
    <3>2. Announced'
        BY <1>1 DEF Announced, NextPhase, Peers, Registered, tables
    <3>3. NoneYet'
        BY <1>1 DEF Early, NextPhase, NoneYet, Peers, Registered, tables
    <3> QED
        BY <3>1, <3>2, <3>3 DEF Peers
  <2>6. Phases'
    <3>1. phase' = "provision"
        BY <1>1 DEF Follow, NextPhase
    <3>2. InSwitch'
        BY <1>1, <3>1 DEF InSwitch, NextPhase, Nothing, Phases, Registered, Settled, ShieldedBefore,
           Started, outcome, tables, work
    <3>3. NoneCreated'
        BY <1>1, <3>1 DEF NextPhase, NoneCreated, Phases, work
    <3>4. AtProvision'
        BY <1>1, <3>1 DEF AtCleanup, AtProvision, InSwitch, New, NextPhase, Nothing, Old, Phases,
           Registered, ShieldedBefore, TypeOK, tables, work
    <3> QED
        BY <3>1, <3>2, <3>3, <3>4 DEF AtBoot, AtCleanup, AtCreate, AtIdle, AtRbCleanup,
               AtRbCreate, AtRbProvision, AtRbStart, AtReady, AtStart, AtStop, Back,
               InRollback, Phases
  <2>7. Outlived'
      BY <1>1 DEF Follow, NextPhase, Outlived
  <2> QED
      BY <2>2, <2>3, <2>4, <2>5, <2>6, <2>7 DEF IInv
<1>2. CASE phase = "provision"
  <2>2. TypeOK'
      BY <1>2, Sets DEF Forward, Follow, NextPhase, TypeOK, boot, outcome, tables, work
  <2>3. EveryLiveReachable' /\ Tables'
    <3>1. EveryLiveReachable'
        BY <1>2 DEF EveryLiveReachable, NextPhase, tables
    <3>2. Tables'
        BY <1>2 DEF NextPhase, Registered, Tables, tables
    <3> QED
        BY <3>1, <3>2
  <2>4. Incarnations'
      BY <1>2 DEF Follow, Forward, Incarnations, NextPhase, tables
  <2>5. Peers'
    <3>1. Acquainted'
        BY <1>2 DEF Acquainted, NextPhase, Peers, Registered, tables
    <3>2. Announced'
        BY <1>2 DEF Announced, NextPhase, Peers, Registered, tables
    <3>3. NoneYet'
        BY <1>2 DEF Early, NextPhase, NoneYet, Peers, Registered, tables
    <3> QED
        BY <3>1, <3>2, <3>3 DEF Peers
  <2>6. Phases'
    <3>1. phase' = "create"
        BY <1>2 DEF Follow, NextPhase
    <3>2. InSwitch'
        BY <1>2, <3>1 DEF InSwitch, NextPhase, Nothing, Phases, Registered, Settled, ShieldedBefore,
           Started, outcome, tables, work
    <3>3. NoneCreated'
        BY <1>2, <3>1 DEF NextPhase, NoneCreated, Phases, work
    <3>4. AtCreate'
        BY <1>2, <3>1 DEF AtCreate, AtProvision, New, NextPhase, Nothing, Old, Phases, Registered,
           ShieldedBefore, tables, work
    <3> QED
        BY <3>1, <3>2, <3>3, <3>4 DEF AtBoot, AtCleanup, AtIdle, AtProvision, AtRbCleanup,
               AtRbCreate, AtRbProvision, AtRbStart, AtReady, AtStart, AtStop, Back,
               InRollback, Phases
  <2>7. Outlived'
      BY <1>2 DEF Follow, NextPhase, Outlived
  <2> QED
      BY <2>2, <2>3, <2>4, <2>5, <2>6, <2>7 DEF IInv
<1>3. CASE phase = "create"
  <2>2. TypeOK'
      BY <1>3, Sets DEF Forward, Follow, NextPhase, TypeOK, boot, outcome, tables, work
  <2>3. EveryLiveReachable' /\ Tables'
    <3>1. EveryLiveReachable'
        BY <1>3 DEF EveryLiveReachable, NextPhase, tables
    <3>2. Tables'
        BY <1>3 DEF NextPhase, Registered, Tables, tables
    <3> QED
        BY <3>1, <3>2
  <2>4. Incarnations'
      BY <1>3 DEF Follow, Forward, Incarnations, NextPhase, tables
  <2>5. Peers'
      BY <1>3 DEF Acquainted, Announced, Early, Follow, NextPhase, NoneYet, Peers, Registered,
         tables
  <2>6. Phases'
    <3>1. phase' = "start"
        BY <1>3 DEF Follow, NextPhase
    <3>2. InSwitch'
        BY <1>3, <3>1 DEF InSwitch, NextPhase, Nothing, Phases, Registered, Settled, ShieldedBefore,
           Started, outcome, tables, work
    <3>3. NoneCreated'
        BY <1>3, <3>1 DEF NextPhase, NoneCreated, Phases, work
    <3>4. AtStart'
        BY <1>3, <3>1 DEF AtCreate, AtStart, New, NextPhase, Nothing, Old, Phases, Registered,
           ShieldedBefore, TypeOK, tables, work
    <3> QED
        BY <3>1, <3>2, <3>3, <3>4 DEF AtBoot, AtCleanup, AtCreate, AtIdle, AtProvision,
               AtRbCleanup, AtRbCreate, AtRbProvision, AtRbStart, AtReady, AtStop, Back,
               InRollback, Phases
  <2>7. Outlived'
      BY <1>3 DEF Follow, NextPhase, Outlived
  <2> QED
      BY <2>2, <2>3, <2>4, <2>5, <2>6, <2>7 DEF IInv
<1>4. CASE phase = "start"
  <2>2. TypeOK'
      BY <1>4, Sets DEF Forward, Follow, NextPhase, TypeOK, boot, outcome, tables, work
  <2>3. EveryLiveReachable' /\ Tables'
    <3>1. EveryLiveReachable'
        BY <1>4 DEF EveryLiveReachable, NextPhase, tables
    <3>2. Tables'
        BY <1>4 DEF NextPhase, Registered, Tables, tables
    <3> QED
        BY <3>1, <3>2
  <2>4. Incarnations'
      BY <1>4 DEF Follow, Forward, Incarnations, NextPhase, tables
  <2>5. Peers'
      BY <1>4 DEF Acquainted, Announced, Early, Follow, NextPhase, NoneYet, Peers, Registered,
         tables
  <2>6. Phases'
    <3>1. phase' = "ready"
        BY <1>4 DEF Follow, NextPhase
    <3>2. InSwitch'
        BY <1>4, <3>1 DEF InSwitch, NextPhase, Nothing, Phases, Registered, Settled, ShieldedBefore,
           Started, outcome, tables, work
    <3>3. NoneCreated'
        BY <1>4, <3>1 DEF NextPhase, NoneCreated, Phases, work
    <3>4. AtReady'
        BY <1>4, <3>1 DEF Process, Stages, AtReady, AtStart, New, NextPhase, Nothing, Old, Phases,
           Registered, ShieldedBefore, TypeOK, tables, work
    <3> QED
        BY <3>1, <3>2, <3>3, <3>4 DEF AtBoot, AtCleanup, AtCreate, AtIdle, AtProvision,
               AtRbCleanup, AtRbCreate, AtRbProvision, AtRbStart, AtStart, AtStop, Back,
               InRollback, Phases
  <2>7. Outlived'
      BY <1>4 DEF Follow, NextPhase, Outlived
  <2> QED
      BY <2>2, <2>3, <2>4, <2>5, <2>6, <2>7 DEF IInv
<1> QED
    BY <1>1, <1>2, <1>3, <1>4 DEF NextPhase, Follow

\* The switch succeeded.
LEMMA CommitInv ==
    ASSUME IInv, Commit
    PROVE  IInv'
<1> USE SwitchAssumption DEF IInv
<1>2. TypeOK'
    BY DEF Answers, Commit, Return, TypeOK, boot, tables
<1>3. EveryLiveReachable' /\ Tables'
  <2>1. EveryLiveReachable'
      BY DEF Commit, EveryLiveReachable, tables
  <2>2. Tables'
      BY DEF Commit, Registered, Tables, tables
  <2> QED
      BY <2>1, <2>2
<1>4. Incarnations'
    BY DEF Commit, Forward, Incarnations, Return, tables
<1>5. Peers'
  <2>1. Acquainted'
      BY DEF Acquainted, Commit, Peers, Registered, tables
  <2>2. Announced'
      BY DEF Announced, Commit, Peers, Registered, tables
  <2>3. NoneYet'
      BY DEF Commit, Early, NoneYet, Return
  <2> QED
      BY <2>1, <2>2, <2>3 DEF Peers
<1>6. Phases'
  <2>1. phase' = "idle"
      BY DEF Commit, Return
  <2>2. NoneCreated'
      BY <2>1 DEF Commit, NoneCreated, Return
  <2>3. AtIdle'
      BY <2>1 DEF AtIdle, AtReady, Commit, InSwitch, Nothing, Old, Phases, Registered, Return,
         Settled, Started, TypeOK, tables
  <2> QED
      BY <2>1, <2>2, <2>3 DEF AtBoot, AtCleanup, AtCreate, AtProvision, AtRbCleanup,
             AtRbCreate, AtRbProvision, AtRbStart, AtReady, AtStart, AtStop, Back,
             InRollback, InSwitch, Phases
<1>7. Outlived'
    BY DEF Commit, Outlived
<1> QED
    BY <1>2, <1>3, <1>4, <1>5, <1>6, <1>7 DEF IInv

\* An exception after the last command.
LEMMA RaiseInv ==
    ASSUME IInv, Raise
    PROVE  IInv'
<1> USE SwitchAssumption DEF IInv
<1>2. TypeOK'
    BY DEF Back, GiveUp, Raise, TypeOK, boot, outcome, tables
<1>3. EveryLiveReachable' /\ Tables'
  <2>1. EveryLiveReachable'
      BY DEF EveryLiveReachable, Raise, tables
  <2>2. Tables'
      BY DEF Raise, Registered, Tables, tables
  <2> QED
      BY <2>1, <2>2
<1>4. Incarnations'
    BY DEF Forward, GiveUp, Incarnations, Raise, tables
<1>5. Peers'
    BY DEF Acquainted, Announced, Early, GiveUp, NoneYet, Peers, Raise, Registered, tables
<1>6. Phases'
  <2>1. phase' = "rb stop"
      BY DEF GiveUp, Raise
  <2>2. InSwitch'
      BY <2>1 DEF AtReady, InSwitch, New, Nothing, Phases, Raise, Registered, Settled,
         ShieldedBefore, Started, outcome, tables
  <2>3. NoneCreated'
      BY <2>1 DEF NoneCreated, Phases, Raise
  <2> QED
      BY <2>1, <2>2, <2>3 DEF AtBoot, AtCleanup, AtCreate, AtIdle, AtProvision, AtRbCleanup,
         AtRbCreate, AtRbProvision, AtRbStart, AtReady, AtStart, AtStop, InRollback, Phases
<1>7. Outlived'
    BY DEF GiveUp, Outlived, Raise
<1> QED
    BY <1>2, <1>3, <1>4, <1>5, <1>6, <1>7 DEF IInv

\* The rollback stops what it can: the rest stays and is excused.
LEMMA RbStopInv ==
    ASSUME IInv, RbStop
    PROVE  IInv'
<1> USE SwitchAssumption DEF IInv
<1>1. PICK spared :
            /\ spared \in Spared(Victims) /\ phase = "rb stop" /\ Stopped(Victims, spared)
            /\ left' = Victims \ spared
            /\ alarm' = IF spared = {} THEN alarm ELSE spared
            /\ excused' = spared \union Adopted
            /\ phase' = "rb cleanup" /\ round' = round + 1
            /\ ghosts' = ghosts \union {n \in Adopted : ~Alive(n)}
            /\ UNCHANGED <<boot, config, orphans, queues, incarnation, late, recipe, snapshot,
                           touched, created, paused, answer>>
    BY DEF RbStop, Victims
<1>2. /\ registry' \in [Names -> Process]
      /\ \A m \in Names :
            /\ SameBirth(m)
            /\ registry'[m].stage = IF m \in Victims \ spared /\ Alive(m) THEN "dead"
                                     ELSE registry[m].stage
      /\ Registered' = Registered
    BY <1>1, StoppedFacts DEF Alive, Registered
<1>3. TypeOK'
  <2>1. spared \subseteq Names
      BY <1>1 DEF Spared, TypeOK
  <2>2. /\ left' \subseteq Names /\ alarm' \subseteq Names /\ excused' \subseteq Names
        /\ ghosts' \subseteq Names
    <3>1. alarm \subseteq Names /\ ghosts \subseteq Names
        BY DEF TypeOK
    <3> QED
        BY <1>1, <2>1, <3>1, Sets
  <2>3. round' \in Rounds
    <3>1. round' = round + 1 /\ round + 1 <= MaxRounds
        BY <1>1 DEF Incarnations
    <3> QED
        BY <3>1, Numbers DEF Rounds
  <2>4. phase' \in {"boot", "idle"} \union Forward \union Back
      BY <1>1 DEF Back
  <2>5. UNCHANGED <<deps, config, orphans, queues, incarnation, late, recipe, snapshot, touched,
                    created, paused, answer>>
      BY <1>1 DEF boot
  <2> QED
      BY <1>2, <2>2, <2>3, <2>4, <2>5 DEF TypeOK
<1>4. EveryLiveReachable' /\ Tables'
  <2>1. EveryLiveReachable'
      BY <1>1, <1>2 DEF EveryLiveReachable
  <2>2. ASSUME NEW m \in Registered' PROVE registry'[m].round <= round'
    <3>1. m \in Names /\ m \in Registered /\ SameBirth(m)
        BY <1>2 DEF Registered
    <3>2. registry'[m].round = registry[m].round /\ registry[m].round <= round
        BY <3>1 DEF SameBirth, Tables
    <3>3. round' = round + 1
        BY <1>1
    <3> QED
        BY <3>1, <3>2, <3>3, Numbers
  <2>3. UNCHANGED <<config, queues, incarnation>>
      BY <1>1
  <2>4. Tables'
      BY <1>2, <2>2, <2>3 DEF SameBirth, Tables
  <2> QED
      BY <2>1, <2>4
<1>5. Incarnations'
  <2>1. round' = round + 1 /\ UNCHANGED incarnation
      BY <1>1
  <2>2. ASSUME NEW m \in Names PROVE incarnation'[m] < round' /\ incarnation'[m] <= round'
    <3>1. incarnation[m] <= round
        BY DEF Incarnations
    <3>2. round \in Nat /\ incarnation[m] \in Nat
        BY Numbers
    <3> QED
        BY <2>1, <3>1, <3>2
  <2>3. phase' = "rb cleanup"
      BY <1>1
  <2> QED
      BY <2>2, <2>3 DEF Forward, Incarnations
<1>6. Peers'
  <2>1. UNCHANGED <<late, incarnation, queues>> /\ (round' = round \/ round' = round + 1)
      BY <1>1 DEF boot, outcome, tables, work
  <2>2. \A m \in Names : m \in Registered' => m \in Registered /\ SameBirth(m)
      BY <1>1, <1>2 DEF Registered, SameBirth
  <2>3. Acquainted' /\ Announced'
      BY <2>1, <2>2, PeersKept
  <2>4. ASSUME NEW m \in Names, m \in Registered' PROVE registry'[m].round < round'
    <3>1. registry'[m].round = registry[m].round /\ registry[m].round <= round
        BY <2>2, <2>4 DEF SameBirth, Tables
    <3>2. round' = round + 1
        BY <1>1
    <3> QED
        BY <2>4, <3>1, <3>2, Numbers
  <2>5. NoneYet'
      BY <2>4 DEF NoneYet
  <2> QED
      BY <2>3, <2>5 DEF Peers
<1>7. Phases'
  <2>1. /\ UNCHANGED <<config, snapshot, touched, created, recipe>> /\ InSwitch
        /\ created = {}
      BY <1>1 DEF Phases, NoneCreated, tables
  <2>2. /\ Old' = Old /\ ShieldedBefore' = ShieldedBefore
        /\ Adopted' = Adopted /\ Victims' = Victims
      BY <2>1, VictimsKept
  <2>3. \A m \in Names : /\ Nothing(m)' <=> Nothing(m)
                         /\ Started(m) => Started(m)'
                         /\ Settled(m) => Settled(m)'
      BY <1>1, <1>2, <2>1 DEF Nothing, Started, Settled, Alive
  <2>4. InSwitch'
      BY <1>1, <2>1, <2>2, <2>3 DEF InSwitch
  <2>5. spared \subseteq Victims /\ \A m \in spared : Alive(m)
      BY <1>1 DEF Spared
  <2>6. ASSUME NEW m \in spared PROVE Survivor(m)'
    <3>1. m \in Names /\ m \in excused' /\ m \in alarm'
        BY <1>1, <2>5, Sets
    <3>2. config'[m] # NoConfig /\ registry'[m].stage = "alive"
        BY <1>2, <2>1, <2>5, <3>1 DEF Tables, Registered, Alive
    <3> QED
        BY <3>1, <3>2 DEF Survivor, Started
  <2>7. \A m \in Victims \ spared : ~Alive(m)'
      BY <1>2, Sets DEF Alive
  <2>8. AtRbCleanup'
      BY <1>1, <2>2, <2>6, <2>7 DEF AtRbCleanup
  <2>9. ASSUME NEW m \in Adopted PROVE m \in excused' /\ Started(m)'
    <3>1. m \in Names /\ m \notin Victims /\ config[m] # NoConfig
        BY Sets DEF Adopted, Victims, PartialNew, Protected
    <3>2. Alive(m) => registry'[m].stage = "alive"
        BY <1>2, <3>1 DEF Alive
    <3> QED
        BY <1>1, <2>1, <3>1, <3>2 DEF Started
  <2>10. InRollback'
      BY <2>2, <2>9 DEF InRollback
  <2> QED
      BY <1>1, <2>1, <2>4, <2>8, <2>10
         DEF Phases, AtBoot, AtIdle, NoneCreated, AtStop, AtCleanup, AtProvision, AtCreate,
             AtStart, AtReady, AtRbProvision, AtRbCreate, AtRbStart
<1>8. Outlived'
    BY <1>1, <1>2 DEF Outlived
<1> QED
    BY <1>3, <1>4, <1>5, <1>6, <1>7, <1>8 DEF IInv

\* The rollback cleans up: nothing is left of n.
LEMMA RbCleanupInv ==
    ASSUME IInv, NEW n \in Names, RbCleanup(n)
    PROVE  IInv'
<1> USE SwitchAssumption DEF IInv
<1>1. /\ registry' \in [Names -> Process]
      /\ registry'[n] = Absent
      /\ \A m \in Names \ {n} : SameBirth(m) /\ registry'[m].stage = registry[m].stage
      /\ registry'[n].stage = "none"
    BY Replaced, AbsentFacts DEF Clean, RbCleanup
<1>2. TypeOK'
    BY <1>1 DEF Clean, RbCleanup, TypeOK, boot, work
<1>3. EveryLiveReachable' /\ Tables'
  <2>1. EveryLiveReachable'
      BY <1>1 DEF AtRbCleanup, Clean, EveryLiveReachable, Phases, RbCleanup
  <2>2. Tables'
    <3>1. /\ config' = [config EXCEPT ![n] = NoConfig] /\ queues' = queues \ {n}
          /\ UNCHANGED <<incarnation, round>>
        BY DEF Clean, RbCleanup
    <3>2. \A m \in Names \ {n} : config'[m] = config[m] /\ (m \in Registered' => m \in Registered)
        BY <1>1, <3>1 DEF Registered, TypeOK
    <3>3. config'[n] = NoConfig /\ n \notin Registered'
        BY <1>1, <3>1 DEF Registered, TypeOK
    <3> QED
        BY <1>1, <3>1, <3>2, <3>3 DEF Tables, SameBirth
  <2> QED
      BY <2>1, <2>2
<1>4. Incarnations'
    BY <1>1 DEF Clean, Incarnations, RbCleanup
<1>5. Peers'
  <2>1. /\ queues' = queues \ {n} /\ late' = late \ {n} /\ UNCHANGED <<incarnation, round>>
        /\ \A m \in Names : m \in Registered' => m # n /\ m \in Registered /\ SameBirth(m)
      BY <1>1 DEF Clean, RbCleanup, Registered
  <2>2. Acquainted' /\ Announced'
      BY <2>1 DEF Peers, Acquainted, Announced, SameBirth
  <2>3. NoneYet'
      BY <2>1 DEF Peers, NoneYet, RbCleanup, SameBirth
  <2> QED
      BY <2>2, <2>3 DEF Peers
<1>6. Phases'
  <2>1. /\ phase = "rb cleanup" /\ phase' = phase /\ n \in left /\ left' = left \ {n}
        /\ config' = [config EXCEPT ![n] = NoConfig] /\ ghosts' = ghosts \ {n}
        /\ UNCHANGED <<alarm, excused, round, snapshot, touched, created>>
      BY DEF Clean, RbCleanup, work
  <2>2. n \in Victims /\ left \subseteq Victims /\ InSwitch /\ InRollback /\ AtRbCleanup
      BY <2>1 DEF Phases, AtRbCleanup
  <2>3. /\ Nothing(n)'
        /\ \A m \in Names \ {n} : config'[m] = config[m]
      BY <1>1, <2>1 DEF Nothing, Registered, TypeOK
  <2>4. \A m \in Names \ {n} : /\ Nothing(m)' <=> Nothing(m)
                               /\ Started(m) => Started(m)'
                               /\ Settled(m) => Settled(m)'
                               /\ Survivor(m) => Survivor(m)'
      BY <1>1, <2>1, <2>3, NameKept
  <2>5. config'[n] = NoConfig
      BY <2>1 DEF TypeOK
  <2>6. /\ Old' = Old /\ ShieldedBefore' = ShieldedBefore
        /\ Adopted' = Adopted /\ Victims' = Victims
      BY <2>1, <2>2, <2>3, <2>5, VictimsKept
  <2>7. n \notin ShieldedBefore /\ n \notin Adopted
      BY <2>1, <2>2 DEF Victims, PartialNew, Old, Adopted, InSwitch, Protected, ShieldedBefore
  <2>8. InSwitch'
      BY <2>1, <2>2, <2>3, <2>4, <2>6, <2>7 DEF InSwitch
  <2>9. InRollback'
      BY <2>1, <2>2, <2>4, <2>6, <2>7, Sets DEF InRollback
  <2>10. AtRbCleanup'
    <3>1. \A m \in Names \ {n} : Alive(m)' <=> Alive(m)
        BY <1>1 DEF Alive
    <3> QED
        BY <2>1, <2>2, <2>3, <2>4, <2>6, <3>1, Sets DEF AtRbCleanup
  <2>11. NoneCreated'
      BY <2>1 DEF Phases, NoneCreated
  <2> QED
      BY <2>1, <2>8, <2>9, <2>10, <2>11
         DEF Phases, AtBoot, AtIdle, AtStop, AtCleanup, AtProvision, AtCreate, AtStart,
             AtReady, AtRbProvision, AtRbCreate, AtRbStart
<1>7. Outlived'
    BY <1>1 DEF Outlived, RbCleanup
<1> QED
    BY <1>2, <1>3, <1>4, <1>5, <1>6, <1>7 DEF IInv

\* The rollback provisions n.
LEMMA RbProvisionInv ==
    ASSUME IInv, NEW n \in Names, RbProvision(n)
    PROVE  IInv'
<1> USE SwitchAssumption DEF IInv
<1>1. Provisioned(n) /\ left' = left \ {n} /\ UNCHANGED phase
    BY DEF RbProvision
<1>2. /\ n \in left /\ n \notin Registered /\ incarnation[n] < round
      /\ incarnation' = [incarnation EXCEPT ![n] = incarnation[n] + 1]
      /\ \/ queues' = queues \union {n} /\ late' = late \ {n}
         \/ UNCHANGED <<queues, late>>
      /\ UNCHANGED <<registry, round, phase>> /\ left' = left \ {n}
    BY <1>1 DEF RbProvision, Provisioned, Phases, AtRbProvision, Nothing, Incarnations
<1>3. TypeOK'
  <2>1. incarnation[n] + 1 \in Rounds
      BY <1>2, Numbers DEF TypeOK, Rounds
  <2>2. incarnation' \in [Names -> Rounds]
      BY <1>2, <2>1 DEF TypeOK
  <2>3. queues' \subseteq Names /\ late' \subseteq Names /\ left' \subseteq Names
      BY <1>2 DEF TypeOK
  <2>4. UNCHANGED <<deps, config, orphans, recipe, snapshot, touched, created, alarm, paused,
                    answer, excused, ghosts>>
      BY DEF RbProvision, boot, outcome, work
  <2> QED
      BY <1>2, <2>2, <2>3, <2>4 DEF TypeOK
<1>4. EveryLiveReachable' /\ Tables'
  <2>1. EveryLiveReachable'
      BY <1>1 DEF EveryLiveReachable, RbProvision
  <2>2. Tables'
    <3>1. UNCHANGED <<config, registry, round>> /\ queues \subseteq queues'
        BY <1>2 DEF RbProvision
    <3>2. \A m \in Names \ {n} : incarnation'[m] = incarnation[m]
        BY <1>2 DEF TypeOK
    <3> QED
        BY <1>2, <3>1, <3>2 DEF Registered, Tables
  <2> QED
      BY <2>1, <2>2
<1>5. Incarnations'
  <2>1. \A m \in Names : incarnation'[m] = IF m = n THEN incarnation[n] + 1 ELSE incarnation[m]
      BY <1>2 DEF TypeOK
  <2>2. ASSUME NEW m \in Names
        PROVE  incarnation'[m] <= round' /\ (m \in left' => incarnation'[m] < round')
    <3>1. incarnation[m] <= round /\ (m \in left => incarnation[m] < round)
        BY DEF Incarnations, Provision, RbProvision
    <3>2. round \in Nat /\ incarnation[m] \in Nat
        BY Numbers
    <3> QED
        BY <1>2, <2>1, <3>1, <3>2
  <2>4. phase' \notin {"stop", "cleanup", "rb cleanup"}
      BY <1>2 DEF Provision, RbProvision
  <2>5. phase' \in Forward \union {"rb stop"} => round' + 1 <= MaxRounds
      BY <1>2 DEF Incarnations
  <2> QED
      BY <2>2, <2>4, <2>5 DEF Incarnations
<1>6. Peers'
  <2>1. Registered' = Registered
      BY <1>2 DEF Registered
  <2>2. \A m \in Registered : m # n /\ (m \notin late' => m \notin late)
      BY <1>2
  <2>3. \A m \in Names \ {n} : incarnation'[m] = incarnation[m]
      BY <1>2 DEF TypeOK
  <2>4. Acquainted'
      BY <1>2, <2>1, <2>2, <2>3 DEF Peers, Acquainted
  <2>5. NoneYet'
      BY <1>2, <2>1 DEF Peers, NoneYet
  <2>6. \A m \in Registered' : registry'[m].round # round'
    <3>1. \A m \in Registered : registry[m].round < round
        BY <1>1 DEF RbProvision, Peers, NoneYet, Early, Registered
    <3> QED
        BY <1>2, <2>1, <3>1, Numbers DEF Registered
  <2>7. Announced'
      BY <2>6 DEF Announced
  <2> QED
      BY <2>4, <2>5, <2>7 DEF Peers
<1>7. Phases'
  <2>1. phase' = "rb provision"
      BY <1>1 DEF RbProvision
  <2>2. InSwitch'
      BY <1>1, <2>1 DEF InSwitch, Nothing, Phases, RbProvision, Registered, Settled,
         ShieldedBefore, Started, outcome, work
  <2>3. NoneCreated'
      BY <1>1, <2>1 DEF NoneCreated, Phases, RbProvision, work
  <2>4. AtRbProvision'
      BY <1>1, <2>1 DEF AtRbProvision, Nothing, Old, PartialNew, Phases, Protected, RbProvision,
         Registered, ShieldedBefore, Started, Survivor, Victims, outcome, work
  <2>5. InRollback'
      BY <1>1, <2>1 DEF Adopted, Back, InRollback, Old, Phases, Protected, RbProvision,
         ShieldedBefore, Started, outcome, work
  <2> QED
      BY <2>1, <2>2, <2>3, <2>4, <2>5 DEF AtBoot, AtCleanup, AtCreate, AtIdle, AtProvision,
         AtRbCleanup, AtRbCreate, AtRbStart, AtReady, AtStart, AtStop, Phases
<1>8. Outlived'
    BY <1>1 DEF Outlived, RbProvision
<1> QED
    BY <1>3, <1>4, <1>5, <1>6, <1>7, <1>8 DEF IInv

\* The rollback makes n again from the snapshot, or fails to.
LEMMA RbCreateInv ==
    ASSUME IInv, NEW n \in Names, RbCreate(n)
    PROVE  IInv'
<1> USE SwitchAssumption DEF IInv
<1>1. CASE Made(n, "new") /\ config' = [config EXCEPT ![n] = snapshot[n]] /\ UNCHANGED excused
           /\ created' = created \union {n}
  <2>0. Nothing(n) /\ n \in Old
      BY <1>1 DEF AtRbCreate, Phases, RbCreate, Victims
  <2>1. /\ registry' \in [Names -> Process]
        /\ registry'[n] = Object(n, "new")
        /\ \A m \in Names \ {n} : SameBirth(m) /\ registry'[m].stage = registry[m].stage
        /\ registry'[n].stage = "new" /\ registry'[n].born = incarnation[n]
        /\ registry'[n].round = round
        /\ \A m \in queues \union {n} : registry'[n].peers[m] = incarnation[m]
      BY <1>1, Replaced, ObjectFacts, <2>0 DEF Made, Nothing, Registered, TypeOK
  <2>2. TypeOK'
    <3>1. /\ left' \subseteq Names /\ orphans' \subseteq Names
          /\ queues' \subseteq Names /\ late' \subseteq Names /\ created' \subseteq Names
          /\ config' \in [Names -> Recipes \union {NoConfig}]
        BY <1>1 DEF Made, RbCreate, TypeOK
    <3>2. /\ UNCHANGED <<boot, phase, incarnation, round, paused>>
          /\ UNCHANGED <<recipe, snapshot, touched, alarm, outcome>>
        BY <1>1 DEF RbCreate, boot, outcome
    <3> QED
        BY <2>1, <3>1, <3>2 DEF TypeOK, boot, outcome
  <2>3. EveryLiveReachable' /\ Tables'
    <3>1. EveryLiveReachable'
        BY <1>1, <2>1, <2>0 DEF EveryLiveReachable, Made, Nothing
    <3>2. Tables'
      <4>1. /\ config' = [config EXCEPT ![n] = snapshot[n]] /\ queues' = queues \union {n}
            /\ UNCHANGED <<incarnation, round>> /\ snapshot[n] # NoConfig
          BY <1>1, <2>0 DEF Made, RbCreate, Old
      <4>2. \A m \in Names \ {n} : config'[m] = config[m] /\ (m \in Registered' => m \in Registered)
          BY <2>1, <4>1 DEF Registered, TypeOK
      <4>3. config'[n] # NoConfig
          BY <4>1 DEF TypeOK
      <4> QED
          BY <2>1, <4>1, <4>2, <4>3, Numbers DEF Tables, SameBirth
    <3> QED
        BY <3>1, <3>2
  <2>4. Incarnations'
      BY <1>1, <2>1, <2>0 DEF Incarnations, RbCreate
  <2>5. Peers'
    <3>1. /\ queues' = queues \union {n} /\ late' = IF n \in queues THEN late ELSE late \union {n}
          /\ UNCHANGED <<incarnation, round>> /\ phase' = "rb create"
        BY <1>1 DEF Made, RbCreate
    <3>2. \A m \in Names \ {n} : m \in Registered' => m \in Registered /\ SameBirth(m)
        BY <2>1 DEF Registered
    <3>3. \A m \in Registered : registry[m].round <= round /\ m \in queues
        BY DEF Tables, Registered
    <3>4. Announced'
      <4> SUFFICES ASSUME NEW k \in Names, NEW l \in Names, k \in Registered',
                          registry'[k].round = round, l \in queues', l \notin late'
                   PROVE  registry'[k].peers[l] = incarnation[l]
          BY <3>1 DEF Announced
      <4>1. k = n => registry'[k].peers[l] = incarnation[l]
          BY <2>1, <3>1
      <4>2. CASE k # n
        <5>1. k \in Registered /\ SameBirth(k)
            BY <3>2, <4>2
        <5>2. l \in queues /\ l \notin late
            BY <3>1
        <5> QED
            BY <5>1, <5>2 DEF Peers, Announced, SameBirth
      <4> QED
          BY <4>1, <4>2
    <3>5. Acquainted'
      <4> SUFFICES ASSUME NEW k \in Names, NEW l \in Names, k \in Registered', l \in Registered',
                          registry'[k].round >= registry'[l].round, l \notin late'
                   PROVE  registry'[k].peers[l] = incarnation[l]
          BY <3>1 DEF Acquainted
      <4>1. CASE k = n
          BY <2>1, <3>1, <3>2, <3>3, <4>1
      <4>2. CASE k # n /\ l = n
        <5>1. registry'[k].round = round
          <6>1. k \in Registered /\ SameBirth(k)
              BY <3>2, <4>2
          <6>2. registry'[k].round = registry[k].round /\ registry[k].round <= round
              BY <3>3, <6>1 DEF SameBirth
          <6>3. registry'[k].round >= round
              BY <2>1, <4>2
          <6> QED
              BY <6>2, <6>3, Numbers
        <5> QED
            BY <3>1, <3>4, <4>2, <5>1 DEF Announced
      <4>3. CASE k # n /\ l # n
        <5>1. /\ k \in Registered /\ SameBirth(k)
              /\ l \in Registered /\ SameBirth(l)
            BY <3>2, <4>3
        <5>2. l \notin late
            BY <3>1
        <5>3. registry[k].round >= registry[l].round
            BY <5>1 DEF SameBirth
        <5> QED
            BY <5>1, <5>2, <5>3 DEF Peers, Acquainted, SameBirth
      <4> QED
          BY <4>1, <4>2, <4>3
    <3> QED
        BY <3>1, <3>4, <3>5 DEF Peers, NoneYet, Early
  <2>6. Phases'
    <3>1. /\ phase = "rb create" /\ phase' = phase /\ n \in left /\ left' = left \ {n}
          /\ config' = [config EXCEPT ![n] = snapshot[n]] /\ created' = created \union {n}
          /\ UNCHANGED <<alarm, excused, ghosts, round, snapshot, touched>>
        BY <1>1 DEF RbCreate
    <3>2. /\ InSwitch /\ InRollback /\ AtRbCreate
          /\ left \subseteq Old \ created /\ created \subseteq Old
        BY <3>1 DEF Phases, AtRbCreate
    <3>3. /\ config'[n] = snapshot[n]
          /\ \A m \in Names \ {n} : config'[m] = config[m]
        BY <3>1 DEF TypeOK
    <3>4. \A m \in Names \ {n} : /\ Nothing(m)' <=> Nothing(m)
                                 /\ Started(m) => Started(m)'
                                 /\ Settled(m) => Settled(m)'
                                 /\ Survivor(m) => Survivor(m)'
                                 /\ Lost(m) => Lost(m)'
                                 /\ Restored(m) => Restored(m)'
        BY <2>1, <3>1, <3>3, NameKept
    <3>5. Restored(n)' /\ registry'[n].stage = "new"
        BY <2>1, <3>1, <3>3 DEF Restored, Registered
    <3>6. /\ Old' = Old /\ ShieldedBefore' = ShieldedBefore
          /\ Adopted' = Adopted /\ Victims' = Victims
        BY <2>0, <3>1, <3>3, VictimsKept
    <3>7. n \notin ShieldedBefore /\ n \notin Adopted /\ snapshot[n] # NoConfig
        BY <2>0 DEF Old, Adopted
    <3>8. InSwitch'
        BY <3>1, <3>2, <3>3, <3>4, <3>6, <3>7 DEF InSwitch
    <3>9. InRollback'
        BY <3>1, <3>2, <3>4, <3>6, <3>7, Sets DEF InRollback
    <3>10. AtRbCreate'
      <4>1. left' \subseteq Old \ created' /\ created' \subseteq Old
          BY <2>0, <3>1, <3>2
      <4>2. ASSUME NEW m \in Victims
            PROVE  \/ m \in left' /\ Nothing(m)'
                   \/ m \in created' /\ Restored(m)' /\ registry'[m].stage = "new"
                   \/ m \notin left' \union created' /\ (Survivor(m)' \/ Lost(m)')
        <5>1. CASE m = n
            BY <3>1, <3>5, <5>1
        <5>2. CASE m # n
          <6>1. m \in Names
              BY Sets
          <6>2. registry'[m].stage = registry[m].stage
              BY <2>1, <5>2, <6>1
          <6>3. \/ m \in left /\ Nothing(m)
                \/ m \in created /\ Restored(m) /\ registry[m].stage = "new"
                \/ m \notin left \union created /\ (Survivor(m) \/ Lost(m))
              BY <3>1, <3>2 DEF AtRbCreate
          <6> QED
              BY <3>1, <3>4, <5>2, <6>1, <6>2, <6>3
        <5> QED
            BY <5>1, <5>2
      <4> QED
          BY <3>6, <4>1, <4>2 DEF AtRbCreate
    <3> QED
        BY <3>1, <3>8, <3>9, <3>10
           DEF Phases, AtBoot, AtIdle, NoneCreated, AtStop, AtCleanup, AtProvision, AtCreate,
               AtStart, AtReady, AtRbCleanup, AtRbProvision, AtRbStart
  <2>7. Outlived'
      BY <1>1, <2>1, <2>0 DEF Outlived, RbCreate
  <2> QED
      BY <2>2, <2>3, <2>4, <2>5, <2>6, <2>7 DEF IInv
<1>2. CASE UNCHANGED <<registry, orphans, config, queues, late, created>>
           /\ excused' = excused \union {n}
  <2>2. TypeOK'
      BY <1>2 DEF RbCreate, TypeOK, boot
  <2>3. EveryLiveReachable' /\ Tables'
    <3>1. EveryLiveReachable'
        BY <1>2 DEF EveryLiveReachable
    <3>2. Tables'
        BY <1>2 DEF RbCreate, Registered, Tables
    <3> QED
        BY <3>1, <3>2
  <2>4. Incarnations'
      BY <1>2 DEF Incarnations, RbCreate
  <2>5. Peers'
    <3>1. Acquainted'
        BY <1>2 DEF Acquainted, Peers, RbCreate, Registered
    <3>2. Announced'
        BY <1>2 DEF Announced, Peers, RbCreate, Registered
    <3>3. NoneYet'
        BY <1>2 DEF NoneYet, Peers, RbCreate, Registered
    <3> QED
        BY <3>1, <3>2, <3>3 DEF Peers
  <2>6. Phases'
    <3>1. phase' = "rb create"
        BY <1>2 DEF RbCreate
    <3>2. InSwitch'
        BY <1>2, <3>1 DEF InSwitch, Nothing, Phases, RbCreate, Registered, Settled, ShieldedBefore,
           Started
    <3>3. NoneCreated'
        BY <1>2, <3>1 DEF NoneCreated
    <3>4. AtRbCreate'
      <4>1. /\ phase = "rb create" /\ n \in left /\ left' = left \ {n} /\ AtRbCreate
            /\ excused' = excused \union {n}
            /\ UNCHANGED <<config, registry, created, snapshot, touched, alarm, ghosts, round>>
          BY <1>2 DEF Phases, RbCreate
      <4>2. /\ Old' = Old /\ ShieldedBefore' = ShieldedBefore
            /\ Adopted' = Adopted /\ Victims' = Victims
          BY <4>1, VictimsKept
      <4>3. \A m \in Names : /\ Nothing(m)' <=> Nothing(m)
                             /\ Survivor(m) => Survivor(m)'
                             /\ Lost(m) => Lost(m)'
                             /\ Restored(m) => Restored(m)'
          BY <4>1, NameKept DEF SameBirth
      <4>4. n \in Victims /\ Nothing(n) /\ n \notin created
          BY <4>1 DEF AtRbCreate, Victims
      <4>5. Lost(n)'
          BY <4>1, <4>3, <4>4 DEF Lost
      <4>6. left' \subseteq Old' \ created' /\ created' \subseteq Old'
          BY <4>1, <4>2 DEF AtRbCreate
      <4>7. ASSUME NEW m \in Victims
            PROVE  \/ m \in left' /\ Nothing(m)'
                   \/ m \in created' /\ Restored(m)' /\ registry'[m].stage = "new"
                   \/ m \notin left' \union created' /\ (Survivor(m)' \/ Lost(m)')
        <5>1. CASE m = n
            BY <4>1, <4>4, <4>5, <5>1
        <5>2. CASE m # n
            BY <4>1, <4>3, <5>2, Sets DEF AtRbCreate
        <5> QED
            BY <5>1, <5>2
      <4> QED
          BY <4>2, <4>6, <4>7 DEF AtRbCreate
    <3>5. InRollback'
        BY <1>2, <3>1 DEF Adopted, InRollback, Old, Phases, Protected, RbCreate, ShieldedBefore,
           Started
    <3> QED
        BY <3>1, <3>2, <3>3, <3>4, <3>5 DEF AtBoot, AtCleanup, AtCreate, AtIdle, AtProvision,
           AtRbCleanup, AtRbProvision, AtRbStart, AtReady, AtStart, AtStop, Phases
  <2>7. Outlived'
      BY <1>2 DEF Outlived, RbCreate
  <2> QED
      BY <2>2, <2>3, <2>4, <2>5, <2>6, <2>7 DEF IInv
<1> QED
    BY <1>1, <1>2 DEF RbCreate

\* The rollback starts n, or fails to.
LEMMA RbStartInv ==
    ASSUME IInv, NEW n \in Names, RbStart(n)
    PROVE  IInv'
<1> USE SwitchAssumption DEF IInv
<1>1. CASE Launched(n) /\ UNCHANGED ghosts
  <2>0. n \in Registered
      BY <1>1 DEF AtRbStart, Phases, RbStart, Restored, Victims
  <2>1. /\ registry' \in [Names -> Process]
        /\ \A m \in Names :
              /\ SameBirth(m)
              /\ registry'[m].stage = IF m = n THEN "alive" ELSE registry[m].stage
        /\ Registered' = Registered
    <3>1. /\ registry' \in [Names -> Process]
          /\ \A m \in Names :
                /\ SameBirth(m)
                /\ registry'[m].stage = IF m = n THEN "alive" ELSE registry[m].stage
        BY <1>1, Restaged DEF Launched, Stages
    <3>2. Registered' = Registered
        BY <2>0, <3>1 DEF Registered
    <3> QED
        BY <3>1, <3>2
  <2>2. TypeOK'
      BY <1>1, <2>1, <2>0 DEF RbStart, TypeOK, boot, work
  <2>3. EveryLiveReachable' /\ Tables'
    <3>1. EveryLiveReachable'
        BY <1>1, <2>1, <2>0 DEF EveryLiveReachable, RbStart
    <3>2. Tables'
        BY <1>1, <2>1 DEF RbStart, SameBirth, Tables
    <3> QED
        BY <3>1, <3>2
  <2>4. Incarnations'
      BY <1>1, <2>1, <2>0 DEF Incarnations, RbStart
  <2>5. Peers'
    <3>1. UNCHANGED <<late, incarnation, queues>> /\ (round' = round \/ round' = round + 1)
        BY <1>1 DEF RbStart
    <3>2. \A m \in Names : m \in Registered' => m \in Registered /\ SameBirth(m)
        BY <1>1, <2>1, <2>0 DEF Registered, SameBirth
    <3>3. Acquainted' /\ Announced'
        BY <3>1, <3>2, PeersKept
    <3>4. NoneYet'
        BY <1>1, <2>1, <2>0, <3>2, Numbers DEF Early, NoneYet, RbStart
    <3> QED
        BY <3>3, <3>4 DEF Peers
  <2>6. Phases'
    <3>1. /\ phase = "rb start" /\ phase' = phase /\ n \in left /\ left' = left \ {n}
          /\ UNCHANGED <<config, alarm, excused, ghosts, round, snapshot, touched, created>>
        BY <1>1 DEF RbStart, work
    <3>2. /\ InSwitch /\ InRollback /\ AtRbStart
          /\ left \subseteq created /\ created \subseteq Old /\ Old \subseteq Victims
        BY <3>1 DEF Phases, AtRbStart, Victims
    <3>3. Restored(n) /\ config[n] # NoConfig
        BY <3>1, <3>2 DEF AtRbStart, Restored, Tables
    <3>4. \A m \in Names \ {n} : /\ Nothing(m)' <=> Nothing(m)
                                 /\ Started(m) => Started(m)'
                                 /\ Settled(m) => Settled(m)'
                                 /\ Survivor(m) => Survivor(m)'
                                 /\ Lost(m) => Lost(m)'
                                 /\ Restored(m) => Restored(m)'
        BY <2>1, <3>1, NameKept
    <3>5. Restored(n)' /\ Started(n)' /\ Settled(n)' /\ registry'[n].stage = "alive"
        BY <2>1, <3>1, <3>3 DEF Restored, Started, Settled, SameBirth
    <3>6. /\ Old' = Old /\ ShieldedBefore' = ShieldedBefore
          /\ Adopted' = Adopted /\ Victims' = Victims
        BY <3>1, VictimsKept
    <3>7. n \notin ShieldedBefore /\ n \notin Adopted /\ snapshot[n] # NoConfig
        BY <3>1, <3>2 DEF Old, Adopted
    <3>8. InSwitch'
        BY <3>1, <3>2, <3>4, <3>6, <3>7 DEF InSwitch
    <3>9. InRollback'
        BY <3>1, <3>2, <3>4, <3>6, <3>7, Sets DEF InRollback
    <3>10. AtRbStart'
      <4>1. left' \subseteq created' /\ created' \subseteq Old
          BY <3>1, <3>2
      <4>2. ASSUME NEW m \in Victims
            PROVE  \/ m \in left' /\ Restored(m)' /\ registry'[m].stage = "new"
                   \/ m \in created' \ left' /\ Restored(m)' /\ Started(m)'
                   \/ m \notin created' /\ (Survivor(m)' \/ Lost(m)')
        <5>1. CASE m = n
            BY <3>1, <3>2, <3>5, <5>1
        <5>2. CASE m # n
          <6>1. m \in Names
              BY Sets
          <6>2. registry'[m].stage = registry[m].stage
              BY <2>1, <5>2, <6>1
          <6>3. \/ m \in left /\ Restored(m) /\ registry[m].stage = "new"
                \/ m \in created \ left /\ Restored(m) /\ Started(m)
                \/ m \notin created /\ (Survivor(m) \/ Lost(m))
              BY <3>1, <3>2 DEF AtRbStart
          <6> QED
              BY <3>1, <3>4, <5>2, <6>1, <6>2, <6>3
        <5> QED
            BY <5>1, <5>2
      <4> QED
          BY <3>6, <4>1, <4>2 DEF AtRbStart
    <3> QED
        BY <3>1, <3>8, <3>9, <3>10
           DEF Phases, AtBoot, AtIdle, NoneCreated, AtStop, AtCleanup, AtProvision, AtCreate,
               AtStart, AtReady, AtRbCleanup, AtRbProvision, AtRbCreate
  <2>7. Outlived'
      BY <1>1, <2>1, <2>0 DEF Outlived, RbStart
  <2> QED
      BY <2>2, <2>3, <2>4, <2>5, <2>6, <2>7 DEF IInv
<1>2. CASE ghosts' = ghosts \union {n} /\ UNCHANGED registry
  <2>2. TypeOK'
      BY <1>2 DEF RbStart, TypeOK, boot, work
  <2>3. EveryLiveReachable' /\ Tables'
    <3>1. EveryLiveReachable'
        BY <1>2 DEF EveryLiveReachable, RbStart
    <3>2. Tables'
        BY <1>2 DEF RbStart, Registered, Tables
    <3> QED
        BY <3>1, <3>2
  <2>4. Incarnations'
      BY <1>2 DEF Incarnations, RbStart
  <2>5. Peers'
      BY <1>2 DEF Acquainted, Announced, NoneYet, Peers, RbStart, Registered
  <2>6. Phases'
    <3>1. phase' = "rb start"
        BY <1>2 DEF RbStart
    <3>2. InSwitch'
        BY <1>2, <3>1 DEF InSwitch, Nothing, Phases, RbStart, Registered, Settled, ShieldedBefore,
           Started, work
    <3>3. NoneCreated'
        BY <1>2, <3>1 DEF NoneCreated
    <3>4. AtRbStart'
      <4>1. /\ phase = "rb start" /\ n \in left /\ left' = left \ {n} /\ AtRbStart
            /\ ghosts' = ghosts \union {n}
            /\ UNCHANGED <<config, registry, created, snapshot, touched, alarm, excused, round>>
          BY <1>2 DEF Phases, RbStart, work, tables
      <4>2. /\ Old' = Old /\ ShieldedBefore' = ShieldedBefore
            /\ Adopted' = Adopted /\ Victims' = Victims
          BY <4>1, VictimsKept
      <4>3. \A m \in Names : /\ Started(m) => Started(m)'
                             /\ Survivor(m) => Survivor(m)'
                             /\ Lost(m) => Lost(m)'
                             /\ Restored(m) => Restored(m)'
          BY <4>1, NameKept DEF SameBirth
      <4>4. n \in Victims /\ Restored(n) /\ n \in created
          BY <4>1 DEF AtRbStart, Victims
      <4>5. Started(n)'
          BY <4>1, <4>4 DEF Restored, Started, Tables
      <4>6. left' \subseteq created' /\ created' \subseteq Old'
          BY <4>1, <4>2 DEF AtRbStart
      <4>7. ASSUME NEW m \in Victims
            PROVE  \/ m \in left' /\ Restored(m)' /\ registry'[m].stage = "new"
                   \/ m \in created' \ left' /\ Restored(m)' /\ Started(m)'
                   \/ m \notin created' /\ (Survivor(m)' \/ Lost(m)')
        <5>1. CASE m = n
            BY <4>1, <4>3, <4>4, <4>5, <5>1, Sets
        <5>2. CASE m # n
            BY <4>1, <4>3, <5>2, Sets DEF AtRbStart
        <5> QED
            BY <5>1, <5>2
      <4> QED
          BY <4>2, <4>6, <4>7 DEF AtRbStart
    <3>5. InRollback'
        BY <1>2, <3>1 DEF Adopted, InRollback, Old, Phases, Protected, RbStart, ShieldedBefore,
           Started, work
    <3> QED
        BY <3>1, <3>2, <3>3, <3>4, <3>5 DEF AtBoot, AtCleanup, AtCreate, AtIdle, AtProvision,
           AtRbCleanup, AtRbCreate, AtRbProvision, AtReady, AtStart, AtStop, Phases
  <2>7. Outlived'
      BY <1>2 DEF Outlived, RbStart
  <2> QED
      BY <2>2, <2>3, <2>4, <2>5, <2>6, <2>7 DEF IInv
<1> QED
    BY <1>1, <1>2 DEF RbStart

\* The next phase of the rollback.
LEMMA RbNextPhaseInv ==
    ASSUME IInv, RbNextPhase
    PROVE  IInv'
<1> USE SwitchAssumption DEF IInv
<1>1. CASE phase = "rb cleanup"
  <2>2. TypeOK'
      BY <1>1, Sets DEF Back, FollowBack, RbNextPhase, TypeOK, boot, outcome, tables, work
  <2>3. EveryLiveReachable' /\ Tables'
    <3>1. EveryLiveReachable'
        BY <1>1 DEF EveryLiveReachable, RbNextPhase, tables
    <3>2. Tables'
        BY <1>1 DEF RbNextPhase, Registered, Tables, tables
    <3> QED
        BY <3>1, <3>2
  <2>4. Incarnations'
      BY <1>1 DEF FollowBack, Forward, Incarnations, RbNextPhase, tables
  <2>5. Peers'
    <3>1. Acquainted'
        BY <1>1 DEF Acquainted, Peers, RbNextPhase, Registered, tables
    <3>2. Announced'
        BY <1>1 DEF Announced, Peers, RbNextPhase, Registered, tables
    <3>3. NoneYet'
        BY <1>1 DEF Early, NoneYet, Peers, RbNextPhase, Registered, tables
    <3> QED
        BY <3>1, <3>2, <3>3 DEF Peers
  <2>6. Phases'
    <3>1. phase' = "rb provision"
        BY <1>1 DEF FollowBack, RbNextPhase
    <3>2. InSwitch'
        BY <1>1, <3>1 DEF InSwitch, Nothing, Phases, RbNextPhase, Registered, Settled,
           ShieldedBefore, Started, outcome, tables, work
    <3>3. NoneCreated'
        BY <1>1, <3>1 DEF NoneCreated, Phases, RbNextPhase, work
    <3>4. AtRbProvision'
        BY <1>1, <3>1 DEF AtRbCleanup, AtRbProvision, Nothing, Old, PartialNew, Phases, Protected,
           RbNextPhase, Registered, ShieldedBefore, Started, Survivor, Victims, outcome, tables,
           work
    <3>5. InRollback'
        BY <1>1, <3>1 DEF Adopted, Back, InRollback, Old, Phases, Protected, RbNextPhase,
           ShieldedBefore, Started, outcome, tables, work
    <3> QED
        BY <3>1, <3>2, <3>3, <3>4, <3>5 DEF AtBoot, AtCleanup, AtCreate, AtIdle, AtProvision,
           AtRbCleanup, AtRbCreate, AtRbStart, AtReady, AtStart, AtStop, Phases
  <2>7. Outlived'
      BY <1>1 DEF FollowBack, Outlived, RbNextPhase
  <2> QED
      BY <2>2, <2>3, <2>4, <2>5, <2>6, <2>7 DEF IInv
<1>2. CASE phase = "rb provision"
  <2>2. TypeOK'
      BY <1>2, Sets DEF Back, FollowBack, RbNextPhase, TypeOK, boot, outcome, tables, work
  <2>3. EveryLiveReachable' /\ Tables'
    <3>1. EveryLiveReachable'
        BY <1>2 DEF EveryLiveReachable, RbNextPhase, tables
    <3>2. Tables'
        BY <1>2 DEF RbNextPhase, Registered, Tables, tables
    <3> QED
        BY <3>1, <3>2
  <2>4. Incarnations'
      BY <1>2 DEF FollowBack, Forward, Incarnations, RbNextPhase, tables
  <2>5. Peers'
    <3>1. Acquainted'
        BY <1>2 DEF Acquainted, Peers, RbNextPhase, Registered, tables
    <3>2. Announced'
        BY <1>2 DEF Announced, Peers, RbNextPhase, Registered, tables
    <3>3. NoneYet'
        BY <1>2 DEF Early, NoneYet, Peers, RbNextPhase, Registered, tables
    <3> QED
        BY <3>1, <3>2, <3>3 DEF Peers
  <2>6. Phases'
    <3>1. phase' = "rb create"
        BY <1>2 DEF FollowBack, RbNextPhase
    <3>2. InSwitch'
        BY <1>2, <3>1 DEF InSwitch, Nothing, Phases, RbNextPhase, Registered, Settled,
           ShieldedBefore, Started, outcome, tables, work
    <3>3. NoneCreated'
        BY <1>2, <3>1 DEF NoneCreated
    <3>4. AtRbCreate'
      <4>1. /\ AtRbProvision /\ left = {} /\ created = {} /\ created' = {}
            /\ left' = {m \in Old : config[m] = NoConfig}
            /\ UNCHANGED <<config, registry, snapshot, touched, alarm, excused, ghosts, round>>
          BY <1>2, <3>1 DEF NoneCreated, Phases, RbNextPhase, outcome, tables, work
      <4>2. Old' = Old /\ Victims' = Victims /\ Old \subseteq Victims
          BY <4>1, VictimsKept DEF Victims
      <4>3. \A m \in Names : /\ Nothing(m)' <=> Nothing(m)
                             /\ Survivor(m)' <=> Survivor(m)
          BY <4>1 DEF Nothing, Survivor, Started, Registered
      <4>4. \A m \in Victims : Nothing(m) \/ Survivor(m)
          BY <1>2, <4>1 DEF AtRbProvision
      <4>5. \A m \in Victims : Survivor(m) => config[m] # NoConfig
          BY DEF Survivor, Started
      <4>6. \A m \in Victims : Nothing(m) /\ m \notin Old => Lost(m)'
          BY <4>2, <4>3, Sets DEF Lost
      <4> QED
          BY <4>1, <4>2, <4>3, <4>4, <4>5, <4>6, Sets DEF AtRbCreate, Nothing
    <3>5. InRollback'
        BY <1>2, <3>1 DEF Adopted, Back, InRollback, Old, Phases, Protected, RbNextPhase,
           ShieldedBefore, Started, outcome, tables, work
    <3> QED
        BY <3>1, <3>2, <3>3, <3>4, <3>5 DEF AtBoot, AtCleanup, AtCreate, AtIdle, AtProvision,
           AtRbCleanup, AtRbProvision, AtRbStart, AtReady, AtStart, AtStop, Phases
  <2>7. Outlived'
      BY <1>2 DEF FollowBack, Outlived, RbNextPhase
  <2> QED
      BY <2>2, <2>3, <2>4, <2>5, <2>6, <2>7 DEF IInv
<1>3. CASE phase = "rb create"
  <2>2. TypeOK'
      BY <1>3, Sets DEF Back, FollowBack, RbNextPhase, TypeOK, boot, outcome, tables, work
  <2>3. EveryLiveReachable' /\ Tables'
    <3>1. EveryLiveReachable'
        BY <1>3 DEF EveryLiveReachable, RbNextPhase, tables
    <3>2. Tables'
        BY <1>3 DEF RbNextPhase, Registered, Tables, tables
    <3> QED
        BY <3>1, <3>2
  <2>4. Incarnations'
      BY <1>3 DEF FollowBack, Forward, Incarnations, RbNextPhase, tables
  <2>5. Peers'
      BY <1>3 DEF Acquainted, Announced, Early, FollowBack, NoneYet, Peers, RbNextPhase, Registered,
         tables
  <2>6. Phases'
    <3>1. phase' = "rb start"
        BY <1>3 DEF FollowBack, RbNextPhase
    <3>2. InSwitch'
        BY <1>3, <3>1 DEF InSwitch, Nothing, Phases, RbNextPhase, Registered, Settled,
           ShieldedBefore, Started, outcome, tables, work
    <3>3. NoneCreated'
        BY <1>3, <3>1 DEF NoneCreated
    <3>4. AtRbStart'
      <4>1. /\ phase = "rb create" /\ left = {} /\ left' = created /\ AtRbCreate
            /\ UNCHANGED <<config, registry, created, snapshot, touched, alarm, excused, ghosts,
                           round>>
          BY <1>3 DEF Phases, RbNextPhase, FollowBack, work, tables, outcome
      <4>2. /\ Old' = Old /\ ShieldedBefore' = ShieldedBefore
            /\ Adopted' = Adopted /\ Victims' = Victims
          BY <4>1, VictimsKept
      <4>3. \A m \in Names : /\ Survivor(m) => Survivor(m)'
                             /\ Lost(m) => Lost(m)'
                             /\ Restored(m) => Restored(m)'
          BY <4>1, NameKept DEF SameBirth
      <4>4. ASSUME NEW m \in Victims
            PROVE  \/ m \in left' /\ Restored(m)' /\ registry'[m].stage = "new"
                   \/ m \notin created' /\ (Survivor(m)' \/ Lost(m)')
          BY <4>1, <4>3, Sets DEF AtRbCreate
      <4>5. left' \subseteq created' /\ created' \subseteq Old'
          BY <4>1, <4>2 DEF AtRbCreate
      <4> QED
          BY <4>2, <4>4, <4>5 DEF AtRbStart
    <3>5. InRollback'
        BY <1>3, <3>1 DEF Adopted, Back, InRollback, Old, Phases, Protected, RbNextPhase,
           ShieldedBefore, Started, outcome, tables, work
    <3> QED
        BY <3>1, <3>2, <3>3, <3>4, <3>5 DEF AtBoot, AtCleanup, AtCreate, AtIdle, AtProvision,
           AtRbCleanup, AtRbCreate, AtRbProvision, AtReady, AtStart, AtStop, Phases
  <2>7. Outlived'
      BY <1>3 DEF FollowBack, Outlived, RbNextPhase
  <2> QED
      BY <2>2, <2>3, <2>4, <2>5, <2>6, <2>7 DEF IInv
<1> QED
    BY <1>1, <1>2, <1>3 DEF RbNextPhase, FollowBack

\* The rollback is over.
LEMMA RolledBackInv ==
    ASSUME IInv, RolledBack
    PROVE  IInv'
<1> USE SwitchAssumption DEF IInv
<1>2. TypeOK'
    BY DEF Answers, Return, RolledBack, TypeOK, boot, tables
<1>3. EveryLiveReachable' /\ Tables'
  <2>1. EveryLiveReachable'
      BY DEF EveryLiveReachable, RolledBack, tables
  <2>2. Tables'
      BY DEF Registered, RolledBack, Tables, tables
  <2> QED
      BY <2>1, <2>2
<1>4. Incarnations'
    BY DEF Forward, Incarnations, Return, RolledBack, tables
<1>5. Peers'
  <2>1. Acquainted'
      BY DEF Acquainted, Peers, Registered, RolledBack, tables
  <2>2. Announced'
      BY DEF Announced, Peers, Registered, RolledBack, tables
  <2>3. NoneYet'
      BY DEF Early, NoneYet, Return, RolledBack
  <2> QED
      BY <2>1, <2>2, <2>3 DEF Peers
<1>6. Phases'
  <2>1. phase' = "idle"
      BY DEF Return, RolledBack
  <2>2. NoneCreated'
      BY <2>1 DEF NoneCreated, Return, RolledBack
  <2>3. AtIdle'
    <3>1. /\ phase = "rb start" /\ left = {} /\ left' = {} /\ InSwitch /\ InRollback /\ AtRbStart
          /\ UNCHANGED <<config, registry, ghosts>> /\ Old \subseteq Victims
        BY DEF Phases, Return, RolledBack, Victims, tables
    <3>2. \A m \in Names : Settled(m)' <=> Settled(m)
        BY <3>1 DEF Settled, Nothing, Started, Registered
    <3>3. ASSUME NEW m \in Victims PROVE Settled(m)
        BY <3>1 DEF AtRbStart, Survivor, Lost, Settled
    <3>4. ASSUME NEW m \in Names \ Victims PROVE Settled(m)
      <4>1. m \in ShieldedBefore => Settled(m)
          BY <3>1 DEF InSwitch
      <4>2. m \in Adopted => Settled(m)
          BY <3>1 DEF InRollback, Back, Settled
      <4>3. m \notin Old /\ m \notin Adopted /\ m \notin ShieldedBefore
                => snapshot[m] = NoConfig /\ m \notin touched
          BY DEF Old, Adopted, Victims, PartialNew
      <4>4. snapshot[m] = NoConfig /\ m \notin touched => Settled(m)
          BY <3>1 DEF InSwitch, Settled
      <4> QED
          BY <3>1, <4>1, <4>2, <4>3, <4>4
    <3> QED
        BY <2>1, <3>1, <3>2, <3>3, <3>4 DEF AtIdle
  <2> QED
      BY <2>1, <2>2, <2>3 DEF AtBoot, AtCleanup, AtCreate, AtProvision, AtRbCleanup,
             AtRbCreate, AtRbProvision, AtRbStart, AtReady, AtStart, AtStop, Back,
             InRollback, InSwitch, Phases
<1>7. Outlived'
  <2>1. /\ phase = "rb start" /\ left = {} /\ InSwitch /\ AtRbStart
        /\ UNCHANGED <<config, registry, round, alarm>> /\ Old \subseteq Victims
      BY DEF Phases, RolledBack, Victims, tables
  <2>2. Protected' = Protected /\ Registered' = Registered
      BY <2>1 DEF Protected, Registered
  <2>3. ASSUME NEW m \in Names \ Protected, m \in Registered, registry[m].round < round
        PROVE  m \in alarm
    <3>1. CASE m \in Victims
      <4>1. ~Restored(m)
          BY <2>3, Numbers DEF Restored
      <4>2. ~Lost(m)
          BY <2>3 DEF Lost, Nothing
      <4> QED
          BY <2>1, <3>1, <4>1, <4>2 DEF AtRbStart, Survivor
    <3>2. CASE m \notin Victims
      <4>1. m \notin ShieldedBefore
          BY <2>1, <2>3 DEF InSwitch, Protected, ShieldedBefore
      <4>2. snapshot[m] = NoConfig /\ m \notin touched
          BY <3>2, <4>1, <2>3 DEF Old, Victims, PartialNew
      <4> QED
          BY <2>1, <2>3, <4>2 DEF InSwitch, Nothing
    <3> QED
        BY <3>1, <3>2
  <2> QED
      BY <2>1, <2>2, <2>3 DEF Outlived
<1> QED
    BY <1>2, <1>3, <1>4, <1>5, <1>6, <1>7 DEF IInv

\* A restart: a failed create leaves nothing, a failed start an object.
LEMMA RestartProcessInv ==
    ASSUME IInv, NEW n \in Names, RestartProcess(n)
    PROVE  IInv'
<1> USE SwitchAssumption DEF IInv
<1>1. CASE registry' = [registry EXCEPT ![n] = Object(n, "new")] /\ ghosts' = ghosts \union {n}
  <2>1. /\ registry' \in [Names -> Process]
        /\ registry'[n] = Object(n, "new")
        /\ \A m \in Names \ {n} : SameBirth(m) /\ registry'[m].stage = registry[m].stage
        /\ registry'[n].stage = "new" /\ registry'[n].born = incarnation[n]
        /\ registry'[n].round = round
        /\ \A m \in queues \union {n} : registry'[n].peers[m] = incarnation[m]
    <3>1. /\ Object(n, "new") \in Process
          /\ Object(n, "new").stage = "new" /\ Object(n, "new").born = incarnation[n]
          /\ Object(n, "new").round = round
          /\ \A m \in queues \union {n} : Object(n, "new").peers[m] = incarnation[m]
        BY ObjectFacts
    <3>2. /\ registry' \in [Names -> Process] /\ registry'[n] = Object(n, "new")
          /\ \A m \in Names \ {n} : SameBirth(m) /\ registry'[m].stage = registry[m].stage
        BY <1>1, <3>1, Replaced
    <3> QED
        BY <3>1, <3>2
  <2>2. TypeOK'
      BY <1>1, <2>1 DEF RestartProcess, TypeOK, boot, work
  <2>3. EveryLiveReachable' /\ Tables'
    <3>1. EveryLiveReachable'
        BY <1>1, <2>1 DEF EveryLiveReachable, RestartProcess
    <3>2. Tables'
        BY <1>1, <2>1 DEF Registered, RestartProcess, Rounds, Tables, TypeOK
    <3> QED
        BY <3>1, <3>2
  <2>4. Incarnations'
      BY <1>1, <2>1 DEF Incarnations, RestartProcess
  <2>5. Peers'
    <3>1. Acquainted'
      <4> SUFFICES ASSUME NEW k \in Names, NEW l \in Names, k \in Registered', l \in Registered',
                          registry'[k].round >= registry'[l].round, l \notin late'
                   PROVE  registry'[k].peers[l] = incarnation'[l]
        BY DEF Acquainted
      <4>1. CASE k = n
          BY <1>1, <2>1, <4>1, Numbers DEF Registered, RestartProcess, Tables
      <4>2. CASE k # n /\ l = n
        <5>1. k \in Registered /\ SameBirth(k)
            BY <2>1, <4>2 DEF Registered
        <5>2. registry[k].round = round
          <6>1. registry'[k].round = registry[k].round /\ registry[k].round <= round
              BY <5>1 DEF SameBirth, Tables
          <6>2. registry'[k].round >= round
              BY <2>1, <4>2
          <6> QED
              BY <6>1, <6>2, Numbers
        <5>3. n \in queues /\ n \notin late /\ incarnation' = incarnation
            BY <1>1, <4>2 DEF RestartProcess, Tables
        <5> QED
            BY <4>2, <5>1, <5>2, <5>3 DEF Announced, Peers, SameBirth
      <4>3. CASE k # n /\ l # n
          BY <1>1, <2>1, <4>3, Numbers DEF Acquainted, Peers, Registered, RestartProcess
      <4> QED
          BY <4>1, <4>2, <4>3
    <3>2. Announced'
        BY <1>1, <2>1 DEF Announced, Peers, Registered, RestartProcess, Tables
    <3>3. NoneYet'
        BY <1>1, <2>1 DEF Early, NoneYet, RestartProcess
    <3> QED
        BY <3>1, <3>2, <3>3 DEF Peers
  <2>6. Phases'
    <3>1. phase' = "idle"
        BY <1>1 DEF RestartProcess
    <3>2. NoneCreated'
        BY <1>1, <3>1, <2>1 DEF NoneCreated, Phases, RestartProcess, work
    <3>3. AtIdle'
        BY <1>1, <3>1, <2>1 DEF AtIdle, Nothing, Phases, Registered, RestartProcess, Settled,
           Started
    <3> QED
        BY <3>1, <3>2, <3>3 DEF AtBoot, AtCleanup, AtCreate, AtProvision, AtRbCleanup,
               AtRbCreate, AtRbProvision, AtRbStart, AtReady, AtStart, AtStop, Back,
               InRollback, InSwitch, Phases
  <2>7. Outlived'
    <3>1. phase = "idle" /\ UNCHANGED <<answer, round, alarm>>
        BY <1>1 DEF RestartProcess, outcome, work
    <3>2. \A m \in Names : m \in Registered' =>
              \/ m \in Registered /\ SameBirth(m) /\ config'[m] = config[m]
              \/ registry'[m].round = round
        BY <1>1, <2>1 DEF RestartProcess, Registered, TypeOK, tables
    <3> QED
        BY <3>1, <3>2, OutlivedKept
  <2> QED
      BY <2>2, <2>3, <2>4, <2>5, <2>6, <2>7 DEF IInv
<1>2. CASE registry' = [registry EXCEPT ![n] = Object(n, "alive")] /\ ghosts' = ghosts \ {n}
  <2>1. /\ registry' \in [Names -> Process]
        /\ registry'[n] = Object(n, "alive")
        /\ \A m \in Names \ {n} : SameBirth(m) /\ registry'[m].stage = registry[m].stage
        /\ registry'[n].stage = "alive" /\ registry'[n].born = incarnation[n]
        /\ registry'[n].round = round
        /\ \A m \in queues \union {n} : registry'[n].peers[m] = incarnation[m]
    <3>1. /\ Object(n, "alive") \in Process
          /\ Object(n, "alive").stage = "alive" /\ Object(n, "alive").born = incarnation[n]
          /\ Object(n, "alive").round = round
          /\ \A m \in queues \union {n} : Object(n, "alive").peers[m] = incarnation[m]
        BY ObjectFacts
    <3>2. /\ registry' \in [Names -> Process] /\ registry'[n] = Object(n, "alive")
          /\ \A m \in Names \ {n} : SameBirth(m) /\ registry'[m].stage = registry[m].stage
        BY <1>2, <3>1, Replaced
    <3> QED
        BY <3>1, <3>2
  <2>2. TypeOK'
      BY <1>2, <2>1 DEF RestartProcess, TypeOK, boot, work
  <2>3. EveryLiveReachable' /\ Tables'
    <3>1. EveryLiveReachable'
        BY <1>2, <2>1 DEF EveryLiveReachable, RestartProcess
    <3>2. Tables'
        BY <1>2, <2>1 DEF Registered, RestartProcess, Rounds, Tables, TypeOK
    <3> QED
        BY <3>1, <3>2
  <2>4. Incarnations'
      BY <1>2, <2>1 DEF Incarnations, RestartProcess
  <2>5. Peers'
    <3>1. Acquainted'
      <4> SUFFICES ASSUME NEW k \in Names, NEW l \in Names, k \in Registered', l \in Registered',
                          registry'[k].round >= registry'[l].round, l \notin late'
                   PROVE  registry'[k].peers[l] = incarnation'[l]
        BY DEF Acquainted
      <4>1. CASE k = n
          BY <1>2, <2>1, <4>1, Numbers DEF Registered, RestartProcess, Tables
      <4>2. CASE k # n /\ l = n
        <5>1. k \in Registered /\ SameBirth(k)
            BY <2>1, <4>2 DEF Registered
        <5>2. registry[k].round = round
          <6>1. registry'[k].round = registry[k].round /\ registry[k].round <= round
              BY <5>1 DEF SameBirth, Tables
          <6>2. registry'[k].round >= round
              BY <2>1, <4>2
          <6> QED
              BY <6>1, <6>2, Numbers
        <5>3. n \in queues /\ n \notin late /\ incarnation' = incarnation
            BY <1>2, <4>2 DEF RestartProcess, Tables
        <5> QED
            BY <4>2, <5>1, <5>2, <5>3 DEF Announced, Peers, SameBirth
      <4>3. CASE k # n /\ l # n
          BY <1>2, <2>1, <4>3, Numbers DEF Acquainted, Peers, Registered, RestartProcess
      <4> QED
          BY <4>1, <4>2, <4>3
    <3>2. Announced'
        BY <1>2, <2>1 DEF Announced, Peers, Registered, RestartProcess, Tables
    <3>3. NoneYet'
        BY <1>2, <2>1 DEF Early, NoneYet, RestartProcess
    <3> QED
        BY <3>1, <3>2, <3>3 DEF Peers
  <2>6. Phases'
    <3>1. phase' = "idle"
        BY <1>2 DEF RestartProcess
    <3>2. NoneCreated'
        BY <1>2, <3>1, <2>1 DEF NoneCreated, Phases, RestartProcess, work
    <3>3. AtIdle'
        BY <1>2, <3>1, <2>1 DEF AtIdle, Nothing, Phases, Registered, RestartProcess, Settled,
           Started
    <3> QED
        BY <3>1, <3>2, <3>3 DEF AtBoot, AtCleanup, AtCreate, AtProvision, AtRbCleanup,
               AtRbCreate, AtRbProvision, AtRbStart, AtReady, AtStart, AtStop, Back,
               InRollback, InSwitch, Phases
  <2>7. Outlived'
    <3>1. phase = "idle" /\ UNCHANGED <<answer, round, alarm>>
        BY <1>2 DEF RestartProcess, outcome, work
    <3>2. \A m \in Names : m \in Registered' =>
              \/ m \in Registered /\ SameBirth(m) /\ config'[m] = config[m]
              \/ registry'[m].round = round
        BY <1>2, <2>1 DEF RestartProcess, Registered, TypeOK, tables
    <3> QED
        BY <3>1, <3>2, OutlivedKept
  <2> QED
      BY <2>2, <2>3, <2>4, <2>5, <2>6, <2>7 DEF IInv
<1>3. CASE registry' = [registry EXCEPT ![n] = Absent] /\ ghosts' = ghosts \union {n}
  <2>1. /\ registry' \in [Names -> Process]
        /\ registry'[n] = Absent
        /\ \A m \in Names \ {n} : SameBirth(m) /\ registry'[m].stage = registry[m].stage
        /\ registry'[n].stage = "none"
      BY <1>3, Replaced, AbsentFacts
  <2>2. TypeOK'
      BY <1>3, <2>1 DEF RestartProcess, TypeOK, boot, work
  <2>3. EveryLiveReachable' /\ Tables'
    <3>1. EveryLiveReachable'
        BY <1>3, <2>1 DEF EveryLiveReachable, RestartProcess
    <3>2. Tables'
        BY <1>3, <2>1 DEF Registered, RestartProcess, Tables
    <3> QED
        BY <3>1, <3>2
  <2>4. Incarnations'
      BY <1>3, <2>1 DEF Incarnations, RestartProcess
  <2>5. Peers'
    <3>1. Acquainted'
        BY <1>3, <2>1 DEF Acquainted, Peers, Registered, RestartProcess
    <3>2. Announced'
        BY <1>3, <2>1 DEF Announced, Peers, Registered, RestartProcess, Tables
    <3>3. NoneYet'
        BY <1>3, <2>1 DEF NoneYet, Peers, Registered, RestartProcess
    <3> QED
        BY <3>1, <3>2, <3>3 DEF Peers
  <2>6. Phases'
    <3>1. phase' = "idle"
        BY <1>3 DEF RestartProcess
    <3>2. NoneCreated'
        BY <1>3, <3>1, <2>1 DEF NoneCreated, Phases, RestartProcess, work
    <3>3. AtIdle'
        BY <1>3, <3>1, <2>1 DEF AtIdle, Nothing, Phases, Registered, RestartProcess, Settled,
           Started
    <3> QED
        BY <3>1, <3>2, <3>3 DEF AtBoot, AtCleanup, AtCreate, AtProvision, AtRbCleanup,
               AtRbCreate, AtRbProvision, AtRbStart, AtReady, AtStart, AtStop, Back,
               InRollback, InSwitch, Phases
  <2>7. Outlived'
    <3>1. phase = "idle" /\ UNCHANGED <<answer, round, alarm>>
        BY <1>3 DEF RestartProcess, outcome, work
    <3>2. \A m \in Names : m \in Registered' =>
              \/ m \in Registered /\ SameBirth(m) /\ config'[m] = config[m]
              \/ registry'[m].round = round
        BY <1>3, <2>1 DEF RestartProcess, Registered, TypeOK, tables
    <3> QED
        BY <3>1, <3>2, OutlivedKept
  <2> QED
      BY <2>2, <2>3, <2>4, <2>5, <2>6, <2>7 DEF IInv
<1> QED
    BY <1>1, <1>2, <1>3, AbsentFacts, ObjectFacts DEF RestartProcess

\* process.create: the object of a free name.
LEMMA CreateProcessInv ==
    ASSUME IInv, NEW n \in Names, NEW r \in Recipes, CreateProcess(n, r)
    PROVE  IInv'
<1> USE SwitchAssumption DEF IInv
<1>1. CASE Made(n, "new") /\ ghosts' = ghosts \union {n}
  <2>1. /\ registry' \in [Names -> Process]
        /\ registry'[n] = Object(n, "new")
        /\ \A m \in Names \ {n} : SameBirth(m) /\ registry'[m].stage = registry[m].stage
        /\ registry'[n].stage = "new" /\ registry'[n].born = incarnation[n]
        /\ registry'[n].round = round
        /\ \A m \in queues \union {n} : registry'[n].peers[m] = incarnation[m]
      BY <1>1, Replaced, ObjectFacts DEF CreateProcess, Made
  <2>2. TypeOK'
      BY <1>1, <2>1 DEF CreateProcess, Made, TypeOK, boot, work
  <2>3. EveryLiveReachable' /\ Tables'
    <3>1. EveryLiveReachable'
        BY <1>1, <2>1 DEF CreateProcess, EveryLiveReachable, Made
    <3>2. Tables'
        BY <1>1, <2>1 DEF CreateProcess, Made, Registered, Rounds, Tables, TypeOK
    <3> QED
        BY <3>1, <3>2
  <2>4. Incarnations'
      BY <1>1, <2>1 DEF CreateProcess, Incarnations
  <2>5. Peers'
    <3>1. Acquainted'
      <4> SUFFICES ASSUME NEW k \in Names, NEW l \in Names, k \in Registered', l \in Registered',
                          registry'[k].round >= registry'[l].round, l \notin late'
                   PROVE  registry'[k].peers[l] = incarnation'[l]
        BY DEF Acquainted
      <4>1. CASE k = n
          BY <1>1, <2>1, <4>1, Numbers DEF CreateProcess, Registered, Tables
      <4>2. CASE k # n /\ l = n
        <5>1. k \in Registered /\ SameBirth(k)
            BY <2>1, <4>2 DEF Registered
        <5>2. registry[k].round = round
          <6>1. registry'[k].round = registry[k].round /\ registry[k].round <= round
              BY <5>1 DEF SameBirth, Tables
          <6>2. registry'[k].round >= round
              BY <2>1, <4>2
          <6> QED
              BY <6>1, <6>2, Numbers
        <5>3. n \in queues /\ n \notin late /\ incarnation' = incarnation
            BY <1>1, <4>2 DEF CreateProcess, Made
        <5> QED
            BY <4>2, <5>1, <5>2, <5>3 DEF Announced, Peers, SameBirth
      <4>3. CASE k # n /\ l # n
          BY <1>1, <2>1, <4>3, Numbers DEF Acquainted, CreateProcess, Made, Peers, Registered
      <4> QED
          BY <4>1, <4>2, <4>3
    <3>2. Announced'
        BY <1>1, <2>1 DEF Announced, CreateProcess, Incarnations, Made, Peers, Registered
    <3>3. NoneYet'
        BY <1>1, <2>1 DEF CreateProcess, Early, NoneYet
    <3> QED
        BY <3>1, <3>2, <3>3 DEF Peers
  <2>6. Phases'
    <3>1. phase' = "idle"
        BY <1>1 DEF CreateProcess
    <3>2. NoneCreated'
        BY <1>1, <3>1, <2>1 DEF CreateProcess, NoneCreated, Phases, work
    <3>3. AtIdle'
        BY <1>1, <3>1, <2>1 DEF AtIdle, CreateProcess, Nothing, Phases, Registered, Settled,
           Started, TypeOK
    <3> QED
        BY <3>1, <3>2, <3>3 DEF AtBoot, AtCleanup, AtCreate, AtProvision, AtRbCleanup,
               AtRbCreate, AtRbProvision, AtRbStart, AtReady, AtStart, AtStop, Back,
               InRollback, InSwitch, Phases
  <2>7. Outlived'
    <3>1. phase = "idle" /\ UNCHANGED <<answer, round, alarm>>
        BY <1>1 DEF CreateProcess, outcome, work
    <3>2. \A m \in Names : m \in Registered' =>
              \/ m \in Registered /\ SameBirth(m) /\ config'[m] = config[m]
              \/ registry'[m].round = round
        BY <1>1, <2>1 DEF CreateProcess, Registered, TypeOK, tables
    <3> QED
        BY <3>1, <3>2, OutlivedKept
  <2> QED
      BY <2>2, <2>3, <2>4, <2>5, <2>6, <2>7 DEF IInv
<1>2. CASE Made(n, "alive") /\ ghosts' = ghosts
  <2>1. /\ registry' \in [Names -> Process]
        /\ registry'[n] = Object(n, "alive")
        /\ \A m \in Names \ {n} : SameBirth(m) /\ registry'[m].stage = registry[m].stage
        /\ registry'[n].stage = "alive" /\ registry'[n].born = incarnation[n]
        /\ registry'[n].round = round
        /\ \A m \in queues \union {n} : registry'[n].peers[m] = incarnation[m]
      BY <1>2, <1>2, Replaced, ObjectFacts DEF CreateProcess, Made
  <2>2. TypeOK'
      BY <1>2, <2>1 DEF CreateProcess, Made, TypeOK, boot, work
  <2>3. EveryLiveReachable' /\ Tables'
    <3>1. EveryLiveReachable'
        BY <1>2, <2>1 DEF CreateProcess, EveryLiveReachable, Made
    <3>2. Tables'
        BY <1>2, <2>1 DEF CreateProcess, Made, Registered, Rounds, Tables, TypeOK
    <3> QED
        BY <3>1, <3>2
  <2>4. Incarnations'
      BY <1>2, <2>1 DEF CreateProcess, Incarnations
  <2>5. Peers'
    <3>1. Acquainted'
      <4> SUFFICES ASSUME NEW k \in Names, NEW l \in Names, k \in Registered', l \in Registered',
                          registry'[k].round >= registry'[l].round, l \notin late'
                   PROVE  registry'[k].peers[l] = incarnation'[l]
        BY DEF Acquainted
      <4>1. CASE k = n
          BY <1>2, <2>1, <4>1, Numbers DEF CreateProcess, Registered, Tables
      <4>2. CASE k # n /\ l = n
        <5>1. k \in Registered /\ SameBirth(k)
            BY <2>1, <4>2 DEF Registered
        <5>2. registry[k].round = round
          <6>1. registry'[k].round = registry[k].round /\ registry[k].round <= round
              BY <5>1 DEF SameBirth, Tables
          <6>2. registry'[k].round >= round
              BY <2>1, <4>2
          <6> QED
              BY <6>1, <6>2, Numbers
        <5>3. n \in queues /\ n \notin late /\ incarnation' = incarnation
            BY <1>2, <4>2 DEF CreateProcess, Made
        <5> QED
            BY <4>2, <5>1, <5>2, <5>3 DEF Announced, Peers, SameBirth
      <4>3. CASE k # n /\ l # n
          BY <1>2, <2>1, <4>3, Numbers DEF Acquainted, CreateProcess, Made, Peers, Registered
      <4> QED
          BY <4>1, <4>2, <4>3
    <3>2. Announced'
        BY <1>2, <2>1 DEF Announced, CreateProcess, Incarnations, Made, Peers, Registered
    <3>3. NoneYet'
        BY <1>2, <2>1 DEF CreateProcess, Early, NoneYet
    <3> QED
        BY <3>1, <3>2, <3>3 DEF Peers
  <2>6. Phases'
    <3>1. phase' = "idle"
        BY <1>2 DEF CreateProcess
    <3>2. NoneCreated'
        BY <1>2, <3>1, <2>1 DEF CreateProcess, NoneCreated, Phases, work
    <3>3. AtIdle'
        BY <1>2, <3>1, <2>1 DEF AtIdle, CreateProcess, Nothing, Phases, Registered, Settled,
           Started, TypeOK
    <3> QED
        BY <3>1, <3>2, <3>3 DEF AtBoot, AtCleanup, AtCreate, AtProvision, AtRbCleanup,
               AtRbCreate, AtRbProvision, AtRbStart, AtReady, AtStart, AtStop, Back,
               InRollback, InSwitch, Phases
  <2>7. Outlived'
    <3>1. phase = "idle" /\ UNCHANGED <<answer, round, alarm>>
        BY <1>2 DEF CreateProcess, outcome, work
    <3>2. \A m \in Names : m \in Registered' =>
              \/ m \in Registered /\ SameBirth(m) /\ config'[m] = config[m]
              \/ registry'[m].round = round
        BY <1>2, <2>1 DEF CreateProcess, Registered, TypeOK, tables
    <3> QED
        BY <3>1, <3>2, OutlivedKept
  <2> QED
      BY <2>2, <2>3, <2>4, <2>5, <2>6, <2>7 DEF IInv
<1> QED
    BY <1>1, <1>2 DEF CreateProcess

\* process.start of an object that has never run.
LEMMA StartProcessInv ==
    ASSUME IInv, NEW n \in Names, StartProcess(n)
    PROVE  IInv'
<1> USE SwitchAssumption DEF IInv
<1>1. /\ registry' \in [Names -> Process]
      /\ \A m \in Names :
            /\ SameBirth(m)
            /\ registry'[m].stage = IF m = n THEN "alive" ELSE registry[m].stage
      /\ Registered' = Registered
  <2>1. /\ registry' \in [Names -> Process]
        /\ \A m \in Names :
              /\ SameBirth(m)
              /\ registry'[m].stage = IF m = n THEN "alive" ELSE registry[m].stage
      BY Restaged DEF Launched, Stages, StartProcess
  <2>2. Registered' = Registered
      BY <2>1 DEF Registered, StartProcess
  <2> QED
      BY <2>1, <2>2
<1>2. TypeOK'
    BY <1>1 DEF StartProcess, TypeOK, boot, work
<1>3. EveryLiveReachable' /\ Tables'
  <2>1. EveryLiveReachable'
      BY <1>1 DEF EveryLiveReachable, StartProcess
  <2>2. Tables'
      BY <1>1 DEF SameBirth, StartProcess, Tables
  <2> QED
      BY <2>1, <2>2
<1>4. Incarnations'
    BY <1>1 DEF Incarnations, StartProcess
<1>5. Peers'
  <2>1. UNCHANGED <<late, incarnation, queues>> /\ (round' = round \/ round' = round + 1)
      BY DEF StartProcess
  <2>2. \A m \in Names : m \in Registered' => m \in Registered /\ SameBirth(m)
      BY <1>1 DEF Registered, SameBirth
  <2>3. Acquainted' /\ Announced'
      BY <2>1, <2>2, PeersKept
  <2>4. NoneYet'
      BY <1>1, <2>2, Numbers DEF NoneYet, Peers, SameBirth, StartProcess
  <2> QED
      BY <2>3, <2>4 DEF Peers
<1>6. Phases'
  <2>1. phase' = "idle"
      BY DEF StartProcess
  <2>2. NoneCreated'
      BY <2>1, <1>1 DEF NoneCreated, Phases, StartProcess, work
  <2>3. AtIdle'
      BY <2>1, <1>1 DEF AtIdle, Nothing, Phases, Settled, StartProcess, Started
  <2> QED
      BY <2>1, <2>2, <2>3 DEF AtBoot, AtCleanup, AtCreate, AtProvision, AtRbCleanup,
             AtRbCreate, AtRbProvision, AtRbStart, AtReady, AtStart, AtStop, Back,
             InRollback, InSwitch, Phases
<1>7. Outlived'
    BY <1>1, OutlivedKept DEF StartProcess, tables, work
<1> QED
    BY <1>2, <1>3, <1>4, <1>5, <1>6, <1>7 DEF IInv

-----------------------------------------------------------------------------
(* The theorems.                                                           *)

LEMMA StepInv == IInv /\ [Next]_vars => IInv'
<1> SUFFICES ASSUME IInv, [Next]_vars PROVE IInv'
    OBVIOUS
<1>1. CASE Booting
    BY <1>1, BootOneInv, BootedInv DEF Booting
<1>2. CASE Switching
    BY <1>2, StopAllInv, NextPhaseInv, CommitInv, RaiseInv, RbStopInv, RbNextPhaseInv, RolledBackInv,
       CleanupInv, ProvisionInv, CreateInv, StartInv, RbCleanupInv, RbProvisionInv, RbCreateInv,
       RbStartInv
       DEF Switching
<1>3. CASE Refuse \/ \E r \in Recipes : Begin(r)
    BY <1>3, RefuseInv, BeginInv
<1>4. CASE \/ \E n \in Names : Crash(n) \/ RestartProcess(n) \/ StartProcess(n)
           \/ \E n \in Names, r \in Recipes : CreateProcess(n, r)
    BY <1>4, CrashInv, RestartProcessInv, StartProcessInv, CreateProcessInv
<1>5. CASE UNCHANGED vars
  <2>1. /\ UNCHANGED <<deps, phase, left, config, registry, orphans, queues, incarnation, late>>
        /\ UNCHANGED <<round, recipe, snapshot, touched, created, alarm, paused, answer>>
        /\ UNCHANGED <<excused, ghosts>>
      BY <1>5 DEF vars, boot, tables, work, outcome
  <2>2. TypeOK' /\ EveryLiveReachable' /\ Outlived'
      BY <2>1 DEF IInv, TypeOK, EveryLiveReachable, Outlived, Protected, Registered
  <2>3. Tables' /\ Incarnations' /\ Peers'
      BY <2>1 DEF IInv, Tables, Incarnations, Peers, Acquainted, Announced, NoneYet, Registered
  <2>4. Phases'
    <3>1. /\ Registered' = Registered /\ Old' = Old /\ New' = New
          /\ ShieldedBefore' = ShieldedBefore /\ Adopted' = Adopted /\ Victims' = Victims
        BY <2>1 DEF Registered, Old, New, ShieldedBefore, Adopted, Victims, PartialNew, Protected
    <3>2. \A n \in Names : /\ Nothing(n)' <=> Nothing(n)
                           /\ Started(n)' <=> Started(n)
                           /\ Settled(n)' <=> Settled(n)
                           /\ Survivor(n)' <=> Survivor(n)
                           /\ Lost(n)' <=> Lost(n)
                           /\ Restored(n)' <=> Restored(n)
                           /\ Alive(n)' <=> Alive(n)
        BY <2>1, <3>1 DEF Nothing, Started, Settled, Survivor, Lost, Restored, Alive
    <3>3. Old \subseteq Names /\ New \subseteq Names /\ Victims \subseteq Names
          /\ ShieldedBefore \subseteq Names /\ Adopted \subseteq Names /\ left \subseteq Names
        BY Sets DEF IInv, TypeOK, ShieldedBefore
    <3>4. /\ AtBoot' /\ AtIdle' /\ InSwitch' /\ NoneCreated'
          /\ AtStop' /\ AtCleanup' /\ AtProvision' /\ AtCreate' /\ AtStart' /\ AtReady'
        BY <2>1, <3>1, <3>2, <3>3
           DEF IInv, Phases, AtBoot, AtIdle, InSwitch, NoneCreated, AtStop, AtCleanup,
               AtProvision, AtCreate, AtStart, AtReady
    <3>5. InRollback' /\ AtRbCleanup' /\ AtRbProvision' /\ AtRbCreate' /\ AtRbStart'
        BY <2>1, <3>1, <3>2, <3>3
           DEF IInv, Phases, InRollback, AtRbCleanup, AtRbProvision, AtRbCreate, AtRbStart
    <3> QED
        BY <3>4, <3>5 DEF Phases
  <2> QED
      BY <2>2, <2>3, <2>4 DEF IInv
<1> QED
    BY <1>1, <1>2, <1>3, <1>4, <1>5 DEF Next

\* The inductive invariant holds throughout boot, switches and rollbacks.
THEOREM SwitchInvariant == Spec => []IInv
BY InitInv, StepInv, PTL DEF Spec

\* The tables of ProcessManager and the locals of apply_topology keep their types.
THEOREM SwitchTypeCorrect == Spec => []TypeOK
<1>1. IInv => TypeOK
    BY DEF IInv
<1> QED
    BY <1>1, SwitchInvariant, PTL

\* No child process ever becomes an orphan or a twin, whatever fails in a
\* switch and whoever outlives the stop.
THEOREM SwitchReachesEveryLive == Spec => []EveryLiveReachable
<1>1. IInv => EveryLiveReachable
    BY DEF IInv
<1> QED
    BY <1>1, SwitchInvariant, PTL

\* After every boot, switch and rollback the configs and the registry agree.
THEOREM SwitchConfigsMatch == Spec => []ConfigsMatchRegistry
<1>1. IInv => ConfigsMatchRegistry
    BY DEF IInv, ConfigsMatchRegistry, Quiet, Phases, AtIdle, Settled, Nothing, Started
<1> QED
    BY <1>1, SwitchInvariant, PTL

\* Between switches every process that runs stamps its name's incarnation.
THEOREM SwitchBornCurrent == Spec => []BornCurrent
<1>1. IInv => BornCurrent
    BY DEF IInv, BornCurrent, Tables, Registered, Alive
<1> QED
    BY <1>1, SwitchInvariant, PTL

\* Between switches every process knows the queues of those not younger.
THEOREM SwitchPeersKnown == Spec => []PeersKnown
<1>1. IInv => PeersKnown
    BY DEF IInv, PeersKnown, Peers, Acquainted, Registered, Alive
<1> QED
    BY <1>1, SwitchInvariant, PTL

\* What outlived a rollback is named in its answer.
THEOREM SwitchOutlivedNamed == Spec => []OutlivedAreNamed
<1>1. IInv => OutlivedAreNamed
    BY DEF IInv, OutlivedAreNamed, Outlived, Quiet, Registered, Alive
<1> QED
    BY <1>1, SwitchInvariant, PTL

\* Whoever the switch leaves alone is none of those it stops, makes or restores.
LEMMA ShieldedAreNone ==
    ASSUME IInv, phase \notin {"boot", "idle"}, NEW n \in ShieldedBefore
    PROVE  n \in Names /\ n \notin Old /\ n \notin New /\ n \notin Victims
<1>1. n \in Names /\ n \notin Old /\ n \notin New
    BY DEF ShieldedBefore, Old, New
<1>2. config[n] = snapshot[n] /\ snapshot[n] # NoConfig
    BY DEF IInv, Phases, InSwitch, ShieldedBefore
<1>3. n \in Protected
    BY <1>1, <1>2 DEF Protected, ShieldedBefore
<1> QED
    BY <1>1, <1>3 DEF Victims, PartialNew

\* The entry, the config and the incarnation of one name are left alone.
Alone(n) ==
    config'[n] = config[n] /\ registry'[n] = registry[n] /\ incarnation'[n] = incarnation[n]

\* A switch leaves alone the processes the running topology protects.
THEOREM SwitchShieldedUntouched == Spec => ShieldedUntouched
<1> DEFINE Left(n) == config'[n] = config[n] /\ SameEntry(n) /\ incarnation'[n] = incarnation[n]
<1>1. ASSUME IInv, [Next]_vars, phase \notin {"boot", "idle"}, NEW n \in ShieldedBefore
      PROVE  Left(n)
  <2>1. n \in Names /\ n \notin Old /\ n \notin New /\ n \notin Victims
      BY <1>1, ShieldedAreNone
  <2>2. TypeOK /\ Phases
      BY <1>1 DEF IInv
  <2>3. ASSUME UNCHANGED <<config, incarnation>>, SameBirth(n), registry' \in [Names -> Process]
        PROVE  Left(n)
    <3>1. registry[n] \in Process /\ registry'[n] \in Process
        BY <2>1, <2>2, <2>3 DEF TypeOK
    <3>2. SameEntry(n)
        BY <2>3, <3>1 DEF SameBirth, SameEntry, Process
    <3> QED
        BY <2>3, <3>2
  <2>4. Alone(n) => Left(n)
      BY DEF Alone, SameEntry
  <2>5. ASSUME NEW m \in Names, registry' = [registry EXCEPT ![m].stage = "alive"]
                             \/ registry' = [registry EXCEPT ![m].stage = "dead"],
               UNCHANGED <<config, incarnation>>
        PROVE  Left(n)
      BY <2>1, <2>2, <2>3, <2>5, Restaged DEF Stages
  <2>6. ASSUME NEW m \in Names, Crash(m) PROVE Left(n)
      BY <2>5, <2>6 DEF Crash
  <2>7. ASSUME NEW m \in Names, Start(m) \/ RbStart(m) PROVE Left(n)
    <3>1. UNCHANGED <<config, incarnation>>
        BY <2>7 DEF Start, RbStart
    <3>2. CASE Launched(m)
        BY <2>5, <3>1, <3>2 DEF Launched
    <3>3. CASE UNCHANGED registry
        BY <2>4, <3>1, <3>3 DEF Alone
    <3> QED
        BY <2>7, <3>2, <3>3 DEF Start, RbStart
  <2>8. CASE StopAll \/ RbStop
    <3>1. PICK names, spared : Stopped(names, spared)
        BY <2>8 DEF StopAll, RbStop
    <3>2. registry' \in [Names -> Process] /\ SameBirth(n)
        BY <2>1, <2>2, <3>1, StoppedFacts
    <3>3. UNCHANGED <<config, incarnation>>
        BY <2>8 DEF StopAll, RbStop
    <3> QED
        BY <2>3, <3>2, <3>3
  <2>9. ASSUME NEW m \in Names, Cleanup(m) \/ RbCleanup(m) PROVE Left(n)
    <3>1. m # n
        BY <2>1, <2>2, <2>9 DEF Cleanup, RbCleanup, Phases, AtCleanup, AtRbCleanup
    <3>2. Alone(n)
        BY <2>1, <2>2, <2>9, <3>1 DEF Cleanup, RbCleanup, Clean, Alone, TypeOK
    <3> QED
        BY <2>4, <3>2
  <2>10. ASSUME NEW m \in Names, Provision(m) \/ RbProvision(m) PROVE Left(n)
    <3>1. m # n
        BY <2>1, <2>2, <2>10 DEF Provision, RbProvision, Phases, AtProvision, AtRbProvision
    <3>2. Alone(n)
        BY <2>1, <2>2, <2>10, <3>1 DEF Provision, RbProvision, Provisioned, Alone, TypeOK
    <3> QED
        BY <2>4, <3>2
  <2>11. ASSUME NEW m \in Names, Create(m) \/ RbCreate(m) PROVE Left(n)
    <3>1. m # n
        BY <2>1, <2>2, <2>11 DEF Create, RbCreate, Phases, AtCreate, AtRbCreate
    <3>2. UNCHANGED incarnation
        BY <2>11 DEF Create, RbCreate
    <3>3. UNCHANGED config \/ \E c : config' = [config EXCEPT ![m] = c]
        BY <2>11 DEF Create, RbCreate
    <3>4. config'[n] = config[n]
        BY <2>1, <2>2, <3>1, <3>3 DEF TypeOK
    <3>5. UNCHANGED registry \/ \E entry : registry' = [registry EXCEPT ![m] = entry]
        BY <2>11 DEF Create, RbCreate, Made
    <3>6. registry'[n] = registry[n]
        BY <2>1, <2>2, <3>1, <3>5 DEF TypeOK
    <3> QED
        BY <2>4, <3>2, <3>4, <3>6 DEF Alone
  <2>12. CASE NextPhase \/ RbNextPhase \/ Commit \/ Raise \/ RolledBack \/ UNCHANGED vars
    <3>1. Alone(n)
        BY <2>12 DEF NextPhase, RbNextPhase, Commit, Raise, RolledBack, vars, tables, Alone
    <3> QED
        BY <2>4, <3>1
  <2>13. CASE Switching
    <3> HIDE DEF Left
    <3> QED
        BY <2>7, <2>8, <2>9, <2>10, <2>11, <2>12, <2>13 DEF Switching
  <2>14. /\ ~Booting /\ ~Refuse /\ \A r \in Recipes : ~Begin(r)
         /\ \A m \in Names : ~RestartProcess(m)
         /\ \A m \in Names, r \in Recipes : ~CreateProcess(m, r)
      BY <1>1 DEF Booting, BootOne, Booted, Refuse, Begin, RestartProcess, CreateProcess
  <2>15. \A m \in Names : ~StartProcess(m)
      BY <1>1 DEF StartProcess
  <2> HIDE DEF Left
  <2> QED
      BY <1>1, <2>6, <2>12, <2>13, <2>14, <2>15 DEF Next
<1>2. IInv /\ [Next]_vars =>
          [phase \notin {"boot", "idle"} => \A n \in ShieldedBefore : Left(n)]_vars
    BY <1>1
<1> QED
    BY <1>2, SwitchInvariant, PTL DEF Spec, ShieldedUntouched

-----------------------------------------------------------------------------
(* The switch implements SwitchTransaction.                                *)

Topo == IF phase \in {"boot", "idle"} THEN config ELSE snapshot

LEMMA TopoType == TypeOK => Topo \in [Names -> Recipes \union {NoConfig}]
BY DEF TypeOK, Topo

\* What a committed switch leaves is what the recipe makes of the former topology.
LEMMA CommitApplies ==
    ASSUME IInv, Commit
    PROVE  config = After(recipe, snapshot)
<1>1. phase = "ready" /\ TypeOK /\ AtReady /\ InSwitch
    BY DEF IInv, Phases, Commit
<1>2. ASSUME NEW n \in Names
      PROVE  config[n] = IF snapshot[n] # NoConfig /\ n \in Shielded[snapshot[n]] THEN snapshot[n]
                         ELSE IF n \in Members[recipe] THEN recipe ELSE NoConfig
  <2>1. CASE n \in ShieldedBefore
      BY <1>1, <2>1 DEF InSwitch, ShieldedBefore
  <2>2. CASE n \notin ShieldedBefore /\ n \in Members[recipe]
      BY <1>1, <2>2 DEF AtReady, ShieldedBefore, New
  <2>3. CASE n \notin ShieldedBefore /\ n \notin Members[recipe]
    <3>1. Nothing(n)
      <4>1. CASE n \in Old
          BY <1>1, <2>3, <4>1 DEF AtReady, New
      <4>2. CASE n \notin Old
          BY <1>1, <2>3, <4>2 DEF AtReady, InSwitch, New, Old
      <4> QED
          BY <4>1, <4>2
    <3> QED
        BY <2>3, <3>1 DEF Nothing, ShieldedBefore
  <2> QED
      BY <2>1, <2>2, <2>3
<1> QED
    BY <1>1, <1>2 DEF After, TypeOK

\* What a rollback leaves is the former topology, but for the excused.
LEMMA RollbackRestores ==
    ASSUME IInv, RolledBack, NEW n \in Names, n \notin excused
    PROVE  config[n] = snapshot[n]
<1>1. phase = "rb start" /\ left = {} /\ TypeOK /\ AtRbStart /\ InSwitch /\ InRollback
    BY DEF IInv, Phases, RolledBack
<1>2. CASE n \in ShieldedBefore
    BY <1>1, <1>2 DEF InSwitch
<1>3. CASE n \in Old
  <2>1. Restored(n)
      BY <1>1, <1>3 DEF AtRbStart, Victims, Survivor, Lost
  <2> QED
      BY <2>1 DEF Restored
<1>4. CASE n \notin ShieldedBefore /\ n \notin Old
  <2>1. snapshot[n] = NoConfig
      BY <1>4 DEF Old
  <2>2. CASE n \notin touched
      BY <1>1, <2>1, <2>2 DEF InSwitch, Nothing
  <2>3. CASE n \in touched
    <3>1. n \in Victims
        BY <1>1, <1>4, <2>3 DEF InRollback, Back, Adopted, Victims, PartialNew
    <3>2. Nothing(n)
        BY <1>1, <1>4, <3>1 DEF AtRbStart, Survivor, Lost
    <3> QED
        BY <2>1, <3>2 DEF Nothing
  <2> QED
      BY <2>2, <2>3
<1> QED
    BY <1>2, <1>3, <1>4

\* Seen from between the switches, a switch either commits or restores.
THEOREM SwitchAllOrNothing == Spec => AllOrNothing
<1> DEFINE AStep == Transaction!Next \/ UNCHANGED <<Topo, excused>>
<1>1. Init => Transaction!Init
    BY InitInv, TopoType DEF Init, IInv, Transaction!Init, Topo
<1>2. ASSUME IInv, IInv', [Next]_vars PROVE AStep
  <2>1. Topo \in [Names -> Recipes \union {NoConfig}] /\ Topo' \in [Names -> Recipes \union {NoConfig}]
      BY <1>2, TopoType DEF IInv, Topo, TypeOK
  <2>2. excused' \in SUBSET Names /\ TypeOK
      BY <1>2 DEF IInv, TypeOK
  <2>3. ASSUME \A n \in Names \ excused' : Topo'[n] = Topo[n] PROVE AStep
      BY <2>1, <2>2, <2>3 DEF Transaction!Next, Transaction!Restore, Topo
  <2>4. Topo' = Topo => AStep
      BY <2>3
  <2>5. ASSUME NEW n \in Names, BootOne(n) PROVE AStep
    <3>1. phase = "boot" /\ phase' = "boot"
        BY <2>5 DEF BootOne
    <3>2. \A m \in Names \ excused' : config'[m] = config[m]
        BY <2>2, <2>5 DEF BootOne, TypeOK
    <3> QED
        BY <2>3, <3>1, <3>2 DEF Topo
  <2>6. CASE Commit
    <3>1. Topo = snapshot /\ Topo' = config /\ recipe \in Recipes /\ excused' = {}
        BY <2>2, <2>6 DEF Commit, Return, Topo, TypeOK, tables
    <3>2. Topo' = After(recipe, Topo)
        BY <1>2, <2>6, <3>1, CommitApplies
    <3> QED
        BY <3>1, <3>2 DEF Transaction!Next, Transaction!Switch, Topo
  <2>7. CASE RolledBack
    <3>1. Topo = snapshot /\ Topo' = config /\ excused' = excused
        BY <2>7 DEF RolledBack, Return, Topo, tables
    <3>2. \A n \in Names \ excused' : Topo'[n] = Topo[n]
        BY <1>2, <2>7, <3>1, RollbackRestores
    <3> QED
        BY <2>3, <3>2
  <2>8. ASSUME NEW n \in Names, NEW r \in Recipes, CreateProcess(n, r) PROVE AStep
    <3>1. Topo = config /\ Topo' = config' /\ excused' = excused
        BY <2>8 DEF CreateProcess, Topo
    <3>2. config[n] = NoConfig /\ config' = [config EXCEPT ![n] = r]
        BY <2>8 DEF CreateProcess
    <3> QED
        BY <3>1, <3>2 DEF Transaction!Next, Transaction!Add, Topo
  <2>9. ASSUME phase \in {"boot", "idle"} <=> phase' \in {"boot", "idle"},
               UNCHANGED <<config, snapshot>>
        PROVE  AStep
      BY <2>4, <2>9 DEF Topo
  <2>10. ASSUME phase \notin {"boot", "idle"}, phase' \notin {"boot", "idle"}, UNCHANGED snapshot
         PROVE  AStep
      BY <2>4, <2>10 DEF Topo
  <2>11. CASE Booted \/ Refuse \/ \E n \in Names : RestartProcess(n) \/ StartProcess(n) \/ Crash(n)
    <3>1. /\ phase \in {"boot", "idle"} <=> phase' \in {"boot", "idle"}
          /\ UNCHANGED <<config, snapshot>>
        BY <2>11 DEF Booted, Refuse, RestartProcess, StartProcess, Crash, tables, work
    <3> QED
        BY <2>9, <3>1
  <2>12. ASSUME NEW r \in Recipes, Begin(r) PROVE AStep
    <3>1. Topo' = Topo
        BY <2>12 DEF Begin, Topo, tables
    <3> QED
        BY <2>4, <3>1
  <2>13. CASE StopAll \/ NextPhase \/ Raise \/ RbStop \/ RbNextPhase
    <3>1. UNCHANGED snapshot
        BY <2>13 DEF StopAll, NextPhase, Raise, RbStop, RbNextPhase, work
    <3>2. CASE StopAll \/ Raise \/ RbStop
      <4>1. phase \notin {"boot", "idle"} /\ phase' \notin {"boot", "idle"}
          BY <3>2 DEF StopAll, Raise, RbStop, GiveUp
      <4> QED
          BY <2>10, <3>1, <4>1
    <3>3. CASE NextPhase
      <4>1. phase \notin {"boot", "idle"} /\ phase' \notin {"boot", "idle"}
          BY <3>3 DEF NextPhase, Follow
      <4> QED
          BY <2>10, <3>1, <4>1
    <3>4. CASE RbNextPhase
      <4>1. phase \notin {"boot", "idle"} /\ phase' \notin {"boot", "idle"}
          BY <3>4 DEF RbNextPhase, FollowBack
      <4> QED
          BY <2>10, <3>1, <4>1
    <3> QED
        BY <2>13, <3>2, <3>3, <3>4
  <2>14. CASE \E n \in Names : \/ Cleanup(n) \/ Provision(n) \/ Create(n) \/ Start(n)
                               \/ RbCleanup(n) \/ RbProvision(n) \/ RbCreate(n) \/ RbStart(n)
    <3>1. UNCHANGED snapshot /\ phase \notin {"boot", "idle"} /\ phase' \notin {"boot", "idle"}
        BY <2>14 DEF Cleanup, Provision, Create, Start, RbCleanup, RbProvision, RbCreate, RbStart,
                     GiveUp, work
    <3> QED
        BY <2>10, <3>1
  <2>15. CASE UNCHANGED vars
    <3>1. UNCHANGED <<phase, config, snapshot>>
        BY <2>15 DEF vars, tables, work
    <3> QED
        BY <2>9, <3>1
  <2> HIDE DEF AStep
  <2> QED
      BY <1>2, <2>5, <2>6, <2>7, <2>8, <2>11, <2>12, <2>13, <2>14, <2>15
         DEF Next, Booting, Switching
<1>3. IInv /\ IInv' /\ [Next]_vars => [Transaction!Next]_Transaction!vars
    BY <1>2 DEF Transaction!vars, Topo
<1> QED
    BY <1>1, <1>3, SwitchInvariant, PTL DEF Spec, AllOrNothing, Transaction!Spec
=============================================================================
