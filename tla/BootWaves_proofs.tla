-------------------------- MODULE BootWaves_proofs ---------------------------
(***************************************************************************)
(* The boot waves of TopologySwitch respect depends_on, for every graph.   *)
(*                                                                         *)
(* Two arguments meet here.  The first is about the recursive function     *)
(* Placed alone: it defines what it says, it only grows, and after as many *)
(* rounds as there are names it leaves out the processes on or behind a    *)
(* cycle and nobody else.  Each of these goes by induction on the rounds,  *)
(* written as a smallest counterexample, which needs the well-foundedness  *)
(* of the naturals only.  The second is the invariant of the boot: whoever *)
(* has been handled is in no later wave than whoever is left.              *)
(***************************************************************************)
EXTENDS TopologySwitch_proofs, FiniteSetTheorems

-----------------------------------------------------------------------------
(* The rounds of Kahn's algorithm.                                         *)

\* A set of naturals has a smallest element.
LEMMA Smallest ==
    ASSUME NEW T \in SUBSET Nat, T # {}
    PROVE  \E x \in T : \A y \in T : x <= y
<1> DEFINE R == OpToRel(<, Nat)
<1>1. \A x, y \in T : <<y, x>> \in R <=> y < x
  BY DEF OpToRel
<1>2. IsWellFoundedOn(R, Nat)
  BY NatLessThanWellFounded
<1> HIDE DEF R
<1>3. \E x \in T : \A y \in T : ~ (<<y, x>> \in R)
  BY <1>2, WFMin
<1>4. PICK x \in T : \A y \in T : ~ (<<y, x>> \in R)
  BY <1>3
<1>5. \A y \in T : ~ (y < x)
  BY <1>1, <1>4
<1>6. \A y \in T : x <= y
  BY <1>5
<1> QED
  BY <1>6

\* One round: those are added whose dependencies have all been placed.
Ripe(S) == S \union {n \in Members[Boot] : Upstream(n) \subseteq S}

\* The number of rounds the definition allows.
Last == Cardinality(Names)

LEMMA LastNat == Last \in Nat
BY SwitchAssumption, FS_CardinalityType DEF Last

\* Up to every k there is a function that computes the rounds one by one.
LEMMA RoundsExist ==
    \A k \in Nat :
        \E h \in [0 .. k -> SUBSET Names] :
            \A i \in 0 .. k : h[i] = IF i = 0 THEN {} ELSE Ripe(h[i - 1])
<1> DEFINE OK(k) == \E h \in [0 .. k -> SUBSET Names] :
                        \A i \in 0 .. k : h[i] = IF i = 0 THEN {} ELSE Ripe(h[i - 1])
           Bad == {k \in Nat : ~ OK(k)}
<1>1. OK(0)
  <2> DEFINE h == [i \in 0 .. 0 |-> {}]
  <2>1. h \in [0 .. 0 -> SUBSET Names]
    OBVIOUS
  <2>2. \A i \in 0 .. 0 : i = 0 /\ h[i] = {}
    OBVIOUS
  <2> HIDE DEF h
  <2> QED
    BY <2>1, <2>2
<1>2. ASSUME NEW k \in Nat, k # 0, OK(k - 1) PROVE OK(k)
  <2>1. PICK h \in [0 .. k - 1 -> SUBSET Names] :
            \A i \in 0 .. k - 1 : h[i] = IF i = 0 THEN {} ELSE Ripe(h[i - 1])
    BY <1>2
  <2> DEFINE e == [i \in 0 .. k |-> IF i = k THEN Ripe(h[k - 1]) ELSE h[i]]
  <2>2. \A i \in 0 .. k : i \in 0 .. k - 1 \/ i = k
    BY <1>2
  <2>3. k - 1 \in 0 .. k - 1 /\ k - 1 \in 0 .. k /\ k - 1 # k
    BY <1>2
  <2>4. Ripe(h[k - 1]) \in SUBSET Names
    BY <2>3, SwitchAssumption DEF Ripe
  <2>5. e \in [0 .. k -> SUBSET Names]
    BY <2>2, <2>4
  <2>6. \A i \in 0 .. k : e[i] = IF i = 0 THEN {} ELSE Ripe(e[i - 1])
    <3> TAKE i \in 0 .. k
    <3>1. CASE i = k
      <4>1. e[i] = Ripe(h[k - 1]) /\ e[i - 1] = h[k - 1]
        BY <2>3, <3>1
      <4> QED
        BY <4>1, <3>1, <1>2
    <3>2. CASE i # k
      <4>1. i \in 0 .. k - 1 /\ e[i] = h[i]
        BY <2>2, <3>2
      <4>2. i # 0 => i - 1 \in 0 .. k /\ i - 1 # k
        BY <3>2
      <4>3. i # 0 => e[i - 1] = h[i - 1]
        BY <4>2
      <4> QED
        BY <2>1, <4>1, <4>3
    <3> QED
      BY <3>1, <3>2
  <2> QED
    BY <2>5, <2>6
<1>3. Bad = {}
  <2> SUFFICES ASSUME Bad # {} PROVE FALSE
    OBVIOUS
  <2>0. Bad \in SUBSET Nat
    OBVIOUS
  <2>1. PICK k \in Bad : \A j \in Bad : k <= j
    BY <2>0, Smallest
  <2>2. k \in Nat /\ ~ OK(k)
    OBVIOUS
  <2>3. k # 0
    BY <1>1, <2>2
  <2>4. k - 1 \in Nat /\ ~ (k <= k - 1)
    BY <2>2, <2>3
  <2>5. OK(k - 1)
    BY <2>1, <2>4
  <2> QED
    BY <1>2, <2>2, <2>3, <2>5
<1>4. \A k \in Nat : OK(k)
  BY <1>3
<1> QED
  BY <1>4

\* The recursive definition defines what it says.
LEMMA PlacedRounds ==
    /\ Placed \in [0 .. Last -> SUBSET Names]
    /\ \A k \in 0 .. Last :
           Placed[k] = IF k = 0 THEN {} ELSE Ripe(Placed[k - 1])
<1>1. PICK h \in [0 .. Last -> SUBSET Names] :
          \A k \in 0 .. Last : h[k] = IF k = 0 THEN {} ELSE Ripe(h[k - 1])
  BY RoundsExist, LastNat
<1>2. h = [k \in 0 .. Last |-> IF k = 0 THEN {} ELSE Ripe(h[k - 1])]
  BY <1>1
<1>3. Placed = [k \in 0 .. Last |-> IF k = 0 THEN {} ELSE Ripe(Placed[k - 1])]
  BY <1>2 DEF Placed, Ripe, Last
<1>4. \A k \in 0 .. Last : Placed[k] = h[k]
  <2> DEFINE Bad == {k \in 0 .. Last : Placed[k] # h[k]}
  <2>1. Bad \in SUBSET Nat
    BY LastNat
  <2>2. ASSUME Bad # {} PROVE FALSE
    <3>1. PICK k \in Bad : \A j \in Bad : k <= j
      BY <2>1, <2>2, Smallest
    <3>2. k \in 0 .. Last /\ Placed[k] # h[k]
      OBVIOUS
    <3>3. k # 0
      BY <1>1, <1>3, <3>2
    <3>4. k - 1 \in 0 .. Last /\ ~ (k <= k - 1)
      BY <3>2, <3>3, LastNat
    <3>5. Placed[k - 1] = h[k - 1]
      BY <3>1, <3>4
    <3> QED
      BY <1>1, <1>3, <3>2, <3>3, <3>5
  <2> QED
    BY <2>2
<1> QED
  BY <1>1, <1>3, <1>4

\* Only processes of the boot recipe are placed.
LEMMA PlacedMembers == \A k \in 0 .. Last : Placed[k] \subseteq Members[Boot]
<1> DEFINE Bad == {k \in 0 .. Last : ~ (Placed[k] \subseteq Members[Boot])}
<1>1. Bad \in SUBSET Nat
  BY LastNat
<1>2. ASSUME Bad # {} PROVE FALSE
  <2>1. PICK k \in Bad : \A j \in Bad : k <= j
    BY <1>1, <1>2, Smallest
  <2>2. k \in 0 .. Last /\ ~ (Placed[k] \subseteq Members[Boot])
    OBVIOUS
  <2>3. k # 0
    BY <2>2, PlacedRounds
  <2>4. k - 1 \in 0 .. Last /\ ~ (k <= k - 1)
    BY <2>2, <2>3, LastNat
  <2>5. Placed[k - 1] \subseteq Members[Boot]
    BY <2>1, <2>4
  <2>6. Placed[k] = Ripe(Placed[k - 1])
    BY <2>2, <2>3, PlacedRounds
  <2> QED
    BY <2>2, <2>5, <2>6 DEF Ripe
<1> QED
  BY <1>2

\* Who is placed stays placed.
LEMMA PlacedGrows ==
    \A j \in 0 .. Last : \A i \in 0 .. j : Placed[i] \subseteq Placed[j]
<1> DEFINE Bad == {j \in 0 .. Last : \E i \in 0 .. j : ~ (Placed[i] \subseteq Placed[j])}
<1>1. Bad \in SUBSET Nat
  BY LastNat
<1>2. ASSUME Bad # {} PROVE FALSE
  <2>1. PICK j \in Bad : \A k \in Bad : j <= k
    BY <1>1, <1>2, Smallest
  <2>2. j \in 0 .. Last
    OBVIOUS
  <2>3. PICK i \in 0 .. j : ~ (Placed[i] \subseteq Placed[j])
    OBVIOUS
  <2>4. i # j /\ j # 0
    BY <2>2, <2>3
  <2>5. j - 1 \in 0 .. Last /\ i \in 0 .. j - 1 /\ ~ (j <= j - 1)
    BY <2>2, <2>3, <2>4, LastNat
  <2>6. j - 1 \notin Bad
    BY <2>1, <2>5
  <2>7. Placed[i] \subseteq Placed[j - 1]
    BY <2>5, <2>6
  <2>8. Placed[j] = Ripe(Placed[j - 1])
    BY <2>2, <2>4, PlacedRounds
  <2> QED
    BY <2>3, <2>7, <2>8 DEF Ripe
<1> QED
  BY <1>2

\* As many rounds as there are names are enough: a round that places somebody
\* places one more name, and one that places nobody is the last.
LEMMA RoundsSuffice == Ripe(Placed[Last]) = Placed[Last]
<1> DEFINE Done(k) == Ripe(Placed[k]) = Placed[k]
           Bad == {k \in 0 .. Last : ~ (Done(k) \/ Cardinality(Placed[k]) >= k)}
<1>0. \A k \in 0 .. Last : /\ Placed[k] \in SUBSET Names
                           /\ IsFiniteSet(Placed[k])
                           /\ Cardinality(Placed[k]) \in Nat
  BY PlacedRounds, SwitchAssumption, FS_Subset, FS_CardinalityType
<1>1. Bad \in SUBSET Nat
  BY LastNat
<1>2. ASSUME Bad # {} PROVE FALSE
  <2>1. PICK k \in Bad : \A j \in Bad : k <= j
    BY <1>1, <1>2, Smallest
  <2>2. k \in 0 .. Last /\ ~ Done(k) /\ ~ (Cardinality(Placed[k]) >= k)
    OBVIOUS
  <2>3. k # 0
    BY <1>0, <2>2
  <2>4. k - 1 \in 0 .. Last /\ ~ (k <= k - 1)
    BY <2>2, <2>3, LastNat
  <2>5. Placed[k] = Ripe(Placed[k - 1])
    BY <2>2, <2>3, PlacedRounds
  <2>6. ~ Done(k - 1)
    BY <2>2, <2>5
  <2>7. Cardinality(Placed[k - 1]) >= k - 1
    BY <2>1, <2>4, <2>6
  <2>8. Placed[k - 1] \in SUBSET Placed[k] /\ Placed[k - 1] # Placed[k]
    BY <2>5, <2>6 DEF Ripe
  <2>9. Cardinality(Placed[k - 1]) <= Cardinality(Placed[k])
        /\ Cardinality(Placed[k - 1]) # Cardinality(Placed[k])
    BY <1>0, <2>2, <2>8, FS_Subset
  <2>10. Cardinality(Placed[k - 1]) \in Nat /\ Cardinality(Placed[k]) \in Nat
    BY <1>0, <2>2, <2>4
  <2> QED
    BY <2>2, <2>7, <2>9, <2>10
<1>3. Last \in 0 .. Last
  BY LastNat
<1>4. CASE Done(Last)
  BY <1>4
<1>5. CASE Cardinality(Placed[Last]) >= Last
  <2>1. Cardinality(Placed[Last]) <= Last
        /\ (Cardinality(Placed[Last]) = Last => Placed[Last] = Names)
    BY <1>0, <1>3, SwitchAssumption, FS_Subset DEF Last
  <2>2. Placed[Last] = Names
    BY <1>0, <1>3, <1>5, <2>1, LastNat
  <2> QED
    BY <2>2, SwitchAssumption DEF Ripe
<1> QED
  BY <1>2, <1>3, <1>4, <1>5

\* A round that would place nobody although processes remain, in which case
\* _compute_boot_waves falls back to one flat wave, occurs exactly when the
\* dependencies of the recipe have a cycle: no order is given up without need.
THEOREM FlatWaveOnlyOnLoops == Cyclic <=> Loop
<1>0. Last \in 0 .. Last
  BY LastNat
<1>1. ASSUME Cyclic PROVE Loop
  <2> DEFINE S == Members[Boot] \ Placed[Last]
  <2>1. Placed[Last] # Members[Boot]
    BY <1>1 DEF Cyclic, Last
  <2>2. S \in (SUBSET Members[Boot]) \ {{}}
    BY <1>0, <2>1, PlacedMembers
  <2>3. ASSUME NEW n \in S PROVE (deps[n] \intersect S) \ {n} # {}
    <3>1. ~ (Upstream(n) \subseteq Placed[Last])
      BY <2>3, RoundsSuffice DEF Ripe
    <3>2. PICK m \in Upstream(n) : m \notin Placed[Last]
      BY <3>1
    <3>3. m \in deps[n] /\ m \in S /\ m # n
      BY <3>2 DEF Upstream
    <3> QED
      BY <3>3
  <2> QED
    BY <2>2, <2>3 DEF Loop
<1>2. ASSUME Loop PROVE Cyclic
  <2>1. PICK S \in (SUBSET Members[Boot]) \ {{}} :
            \A n \in S : (deps[n] \intersect S) \ {n} # {}
    BY <1>2 DEF Loop
  <2> DEFINE Bad == {k \in 0 .. Last : Placed[k] \intersect S # {}}
  <2>2. Bad \in SUBSET Nat
    BY LastNat
  <2>3. ASSUME Bad # {} PROVE FALSE
    <3>1. PICK k \in Bad : \A j \in Bad : k <= j
      BY <2>2, <2>3, Smallest
    <3>2. k \in 0 .. Last /\ Placed[k] \intersect S # {}
      OBVIOUS
    <3>3. k # 0
      BY <3>2, PlacedRounds
    <3>4. k - 1 \in 0 .. Last /\ ~ (k <= k - 1)
      BY <3>2, <3>3, LastNat
    <3>5. Placed[k - 1] \intersect S = {}
      BY <3>1, <3>4
    <3>6. PICK n \in S : n \in Placed[k]
      BY <3>2
    <3>7. Upstream(n) \subseteq Placed[k - 1]
      BY <3>2, <3>3, <3>5, <3>6, PlacedRounds DEF Ripe
    <3>8. PICK m \in (deps[n] \intersect S) \ {n} : TRUE
      BY <2>1
    <3>9. m \in Upstream(n)
      BY <2>1, <3>8 DEF Upstream
    <3> QED
      BY <3>5, <3>7, <3>8, <3>9
  <2>4. Placed[Last] \intersect S = {}
    BY <1>0, <2>3
  <2> QED
    BY <2>1, <2>4 DEF Cyclic, Last
<1> QED
  BY <1>1, <1>2

\* Without a cycle the wave of a process is the round that places it.
LEMMA WaveOf ==
    ASSUME ~ Cyclic, NEW n \in Members[Boot]
    PROVE  /\ Wave(n) \in 1 .. Last
           /\ n \in Placed[Wave(n)] /\ n \notin Placed[Wave(n) - 1]
<1> DEFINE T == {k \in 0 .. Last : n \in Placed[k]}
<1>0. T \in SUBSET Nat /\ Last \in T
  BY LastNat DEF Cyclic, Last
<1>1. PICK k \in T : \A j \in T : k <= j
  BY <1>0, Smallest
<1>2. k \in 0 .. Last /\ n \in Placed[k]
  OBVIOUS
<1>3. k # 0
  BY <1>2, PlacedRounds
<1>4. k \in 1 .. Last /\ k - 1 \in 0 .. Last /\ ~ (k <= k - 1)
  BY <1>2, <1>3, LastNat
<1>5. n \in Placed[k] \ Placed[k - 1]
  BY <1>1, <1>2, <1>4
<1>6. Wave(n) = CHOOSE i \in 1 .. Last : n \in Placed[i] \ Placed[i - 1]
  BY DEF Wave, Last
<1> QED
  BY <1>4, <1>5, <1>6

\* ... which comes after those of the processes it depends on.
LEMMA WavesRespectDeps ==
    ASSUME ~ Cyclic, NEW n \in Members[Boot], NEW m \in Upstream(n)
    PROVE  ~ (Wave(n) <= Wave(m))
<1>0. m \in Members[Boot]
  BY DEF Upstream
<1>1. /\ Wave(n) \in 1 .. Last /\ Wave(m) \in 1 .. Last
      /\ n \in Placed[Wave(n)] /\ n \notin Placed[Wave(n) - 1]
      /\ m \notin Placed[Wave(m) - 1]
  BY <1>0, WaveOf
<1>2. Wave(n) \in 0 .. Last /\ Wave(n) # 0 /\ Wave(n) - 1 \in 0 .. Last
  BY <1>1, LastNat
<1>3. Upstream(n) \subseteq Placed[Wave(n) - 1]
  BY <1>1, <1>2, PlacedRounds DEF Ripe
<1>4. ASSUME Wave(n) <= Wave(m) PROVE FALSE
  <2>1. Wave(m) - 1 \in 0 .. Last /\ Wave(n) - 1 \in 0 .. Wave(m) - 1
    BY <1>1, <1>4, LastNat
  <2>2. Placed[Wave(n) - 1] \subseteq Placed[Wave(m) - 1]
    BY <2>1, PlacedGrows
  <2> QED
    BY <1>1, <1>3, <2>2
<1> QED
  BY <1>4

-----------------------------------------------------------------------------
(* The boot goes by the waves.                                             *)

\* Whoever is handled is in no later wave than whoever is left.
InWaves ==
    phase = "boot" =>
        /\ left \subseteq Members[Boot]
        /\ Registered \subseteq Members[Boot] \ left
        /\ \A n \in Members[Boot] \ left, m \in left : Wave(n) <= Wave(m)

\* Nobody is created yet.
LEMMA WavesInit == Init => InWaves
BY DEF Init, InWaves, Registered, Absent

\* The waves are a matter of depends_on alone.
LEMMA WavesKept == UNCHANGED deps => \A n \in Names : Wave(n)' = Wave(n)
BY DEF Wave, Cyclic, Placed, Upstream

\* A process is created only when it is of the earliest wave left; no other
\* action of the boot moves anybody.
LEMMA WavesStep == TypeOK /\ InWaves /\ [Next]_vars => InWaves'
<1> SUFFICES ASSUME TypeOK, InWaves, [Next]_vars, phase' = "boot" PROVE InWaves'
  BY DEF InWaves
<1> USE SwitchAssumption
<1>1. ASSUME NEW n \in Names, BootOne(n) PROVE InWaves'
  <2>1. /\ phase = "boot" /\ n \in left /\ left' = left \ {n} /\ UNCHANGED deps
        /\ \A m \in left : Wave(n) <= Wave(m)
    BY <1>1 DEF BootOne, boot
  <2>2. Registered' \subseteq Registered \union {n}
    BY <1>1 DEF BootOne, Made, Registered, TypeOK
  <2>3. \A m \in Members[Boot] \ left', q \in left' : Wave(m) <= Wave(q)
    BY <2>1 DEF InWaves
  <2>4. \A m \in Members[Boot] : Wave(m)' = Wave(m)
    BY <2>1, WavesKept
  <2> QED
    BY <2>1, <2>2, <2>3, <2>4 DEF InWaves
<1>2. ASSUME NEW n \in Names, Crash(n) PROVE InWaves'
  <2>1. UNCHANGED <<deps, phase, left>>
    BY <1>2 DEF Crash, boot
  <2>2. Registered' = Registered
    BY <1>2 DEF Crash, Registered, Alive, TypeOK, Process
  <2>3. \A m \in Members[Boot] : Wave(m)' = Wave(m)
    BY <2>1, WavesKept
  <2> QED
    BY <2>1, <2>2, <2>3 DEF InWaves
<1>3. CASE UNCHANGED vars
  <2>1. UNCHANGED <<deps, phase, left, registry>>
    BY <1>3 DEF vars, boot, tables
  <2>2. Registered' = Registered
    BY <2>1 DEF Registered
  <2>3. \A m \in Members[Boot] : Wave(m)' = Wave(m)
    BY <2>1, WavesKept
  <2> QED
    BY <2>1, <2>2, <2>3 DEF InWaves
\* The other actions belong to later phases, and none leads back to the boot.
<1>4. ~ Booted /\ ~ Refuse /\ \A r \in Recipes : ~ Begin(r)
  BY DEF Booted, Refuse, Begin
<1>5. \A n \in Names : /\ ~ RestartProcess(n) /\ ~ StartProcess(n)
                       /\ \A r \in Recipes : ~ CreateProcess(n, r)
  BY DEF RestartProcess, StartProcess, CreateProcess
<1>6. ~ StopAll /\ ~ NextPhase /\ ~ Commit /\ ~ Raise
  BY DEF StopAll, NextPhase, Follow, Commit, Return, Raise, GiveUp
<1>7. ~ RbStop /\ ~ RolledBack
  BY DEF RbStop, RolledBack, Return
<1>8. ~ RbNextPhase
  BY DEF RbNextPhase, FollowBack
<1>9. \A n \in Names : ~ Cleanup(n) /\ ~ Provision(n) /\ ~ Create(n) /\ ~ Start(n)
  BY DEF Cleanup, Provision, Create, Start, GiveUp
<1>10. \A n \in Names : /\ ~ RbCleanup(n) /\ ~ RbProvision(n)
                        /\ ~ RbCreate(n) /\ ~ RbStart(n)
  BY DEF RbCleanup, RbProvision, RbCreate, RbStart
<1> QED
  BY <1>1, <1>2, <1>3, <1>4, <1>5, <1>6, <1>7, <1>8, <1>9, <1>10
     DEF Next, Booting, Switching

\* Whatever the dependencies, the recipe and the failures of single creates, no
\* process of the boot is created before one it depends on, but for a cycle.
THEOREM BootFollowsDeps == Spec => []BootOrder
<1>1. InWaves => BootOrder
  <2> SUFFICES ASSUME InWaves, phase = "boot", ~ Loop, NEW n \in Registered,
                      NEW m \in deps[n] \intersect left, m # n
               PROVE  FALSE
    BY DEF BootOrder
  <2>1. n \in Members[Boot] \ left /\ m \in left /\ m \in Members[Boot]
    BY DEF InWaves
  <2>2. m \in Upstream(n)
    BY <2>1 DEF Upstream
  <2>3. ~ Cyclic
    BY FlatWaveOnlyOnLoops
  <2>4. Wave(n) <= Wave(m)
    BY <2>1 DEF InWaves
  <2> QED
    BY <2>1, <2>2, <2>3, <2>4, WavesRespectDeps
<1>2. Spec => []TypeOK
  BY SwitchTypeCorrect
<1>3. Spec => []InWaves
  BY <1>2, WavesInit, WavesStep, PTL DEF Spec
<1> QED
  BY <1>1, <1>3, PTL
=============================================================================
