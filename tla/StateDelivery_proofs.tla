------------------------ MODULE StateDelivery_proofs ------------------------
(***************************************************************************)
(* Proofs about StateDelivery, for any tree, subscriptions, number of      *)
(* threads and capacity of the queue.                                      *)
(*                                                                         *)
(* The copy and the tree are compared leaf by leaf, through the deltas     *)
(* under way.  A write of a watched leaf is in a thread's hands until it   *)
(* is dispatched (Undispatched); then it is carried, in the buffer or an   *)
(* envelope, or it is lost so that the next envelope shows a gap           *)
(* (Reaching, Arriving, Vanishing).  Deltas that were not buffered too     *)
(* late are carried in the order of their revisions (Sorted), so that the  *)
(* last one applied is the youngest, and it is true (FreshIsTrue).         *)
(***************************************************************************)
EXTENDS StateDelivery, FiniteSetTheorems, WellFoundedInduction, TLAPS

-----------------------------------------------------------------------------
(* Where a delta may be.                                                   *)

InFlight == {batch[i] : i \in DOMAIN batch} \union {queue[i] : i \in DOMAIN queue}

\* Some of the deltas ds writes v at path p under revision n.
Holds(ds, p, v, n) ==
    \E i \in DOMAIN ds :
        /\ p \in DOMAIN ds[i]
        /\ ds[i][p].value = v /\ ds[i][p].revision = n

\* It is buffered or in an envelope ...
Carried(p, v, n) ==
    \/ Holds(buffer, p, v, n)
    \/ \E e \in InFlight : Holds(e.deltas, p, v, n)

\* ... or a thread has changed the tree and not dispatched yet.
InHand(p, v, n) ==
    \E t \in Threads :
        /\ phase[t] = "dispatch" /\ p \in DOMAIN held[t]
        /\ held[t][p].value = v /\ held[t][p].revision = n

Pending(p, v, n) == Carried(p, v, n) \/ InHand(p, v, n)

\* Revision n went with a lost envelope and the subscriber is bound to notice,
\* if anything follows: a younger envelope is under way or the lost one was
\* refused as the newest, and the younger one will not be the first.
Lost(n) ==
    /\ n > last
    /\ \A e \in InFlight : e.revision < n \/ e.first > n
    /\ n <= refused \/ \E e \in InFlight : e.first > n
    /\ last # NoBase \/ \E e \in InFlight : e.revision < n

Snapshot == phase[Commands] \in {"revision", "replay"}

\* The snapshot the message processor takes will include leaf p.
Awaiting(p) ==
    \/ phase[Commands] = "pairs" /\ p \in Covers[pattern]
    \/ Snapshot /\ p \in DOMAIN held[Commands]

-----------------------------------------------------------------------------
(* The inductive invariant, part by part.                                  *)

Within(ds, lo, hi) ==
    \A i \in DOMAIN ds : \A p \in DOMAIN ds[i] :
        lo <= ds[i][p].revision /\ ds[i][p].revision <= hi

\* The phases of the message processor's snapshot and what it holds in them.
PhaseOK ==
    /\ \A t \in Threads : phase[t] \in {"pairs", "revision", "replay"} => t = Commands
    /\ phase[Commands] = "pairs" => pattern \in subs
    /\ Snapshot => DOMAIN held[Commands] \subseteq Watched \intersect Leaves

\* No revision anywhere is ahead of the tree's.
Bounded ==
    /\ \A p \in Leaves : store[p] <= revision
    /\ known <= revision /\ last <= known /\ refused <= known
    /\ \A t \in Threads : phase[t] = "dispatch" =>
          /\ Within(<<held[t]>>, 1, revision)
          /\ \A p \in DOMAIN held[t] : held[t][p].value \in {held[t][p].revision, Absent}
    /\ \A e \in InFlight : Within(e.deltas, e.first, e.revision) /\ e.first <= e.revision /\ e.revision <= known
    /\ Within(buffer, 0, known)

\* The subscriber hears of nothing it has not subscribed to.
Unwatched ==
    /\ last = NoBase => \A p \in Leaves : cache[p] = Absent
    /\ \A p \in Leaves \ Watched :
          /\ cache[p] = Absent
          /\ \A v \in Values, n \in Revisions : ~Carried(p, v, n)

\* A delta in hand that is as young as a leaf has the leaf's value.
Undispatched ==
    \A p \in Leaves : \A v \in Values, n \in Revisions :
        InHand(p, v, n) /\ store[p] # Absent /\ n >= store[p] => v = store[p]

\* The snapshot is of leaves that were there, no younger than its stamp.
SnapshotOK ==
    Snapshot => \A p \in DOMAIN held[Commands] :
        LET d == held[Commands][p]
        IN  /\ d.value # Absent
            /\ phase[Commands] = "revision" => d.value <= revision
            /\ phase[Commands] = "replay" =>
                  /\ d.value <= d.revision /\ d.revision <= revision
                  /\ \A q \in DOMAIN held[Commands] : held[Commands][q].revision = d.revision

\* The deltas at a path ascend.
Ascending(ds) ==
    \A i, j \in DOMAIN ds : i < j =>
        \A p \in DOMAIN ds[i] \intersect DOMAIN ds[j] : ds[i][p].revision <= ds[j][p].revision

\* Envelopes follow each other upwards, the buffer is above them and above
\* what was refused, and what joins it will be.
Sorted ==
    /\ Ascending(buffer) /\ \A e \in InFlight : Ascending(e.deltas)
    /\ \A i, j \in DOMAIN batch : i < j => batch[i].revision < batch[j].first
    /\ \A i, j \in DOMAIN queue : i < j => queue[i].revision < queue[j].first
    /\ \A i \in DOMAIN batch, j \in DOMAIN queue : batch[i].revision < queue[j].first
    /\ \A e \in InFlight : last < e.first /\ Within(buffer, e.revision + 1, known)
    /\ Within(buffer, last + 1, known) /\ Within(buffer, refused + 1, known)
    /\ buffer # <<>> => last < known /\ refused < known /\ \A e \in InFlight : e.revision < known

\* No deltas of a watched path were or are about to be buffered too late, no
\* gap has been noticed and no first envelope lost.
Sound == ~noticed /\ ~baseLost /\ InOrder

\* A pending delta as young as a live leaf has its value.
FreshIsTrue(p) ==
    store[p] # Absent =>
        \A v \in Values, n \in Revisions : Carried(p, v, n) /\ n >= store[p] => v = store[p]

\* The copy is that of the tree up to the subscriber's revision.
Honest(p) ==
    store[p] # Absent /\ cache[p] # Absent /\ store[p] <= last => cache[p] = store[p]

\* A write the subscriber has not reached is on its way or noticeably lost.
Reaching(p) ==
    /\ store[p] # Absent /\ last < store[p]
    /\ \/ cache[p] # Absent
       \/ \E v \in Values, n \in Revisions : Carried(p, v, n) /\ n < store[p]
    => Pending(p, store[p], store[p]) \/ Lost(store[p])

\* A leaf the subscriber should learn of is on its way to it.
Arriving(p) ==
    p \in Watched /\ store[p] # Absent /\ cache[p] = Absent =>
        \/ \E n \in Revisions : n >= store[p] /\ (Pending(p, store[p], n) \/ Lost(n))
        \/ Awaiting(p)

\* Behind every carried write of a deleted leaf, and behind its cached value,
\* follows the delete.
Vanishing(p) ==
    store[p] = Absent =>
        /\ \A v \in Revisions, m \in Revisions :
              Carried(p, v, m) =>
                  \E n \in Revisions : n > m /\ (Pending(p, Absent, n) \/ Lost(n))
        /\ cache[p] # Absent =>
              \E n \in Revisions : n > last /\ (Pending(p, Absent, n) \/ Lost(n))

LeafOK(p) == FreshIsTrue(p) /\ Honest(p) /\ Reaching(p) /\ Arriving(p) /\ Vanishing(p)

Inv ==
    /\ TypeOK /\ PhaseOK /\ Bounded /\ Unwatched /\ Undispatched /\ SnapshotOK
    /\ ~late => Sorted
    /\ Sound => \A p \in Leaves \ pruned : LeafOK(p)

-----------------------------------------------------------------------------
(* Sequences, deltas, and what applying them yields.                       *)

\* A set of naturals that is not empty has a least element.
LEMMA MinNat ==
  ASSUME NEW S \in SUBSET Nat, S # {}
  PROVE  \E x \in S : \A y \in S : x <= y
<1>1. PICK x \in S : \A y \in S : ~ (<<y, x>> \in OpToRel(<, Nat))
  <2>1. IsWellFoundedOn(OpToRel(<, Nat), Nat)
    BY NatLessThanWellFounded
  <2> QED
    BY ONLY <2>1, WFMin, S \in SUBSET Nat, S # {}
<1>2. ASSUME NEW y \in S PROVE x <= y
  <2>1. ~ (<<y, x>> \in OpToRel(<, Nat))
    BY <1>1
  <2>2. x \in Nat /\ y \in Nat
    OBVIOUS
  <2>3. ~(y < x)
    BY <2>1, <2>2 DEF OpToRel
  <2> QED
    BY <2>2, <2>3
<1> QED
  BY <1>2

\* A set of indices of a sequence that is not empty has a last one.
LEMMA LastIndex ==
  ASSUME NEW L \in Nat, NEW S \in SUBSET (1 .. L), S # {}
  PROVE  \E x \in S : \A y \in S : y <= x
<1> DEFINE T == {k \in Nat : \E x \in S : k = L - x}
<1>1. T \in SUBSET Nat /\ T # {}
  <2>1. PICK x \in S : TRUE
    OBVIOUS
  <2>2. L - x \in T
    BY <2>1
  <2> QED
    BY <2>2
<1>2. \E x \in T : \A y \in T : x <= y
  <2> HIDE DEF T
  <2> QED
    BY <1>1, MinNat
<1>3. PICK k \in T : \A y \in T : k <= y
  BY <1>2
<1>4. PICK x \in S : k = L - x
  BY <1>3
<1>5. ASSUME NEW y \in S PROVE y <= x
  <2>1. L - y \in T
    OBVIOUS
  <2>2. k <= L - y
    BY <2>1, <1>3
  <2> QED
    BY <2>2, <1>4
<1> QED
  BY <1>5

\* A bijection is a function that takes no value twice.
LEMMA BijectionFacts ==
  ASSUME NEW S, NEW T, NEW f \in Bijection(S, T)
  PROVE  f \in [S -> T] /\ \A x, y \in S : f[x] = f[y] => x = y
BY DEF Bijection, Injection, IsInjective

\* What a group of deltas is made of.
LEMMA DeltasFacts ==
  ASSUME NEW d \in Deltas
  PROVE  /\ DOMAIN d \subseteq Paths
         /\ d \in [DOMAIN d -> Delta]
         /\ \A p \in DOMAIN d : d[p].value \in Values /\ d[p].revision \in Revisions
<1>1. PICK S \in SUBSET Paths : d \in [S -> Delta]
  BY DEF Deltas
<1> QED
  BY <1>1 DEF Delta

\* How to make one.
LEMMA DeltasMade ==
  ASSUME NEW S \in SUBSET Paths, NEW d \in [S -> Delta]
  PROVE  d \in Deltas
BY DEF Deltas

\* No deltas at all are a group of deltas.
LEMMA NothingIsDeltas == Nothing \in Deltas
<1>1. {} \in SUBSET Paths /\ Nothing \in [{} -> Delta]
  BY DEF Nothing
<1> QED
  BY <1>1, DeltasMade

\* The revisions of a group of deltas are revisions ...
LEMMA RevisionsOfFacts ==
  ASSUME NEW d \in Deltas
  PROVE  RevisionsOf(d) \subseteq Revisions
BY DeltasFacts DEF RevisionsOf

\* ... and those of a sequence of groups are.
LEMMA RevisionsInFacts ==
  ASSUME NEW ds \in Seq(Deltas)
  PROVE  RevisionsIn(ds) \subseteq Revisions
<1>1. \A i \in DOMAIN ds : ds[i] \in Deltas
  OBVIOUS
<1> QED
  BY <1>1, RevisionsOfFacts DEF RevisionsIn

\* Applying deltas leaves a leaf alone or gives it the value of the last of
\* them that is at its path.
LEMMA AppliedFacts ==
  ASSUME NEW ds \in Seq(Deltas), NEW p, NEW before
  PROVE  \/ /\ \A i \in DOMAIN ds : p \notin DOMAIN ds[i]
            /\ Applied(ds, p, before) = before
         \/ \E i \in DOMAIN ds :
               /\ p \in DOMAIN ds[i]
               /\ \A j \in DOMAIN ds : p \in DOMAIN ds[j] => j <= i
               /\ Applied(ds, p, before) = ds[i][p].value
<1> DEFINE touched == {i \in DOMAIN ds : p \in DOMAIN ds[i]}
<1>1. CASE touched = {}
  BY <1>1 DEF Applied
<1>2. CASE touched # {}
  <2>1. touched \in SUBSET (1 .. Len(ds)) /\ Len(ds) \in Nat
    OBVIOUS
  <2>2. \E i \in touched : \A j \in touched : j <= i
    <3> HIDE DEF touched
    <3> QED
      BY <1>2, <2>1, LastIndex
  <2> DEFINE k == CHOOSE i \in touched : \A j \in touched : j <= i
  <2>3. k \in touched /\ \A j \in touched : j <= k
    <3> HIDE DEF touched
    <3> QED
      BY <2>2
  <2>4. Applied(ds, p, before) = ds[k][p].value
    BY <1>2 DEF Applied
  <2> HIDE DEF k
  <2> QED
    BY <2>3, <2>4
<1> QED
  BY <1>1, <1>2

\* The leaves under a node are leaves.
LEMMA GraftedFacts ==
  ASSUME DeliveryAssumption, NEW changed \in SUBSET Paths
  PROVE  /\ Grafted(changed) \subseteq Leaves
         /\ \A p \in Grafted(changed) : \E n \in changed \intersect Nodes : p \in Below[n]
BY DEF DeliveryAssumption, Grafted

\* What a set or merge writes: each changed path takes a revision of its own
\* after the tree's, a leaf under a changed node has the node's or is gone.
Written(t, changed, rev) ==
    /\ \A p \in changed : revision + 1 <= rev[p] /\ rev[p] <= revision'
    /\ held' = [held EXCEPT ![t] =
          [p \in changed |-> [value |-> rev[p], revision |-> rev[p]]]]
    /\ \A p \in changed \intersect Leaves : store'[p] = rev[p]
    /\ \A p \in Grafted(changed) :
          store'[p] = Absent \/ \E n \in changed : store'[p] = rev[n]
    /\ \A p \in Leaves \ (changed \union Grafted(changed)) : store'[p] = store[p]
    /\ store' = [p \in Leaves |-> store'[p]]

\* Every set or merge does so.
LEMMA ChangeFacts ==
  ASSUME DeliveryAssumption, TypeOK, NEW t \in Threads,
         NEW changed \in SUBSET Paths, NEW kept, Change(t, changed, kept)
  PROVE  \E rev \in [changed -> Revisions] : Written(t, changed, rev)
<1> DEFINE k == Cardinality(changed)
<1>1. revision \in Nat /\ MaxRevision \in Nat
  BY DEF TypeOK, Revisions, DeliveryAssumption
<1>2. revision + k <= MaxRevision /\ revision' = revision + k /\ changed \intersect Grafted(changed) = {}
  BY DEF Change
<1>3. PICK rev \in Bijection(changed, revision + 1 .. revision + k) :
         /\ store' = [p \in Leaves |->
                IF p \in changed THEN rev[p]
                ELSE IF p \notin Grafted(changed) THEN store[p]
                ELSE IF p \notin kept THEN Absent
                ELSE rev[CHOOSE n \in changed \intersect Nodes : p \in Below[n]]]
         /\ held' = [held EXCEPT ![t] =
                [p \in changed |-> [value |-> rev[p], revision |-> rev[p]]]]
  BY DEF Change
<1> HIDE DEF k
<1>4. rev \in [changed -> revision + 1 .. revision + k]
  <2>1. rev \in Bijection(changed, revision + 1 .. revision + k)
    OBVIOUS
  <2> QED
    BY ONLY <2>1 DEF Bijection, Injection, IsInjective
<1>5. k \in Nat
  BY FS_Subset, FS_CardinalityType DEF DeliveryAssumption, k
<1>6. rev \in [changed -> Revisions] /\ \A p \in changed : revision + 1 <= rev[p] /\ rev[p] <= revision'
  BY <1>1, <1>2, <1>4, <1>5 DEF Revisions
<1>7. \A p \in changed \intersect Leaves : store'[p] = rev[p]
  BY <1>3
<1>8. ASSUME NEW p \in Grafted(changed)
      PROVE  store'[p] = Absent \/ \E n \in changed : store'[p] = rev[n]
  <2>1. p \in Leaves /\ p \notin changed /\ \E n \in changed \intersect Nodes : p \in Below[n]
    BY <1>2, GraftedFacts
  <2>2. store'[p] = IF p \notin kept THEN Absent ELSE rev[CHOOSE n \in changed \intersect Nodes : p \in Below[n]]
    BY <1>3, <2>1
  <2>3. (CHOOSE n \in changed \intersect Nodes : p \in Below[n]) \in changed
    BY <2>1
  <2> QED
    BY <2>2, <2>3
<1>9. \A p \in Leaves \ (changed \union Grafted(changed)) : store'[p] = store[p]
  BY <1>3
<1>10. store' = [p \in Leaves |-> store'[p]]
  BY <1>3
<1> QED
  BY <1>3, <1>6, <1>7, <1>8, <1>9, <1>10 DEF Written

-----------------------------------------------------------------------------
(* Types.                                                                  *)

\* A set or merge keeps the types.
LEMMA ChangeTypes ==
  ASSUME DeliveryAssumption, TypeOK, NEW t \in Threads,
         NEW changed \in SUBSET Paths, NEW kept, Change(t, changed, kept)
  PROVE  TypeOK'
<1>1. PICK rev \in [changed -> Revisions] : Written(t, changed, rev)
  BY ChangeFacts
<1>2. store' \in [Leaves -> Values]
  <2>1. ASSUME NEW p \in Leaves PROVE store'[p] \in Values
    BY <1>1 DEF Values, TypeOK, Written
  <2> QED
    BY <1>1, <2>1 DEF Written
<1>3. revision' \in Revisions
  <2>1. Cardinality(changed) \in Nat
    BY FS_Subset, FS_CardinalityType DEF DeliveryAssumption
  <2> QED
    BY <2>1 DEF Change, Revisions, TypeOK, DeliveryAssumption
<1>4. held' \in [Threads -> Deltas]
  <2>1. [p \in changed |-> [value |-> rev[p], revision |-> rev[p]]] \in [changed -> Delta]
    BY <1>1 DEF Delta, Values, Written
  <2>2. [p \in changed |-> [value |-> rev[p], revision |-> rev[p]]] \in Deltas
    BY <2>1, DeltasMade
  <2> QED
    BY <1>1, <2>2 DEF TypeOK, Written
<1>5. phase' \in [Threads -> {"idle", "dispatch", "pairs", "revision", "replay"}]
  BY DEF Change, TypeOK
<1>6. pruned' \subseteq Leaves
  BY GraftedFacts DEF Change, TypeOK
<1> QED
  BY <1>2, <1>3, <1>4, <1>5, <1>6 DEF TypeOK, Change, client, tickets, order, losses

\* A delete keeps the types.
LEMMA DeleteTypes ==
  ASSUME DeliveryAssumption, TypeOK, NEW t \in Threads, NEW path \in Paths, Delete(t, path)
  PROVE  TypeOK'
<1>1. revision + 1 \in Revisions /\ Absent \in Values
  BY DEF TypeOK, Delete, Revisions, Values, DeliveryAssumption
<1>2. Gone(path) \subseteq Leaves
  BY DEF Gone, DeliveryAssumption, Paths
<1>3. store' \in [Leaves -> Values]
  BY <1>1 DEF TypeOK, Delete
<1>4. held' \in [Threads -> Deltas]
  <2> DEFINE d == [p \in {path} |-> [value |-> Absent, revision |-> revision + 1]]
  <2>1. d \in [{path} -> Delta]
    BY <1>1 DEF Delta
  <2>2. d \in Deltas
    BY <2>1, DeltasMade
  <2>3. held' = [held EXCEPT ![t] = d]
    BY DEF Delete
  <2> HIDE DEF d
  <2> QED
    BY <2>2, <2>3 DEF TypeOK
<1>5. phase' \in [Threads -> {"idle", "dispatch", "pairs", "revision", "replay"}]
  BY DEF Delete, TypeOK
<1>6. pruned' \subseteq Leaves
  BY <1>2 DEF Delete, TypeOK
<1>7. revision' \in Revisions
  BY <1>1 DEF Delete
<1> QED
  BY <1>3, <1>4, <1>5, <1>6, <1>7 DEF TypeOK, Delete, client, tickets, order, losses

\* What joins the buffer is of the buffer's type.
LEMMA BufferedTypes ==
  ASSUME DeliveryAssumption, TypeOK, NEW t \in Threads, NEW ps, Buffered(t, ps)
  PROVE  buffer' \in Seq(Deltas) /\ late' \in BOOLEAN /\ known' \in Revisions \union {NoBase}
<1> DEFINE d == Restrict(held[t], DOMAIN held[t] \intersect ps)
<1>1. held[t] \in Deltas
  BY DEF TypeOK
<1>2. d \in Deltas
  <2> DEFINE S == DOMAIN held[t] \intersect ps
  <2>1. S \in SUBSET Paths
    BY <1>1, DeltasFacts
  <2>2. d \in [S -> Delta]
    BY <1>1, DeltasFacts DEF Restrict
  <2> HIDE DEF d
  <2> QED
    BY <2>1, <2>2, DeltasMade
<1>3. /\ buffer' = IF DOMAIN d = {} THEN buffer ELSE Append(buffer, d)
      /\ late' = (late \/ Late(d))
      /\ known' \in RevisionsOf(d) \union {known}
  BY DEF Buffered
<1> HIDE DEF d
<1>4. buffer' \in Seq(Deltas)
  BY <1>2, <1>3 DEF TypeOK
<1>5. late' \in BOOLEAN
  BY <1>3
<1> QED
  BY <1>2, <1>3, <1>4, <1>5, RevisionsOfFacts DEF TypeOK

\* A dispatch keeps the types.
LEMMA DispatchTypes ==
  ASSUME DeliveryAssumption, TypeOK, NEW t \in Threads, Dispatch(t)
  PROVE  TypeOK'
<1>1. buffer' \in Seq(Deltas) /\ late' \in BOOLEAN /\ known' \in Revisions \union {NoBase}
  BY BufferedTypes DEF Dispatch
<1>2. held' \in [Threads -> Deltas]
  BY NothingIsDeltas DEF TypeOK, Dispatch
<1>3. phase' \in [Threads -> {"idle", "dispatch", "pairs", "revision", "replay"}]
  BY DEF Dispatch, TypeOK
<1> QED
  BY <1>1, <1>2, <1>3 DEF TypeOK, Dispatch, client, tickets, losses

\* Every step of a subscription and its snapshot keeps the types.
LEMMA ReplayTypes ==
  ASSUME DeliveryAssumption, TypeOK,
         \/ \E s \in Patterns : Subscribe(s)
         \/ ReplayPairs \/ ReplayRevision \/ EnqueueReplay
  PROVE  TypeOK'
<1> USE DEF client, tickets, order, losses
<1>0. Commands \in Threads
  BY DEF DeliveryAssumption
<1>1. ASSUME NEW s \in Patterns, Subscribe(s) PROVE TypeOK'
  <2>1. phase' \in [Threads -> {"idle", "dispatch", "pairs", "revision", "replay"}]
    BY <1>1 DEF Subscribe, TypeOK
  <2> QED
    BY <1>1, <2>1 DEF Subscribe, TypeOK
<1>2. CASE ReplayPairs
  <2>1. phase' \in [Threads -> {"idle", "dispatch", "pairs", "revision", "replay"}]
    BY <1>2 DEF ReplayPairs, TypeOK
  <2> DEFINE d == [p \in Present(pattern) |-> [value |-> store[p], revision |-> 0]]
  <2>2. Present(pattern) \subseteq Leaves
    BY DEF Present
  <2>3. d \in [Present(pattern) -> Delta]
    BY <2>2 DEF TypeOK, Delta, Revisions, DeliveryAssumption
  <2>4. d \in Deltas
    BY <2>2, <2>3, DeltasMade DEF Paths
  <2>5. held' \in [Threads -> Deltas]
    <3>1. held' = [held EXCEPT ![Commands] = d]
      BY <1>2 DEF ReplayPairs
    <3> HIDE DEF d
    <3> QED
      BY <2>4, <3>1 DEF TypeOK
  <2> QED
    BY <1>2, <2>1, <2>5 DEF ReplayPairs, TypeOK
<1>3. CASE ReplayRevision
  <2>1. phase' \in [Threads -> {"idle", "dispatch", "pairs", "revision", "replay"}]
    BY <1>3 DEF ReplayRevision, TypeOK
  <2> DEFINE d == [p \in DOMAIN held[Commands] |->
                     [value |-> held[Commands][p].value, revision |-> revision]]
  <2>2. held[Commands] \in Deltas
    BY <1>0 DEF TypeOK
  <2>3. DOMAIN held[Commands] \subseteq Paths
        /\ \A p \in DOMAIN held[Commands] : held[Commands][p].value \in Values
    BY <2>2, DeltasFacts
  <2>4. d \in [DOMAIN held[Commands] -> Delta]
    BY <2>3 DEF TypeOK, Delta
  <2>5. d \in Deltas
    BY <2>3, <2>4, DeltasMade
  <2>6. held' \in [Threads -> Deltas]
    <3>1. held' = [held EXCEPT ![Commands] = d]
      BY <1>0, <1>3 DEF ReplayRevision, TypeOK
    <3> HIDE DEF d
    <3> QED
      BY <2>5, <3>1 DEF TypeOK
  <2> QED
    BY <1>3, <2>1, <2>6 DEF ReplayRevision, TypeOK
<1>4. CASE EnqueueReplay
  <2>1. buffer' \in Seq(Deltas) /\ late' \in BOOLEAN /\ known' \in Revisions \union {NoBase}
    BY <1>0, <1>4, BufferedTypes DEF EnqueueReplay
  <2>2. held' \in [Threads -> Deltas]
    BY <1>4, NothingIsDeltas DEF TypeOK, EnqueueReplay
  <2>3. phase' \in [Threads -> {"idle", "dispatch", "pairs", "revision", "replay"}]
    BY <1>4 DEF EnqueueReplay, TypeOK
  <2> QED
    BY <1>4, <2>1, <2>2, <2>3 DEF TypeOK, EnqueueReplay
<1> QED
  BY <1>1, <1>2, <1>3, <1>4

\* A flush keeps the types, and the queue within its capacity.
LEMMA FlushTypes ==
  ASSUME DeliveryAssumption, TypeOK, Flush
  PROVE  TypeOK'
<1>1. PICK lo, hi \in RevisionsIn(buffer) : Put([deltas |-> buffer, first |-> lo, revision |-> hi])
  BY DEF Flush
<1> DEFINE e == [deltas |-> buffer, first |-> lo, revision |-> hi]
<1>2. e \in Envelope /\ e.revision \in Revisions
  BY RevisionsInFacts DEF TypeOK, Envelope
<1>3. \/ queue' = Append(IF Len(queue) < QueueCap THEN queue ELSE Tail(queue), e) /\ refused' = refused
      \/ queue' = queue /\ refused' = e.revision
  BY <1>1 DEF Put, Accept, Refuse
<1> HIDE DEF e
<1>4. queue' \in Seq(Envelope) /\ Len(queue') <= QueueCap
  <2>1. queue \in Seq(Envelope) /\ Len(queue) <= QueueCap /\ QueueCap \in Nat \ {0}
    BY DEF TypeOK, DeliveryAssumption
  <2>2. CASE queue' = Append(IF Len(queue) < QueueCap THEN queue ELSE Tail(queue), e)
    BY <1>2, <2>1, <2>2
  <2> QED
    BY <1>3, <2>1, <2>2
<1>5. refused' \in Revisions \union {NoBase}
  BY <1>2, <1>3 DEF TypeOK
<1>6. baseLost' \in BOOLEAN
  BY <1>1 DEF Put, Accept, Refuse, TypeOK
<1>7. buffer' = <<>> /\ UNCHANGED <<server, client, tickets, order, pruned>>
  BY DEF Flush
<1> QED
  BY <1>4, <1>5, <1>6, <1>7 DEF TypeOK, server, client, tickets, order

\* The subscriber's steps keep the types.
LEMMA ClientTypes ==
  ASSUME DeliveryAssumption, TypeOK, Answer \/ Poll \/ OnStateChanged \/ ResyncTimeout
  PROVE  TypeOK'
<1> USE DEF server, client, tickets, order, losses
<1>1. CASE Answer
  BY <1>1 DEF Answer, TypeOK
<1>2. CASE Poll
  BY <1>2 DEF Poll, TypeOK, DeliveryAssumption
<1>3. CASE OnStateChanged
  <2> DEFINE e == Head(batch)
  <2>1. e \in Envelope /\ batch' \in Seq(Envelope)
    BY <1>3 DEF OnStateChanged, TypeOK
  <2>2. UNCHANGED <<server, buffer, queue, answers, order, losses, pruned>>
    BY <1>3 DEF OnStateChanged
  <2>3. CASE Stale(e)
    BY <1>3, <2>1, <2>2, <2>3 DEF OnStateChanged, TypeOK
  <2>4. CASE ~Stale(e)
    <3>1. /\ cache' = [p \in Leaves |-> Applied(e.deltas, p, cache[p])]
          /\ last' = e.revision
          /\ blocked' = Gap(e)
          /\ noticed' = (noticed \/ Gap(e))
          /\ requests' = IF Gap(e) THEN requests + 1 ELSE requests
      BY <1>3, <2>4 DEF OnStateChanged
    <3>2. ASSUME NEW p \in Leaves PROVE Applied(e.deltas, p, cache[p]) \in Values
      <4>1. e.deltas \in Seq(Deltas)
        BY <2>1 DEF Envelope
      <4>2. cache[p] \in Values
        BY DEF TypeOK
      <4>3. \A i \in DOMAIN e.deltas : p \in DOMAIN e.deltas[i] => e.deltas[i][p].value \in Values
        <5> HIDE DEF e
        <5>1. \A i \in DOMAIN e.deltas : e.deltas[i] \in Deltas
          BY <4>1
        <5> QED
          BY <5>1, DeltasFacts
      <4> HIDE DEF e
      <4> QED
        BY <4>1, <4>2, <4>3, AppliedFacts
    <3>3. cache' \in [Leaves -> Values]
      BY <3>1, <3>2
    <3>4. last' \in Revisions \union {NoBase}
      BY <2>1, <3>1 DEF Envelope
    <3>5. blocked' \in BOOLEAN /\ noticed' \in BOOLEAN /\ requests' \in Nat
      BY <3>1 DEF TypeOK, Gap
    <3> HIDE DEF e
    <3> QED
      BY <2>1, <2>2, <3>3, <3>4, <3>5 DEF TypeOK
  <2> QED
    BY <2>3, <2>4
<1>4. CASE ResyncTimeout
  BY <1>4 DEF ResyncTimeout, TypeOK
<1> QED
  BY <1>1, <1>2, <1>3, <1>4

\* The initial states are of the right types ...
LEMMA TypeInit == DeliveryAssumption /\ Init => TypeOK
<1> SUFFICES ASSUME DeliveryAssumption, Init PROVE TypeOK
  OBVIOUS
<1>1. held \in [Threads -> Deltas]
  BY NothingIsDeltas DEF Init
<1>2. store \in [Leaves -> Values] /\ cache \in [Leaves -> Values]
  BY DEF Init, Values, Revisions, DeliveryAssumption
<1>3. Len(queue) <= QueueCap
  BY DEF Init, DeliveryAssumption
<1>4. revision \in Revisions
  BY DEF Init, Revisions, DeliveryAssumption
<1>5. phase \in [Threads -> {"idle", "dispatch", "pairs", "revision", "replay"}]
  BY DEF Init
<1>6. /\ subs \subseteq Patterns /\ pattern \in Patterns \union {NoPattern}
      /\ buffer \in Seq(Deltas) /\ queue \in Seq(Envelope) /\ batch \in Seq(Envelope)
      /\ last \in Revisions \union {NoBase} /\ known \in Revisions \union {NoBase}
      /\ refused \in Revisions \union {NoBase}
      /\ requests \in Nat /\ answers \in Nat /\ pruned \subseteq Leaves
  BY DEF Init
<1>7. blocked \in BOOLEAN /\ noticed \in BOOLEAN /\ baseLost \in BOOLEAN /\ late \in BOOLEAN
  BY DEF Init
<1> QED
  BY <1>1, <1>2, <1>3, <1>4, <1>5, <1>6, <1>7 DEF TypeOK

\* ... and every step keeps them so.
LEMMA TypeStep == DeliveryAssumption /\ TypeOK /\ [Next]_vars => TypeOK'
<1> SUFFICES ASSUME DeliveryAssumption, TypeOK, [Next]_vars PROVE TypeOK'
  OBVIOUS
<1>1. CASE UNCHANGED vars
  BY <1>1 DEF vars, server, client, tickets, order, losses, TypeOK
<1> QED
  BY <1>1, ChangeTypes, DeleteTypes, DispatchTypes, ReplayTypes, FlushTypes, ClientTypes DEF Next

-----------------------------------------------------------------------------
(* Numbers and deltas under way.                                           *)

\* Revisions and values are integers, an absent value is less than any other.
LEMMA NumberFacts ==
  ASSUME DeliveryAssumption, TypeOK
  PROVE  /\ revision \in Int /\ revision >= 0 /\ known \in Int /\ known >= -1
         /\ refused \in Int /\ refused >= -1
         /\ last \in Int /\ last >= -1
         /\ \A p \in Leaves : store[p] \in Int /\ cache[p] \in Int /\ store[p] \in Values /\ cache[p] \in Values
         /\ \A n \in Revisions : n \in Int /\ n >= 0 /\ n \in Values
         /\ \A v \in Values : v \in Int /\ v >= -1 /\ (v # Absent => v \in Revisions)
         /\ \A t \in Threads : /\ held[t] \in Deltas
                               /\ \A p \in DOMAIN held[t] : /\ held[t][p].value \in Values
                                                            /\ held[t][p].revision \in Revisions
         /\ Absent = -1 /\ NoBase = -1 /\ Absent \in Values
BY DeltasFacts DEF TypeOK, Revisions, Values, Absent, NoBase, DeliveryAssumption

\* Deltas that are held carry a value and a revision.
LEMMA HoldsTyped ==
  ASSUME NEW ds \in Seq(Deltas), NEW p, NEW v, NEW n, Holds(ds, p, v, n)
  PROVE  v \in Values /\ n \in Revisions
<1>1. \A i \in DOMAIN ds : ds[i] \in Deltas
  OBVIOUS
<1> QED
  BY <1>1, DeltasFacts DEF Holds

\* Appending a group of deltas adds its deltas and no others.
LEMMA HoldsAppend ==
  ASSUME NEW ds \in Seq(Deltas), NEW d \in Deltas, NEW p, NEW v, NEW n
  PROVE  Holds(Append(ds, d), p, v, n) <=>
            \/ Holds(ds, p, v, n)
            \/ p \in DOMAIN d /\ d[p].value = v /\ d[p].revision = n
<1> DEFINE new == Append(ds, d)
<1>1. /\ DOMAIN new = 1 .. Len(ds) + 1 /\ DOMAIN ds = 1 .. Len(ds) /\ Len(ds) \in Nat
      /\ \A i \in DOMAIN ds : new[i] = ds[i]
      /\ new[Len(ds) + 1] = d
  OBVIOUS
<1>2. \A i \in DOMAIN new : i \in DOMAIN ds \/ i = Len(ds) + 1
  BY <1>1
<1>3. \A i \in DOMAIN ds : i \in DOMAIN new
  BY <1>1
<1>4. Len(ds) + 1 \in DOMAIN new
  BY <1>1
<1> HIDE DEF new
<1>5. Holds(new, p, v, n) <=>
            \/ Holds(ds, p, v, n)
            \/ p \in DOMAIN d /\ d[p].value = v /\ d[p].revision = n
  BY <1>1, <1>2, <1>3, <1>4 DEF Holds
<1> QED
  BY <1>5 DEF new

\* Deltas within bounds are, each of them.
LEMMA WithinHolds ==
  ASSUME NEW ds, NEW lo, NEW hi, Within(ds, lo, hi), NEW p, NEW v, NEW n, Holds(ds, p, v, n)
  PROVE  lo <= n /\ n <= hi
BY DEF Within, Holds

\* Every envelope under way is one.
LEMMA InFlightTyped ==
  ASSUME TypeOK, NEW e \in InFlight
  PROVE  /\ e.deltas \in Seq(Deltas) /\ e.first \in Revisions /\ e.revision \in Revisions
         /\ e = [deltas |-> e.deltas, first |-> e.first, revision |-> e.revision]
<1>1. batch \in Seq(Envelope) /\ queue \in Seq(Envelope)
  BY DEF TypeOK
<1>2. e \in Envelope
  BY <1>1 DEF InFlight
<1> QED
  BY <1>2 DEF Envelope

\* Carried deltas have a value and a revision.
LEMMA CarriedTyped ==
  ASSUME TypeOK, NEW p, NEW v, NEW n, Carried(p, v, n)
  PROVE  v \in Values /\ n \in Revisions
<1>1. buffer \in Seq(Deltas) /\ \A e \in InFlight : e.deltas \in Seq(Deltas)
  BY InFlightTyped DEF TypeOK
<1> QED
  BY <1>1, HoldsTyped DEF Carried

\* So have deltas in some thread's hands.
LEMMA InHandTyped ==
  ASSUME DeliveryAssumption, TypeOK, NEW p, NEW v, NEW n, InHand(p, v, n)
  PROVE  v \in Values /\ n \in Revisions
BY NumberFacts DEF InHand

\* What is carried has been dispatched.
LEMMA CarriedAtMostKnown ==
  ASSUME DeliveryAssumption, TypeOK, Bounded, NEW p, NEW v, NEW n, Carried(p, v, n)
  PROVE  n <= known /\ n \in Revisions /\ v \in Values
<1>1. n \in Revisions /\ v \in Values
  BY CarriedTyped
<1>2. CASE Holds(buffer, p, v, n)
  BY <1>1, <1>2, WithinHolds DEF Bounded
<1>3. ASSUME NEW e \in InFlight, Holds(e.deltas, p, v, n) PROVE n <= known
  <2>1. Within(e.deltas, e.first, e.revision) /\ e.revision <= known
    BY DEF Bounded
  <2>2. n <= e.revision
    BY <1>3, <2>1, WithinHolds
  <2>3. e.revision \in Revisions
    BY InFlightTyped
  <2> QED
    BY <1>1, <2>1, <2>2, <2>3, NumberFacts
<1> QED
  BY <1>1, <1>2, <1>3 DEF Carried

\* What is in hand has been written, and says the revision that wrote it.
LEMMA InHandAtMostRevision ==
  ASSUME DeliveryAssumption, TypeOK, Bounded, NEW p, NEW v, NEW n, InHand(p, v, n)
  PROVE  1 <= n /\ n <= revision /\ n \in Revisions /\ v \in Values /\ (v = n \/ v = Absent)
<1>1. n \in Revisions /\ v \in Values
  BY InHandTyped
<1>2. PICK t \in Threads : /\ phase[t] = "dispatch" /\ p \in DOMAIN held[t]
                           /\ held[t][p].value = v /\ held[t][p].revision = n
  BY DEF InHand
<1>3. Within(<<held[t]>>, 1, revision) /\ held[t][p].value \in {held[t][p].revision, Absent}
  BY <1>2 DEF Bounded
<1>4. 1 <= held[t][p].revision /\ held[t][p].revision <= revision
  <2>1. 1 \in DOMAIN <<held[t]>> /\ <<held[t]>>[1] = held[t]
    OBVIOUS
  <2> QED
    BY <1>2, <1>3, <2>1 DEF Within
<1> QED
  BY <1>1, <1>2, <1>3, <1>4

\* What a step that leaves the wire alone keeps.
LEMMA WireKept ==
  ASSUME UNCHANGED <<buffer, queue, batch, last, refused>>
  PROVE  /\ InFlight' = InFlight
         /\ \A p, v, n : Carried(p, v, n)' <=> Carried(p, v, n)
         /\ \A n : Lost(n)' <=> Lost(n)
<1>1. InFlight' = InFlight
  BY DEF InFlight
<1>2. \A p, v, n : Carried(p, v, n)' <=> Carried(p, v, n)
  BY <1>1 DEF Carried
<1>3. \A n : Lost(n)' <=> Lost(n)
  BY <1>1 DEF Lost
<1> QED
  BY <1>1, <1>2, <1>3

\* Such a step keeps the order.
LEMMA SortedKept ==
  ASSUME UNCHANGED <<buffer, queue, batch, last, refused, known>>, Sorted
  PROVE  Sorted'
<1>1. InFlight' = InFlight
  BY DEF InFlight
<1> QED
  BY <1>1 DEF Sorted

-----------------------------------------------------------------------------
(* Changes of the tree.                                                    *)

\* A change of the tree, seen from the invariant: thread t takes deltas in
\* hand, all of them younger than the tree was; every leaf of C has the value
\* its delta gives it or changed with a node above it; the rest stays as it was.
Wrote(t, C) ==
    /\ phase[t] = "idle" /\ phase' = [phase EXCEPT ![t] = "dispatch"]
    /\ \A u \in Threads \ {t} : held'[u] = held[u]
    /\ revision' > revision
    /\ \A p \in DOMAIN held'[t] :
          /\ revision + 1 <= held'[t][p].revision /\ held'[t][p].revision <= revision'
          /\ held'[t][p].value \in {held'[t][p].revision, Absent}
    /\ UNCHANGED <<subs, pattern, buffer, queue, client, tickets, order, losses>>
    /\ \A p \in Leaves \ C :
          /\ store'[p] = store[p] /\ (p \in pruned' <=> p \in pruned)
          /\ p \notin DOMAIN held'[t]
    /\ \A p \in C :
          \/ p \in DOMAIN held'[t] /\ store'[p] = held'[t][p].value
          \/ /\ p \notin DOMAIN held'[t] /\ (p \in pruned' \/ p \notin Watched)
             /\ store'[p] = Absent \/ (revision + 1 <= store'[p] /\ store'[p] <= revision')

\* After a change of the tree, a thread's new deltas are in hand besides all
\* that was.
LEMMA WroteInHand ==
  ASSUME DeliveryAssumption, TypeOK, TypeOK', NEW t \in Threads, NEW C \in SUBSET Leaves, Wrote(t, C)
  PROVE  \A p, v, n : InHand(p, v, n)' <=>
            \/ InHand(p, v, n)
            \/ p \in DOMAIN held'[t] /\ held'[t][p].value = v /\ held'[t][p].revision = n
<1>1. phase[t] # "dispatch" /\ phase'[t] = "dispatch" /\ \A u \in Threads \ {t} : phase'[u] = phase[u]
  BY DEF Wrote, TypeOK
<1>2. \A u \in Threads \ {t} : held'[u] = held[u]
  BY DEF Wrote
<1> QED
  BY <1>1, <1>2 DEF InHand

\* It touches neither the wire nor the subscriber.
LEMMA WroteBounds ==
  ASSUME DeliveryAssumption, Inv, TypeOK', NEW t \in Threads, NEW C \in SUBSET Leaves, Wrote(t, C)
  PROVE  PhaseOK' /\ Bounded' /\ Unwatched' /\ (~late' => Sorted')
<1> USE DEF Inv
<1>0. Commands \in Threads /\ phase \in [Threads -> {"idle", "dispatch", "pairs", "revision", "replay"}]
  BY DEF DeliveryAssumption, TypeOK
<1>1. phase[t] = "idle" /\ phase'[t] = "dispatch" /\ \A u \in Threads \ {t} : phase'[u] = phase[u] /\ held'[u] = held[u]
  BY <1>0 DEF Wrote
<1>2. UNCHANGED <<subs, pattern, buffer, queue, batch, cache, last, known, late, noticed, baseLost, refused>>
  BY DEF Wrote, client, order, losses
<1>3. PhaseOK'
  <2>1. Watched' = Watched
    BY <1>2 DEF Watched
  <2>2. phase'[Commands] \in {"pairs", "revision", "replay"} =>
           phase'[Commands] = phase[Commands] /\ held'[Commands] = held[Commands]
    BY <1>0, <1>1
  <2> QED
    BY <1>1, <1>2, <2>1, <2>2 DEF PhaseOK, Snapshot
<1>4. Bounded'
  <2>1. InFlight' = InFlight
    BY <1>2 DEF InFlight
  <2>2. revision' >= revision /\ revision' \in Int /\ revision \in Int /\ known \in Int
    BY NumberFacts DEF Wrote, TypeOK, Revisions
  <2>3. ASSUME NEW p \in Leaves PROVE store'[p] <= revision'
    <3>1. store[p] <= revision /\ store[p] \in Int /\ Absent = -1 /\ revision >= 0
      BY NumberFacts DEF Bounded
    <3>2. CASE p \in C
      <4>1. ASSUME p \in DOMAIN held'[t], store'[p] = held'[t][p].value PROVE store'[p] <= revision'
        BY <4>1, <3>1, <2>2 DEF Wrote
      <4> QED
        BY <4>1, <3>1, <3>2, <2>2 DEF Wrote
    <3>3. CASE p \notin C
      BY <3>1, <3>3, <2>2 DEF Wrote
    <3> QED
      BY <3>2, <3>3
  <2>4. known' <= revision' /\ last' <= known' /\ refused' <= known'
    BY <1>2, <2>2 DEF Bounded
  <2>5. ASSUME NEW u \in Threads, phase'[u] = "dispatch" PROVE Within(<<held'[u]>>, 1, revision')
    <3>1. DOMAIN <<held'[u]>> = {1} /\ <<held'[u]>>[1] = held'[u]
      OBVIOUS
    <3>2. ASSUME NEW p \in DOMAIN held'[u]
          PROVE  1 <= held'[u][p].revision /\ held'[u][p].revision <= revision'
      <4>1. CASE u = t
        <5>1. revision + 1 <= held'[t][p].revision /\ held'[t][p].revision <= revision'
          BY <3>2, <4>1 DEF Wrote
        <5>2. held'[t][p].revision \in Revisions'
          BY <3>2, <4>1, DeltasFacts DEF TypeOK
        <5>3. held'[t][p].revision \in Int
          BY <5>2 DEF Revisions, DeliveryAssumption
        <5> QED
          BY <4>1, <5>1, <5>3, NumberFacts
      <4>2. CASE u # t
        <5>1. phase[u] = "dispatch" /\ held'[u] = held[u]
          BY <1>1, <2>5, <4>2
        <5>2. Within(<<held[u]>>, 1, revision) /\ DOMAIN <<held[u]>> = {1} /\ <<held[u]>>[1] = held[u]
          BY <5>1 DEF Bounded
        <5>3. 1 <= held[u][p].revision /\ held[u][p].revision <= revision
          BY <3>2, <5>1, <5>2 DEF Within
        <5>4. held[u][p].revision \in Int
          BY <3>2, <5>1, NumberFacts
        <5> QED
          BY <5>1, <5>3, <5>4, <2>2
      <4> QED
        BY <4>1, <4>2
    <3> QED
      BY <3>1, <3>2 DEF Within
  <2>6. ASSUME NEW u \in Threads, phase'[u] = "dispatch", NEW p \in DOMAIN held'[u]
        PROVE  held'[u][p].value \in {held'[u][p].revision, Absent}
    <3>1. CASE u = t
      BY <2>6, <3>1 DEF Wrote
    <3>2. CASE u # t
      BY <1>1, <2>6, <3>2 DEF Bounded
    <3> QED
      BY <3>1, <3>2
  <2> QED
    BY <1>2, <2>1, <2>3, <2>4, <2>5, <2>6 DEF Bounded
<1>5. Unwatched'
  <2>1. Watched' = Watched
    BY <1>2 DEF Watched
  <2>2. \A p, v, n : Carried(p, v, n)' <=> Carried(p, v, n)
    BY <1>2, WireKept
  <2> QED
    BY <1>2, <2>1, <2>2 DEF Unwatched
<1>6. ~late' => Sorted'
  BY <1>2, SortedKept
<1> QED
  BY <1>3, <1>4, <1>5, <1>6

\* What the tree newly holds is as the youngest deltas in hand say, and a
\* snapshot under way is older.
LEMMA WroteServer ==
  ASSUME DeliveryAssumption, Inv, TypeOK', NEW t \in Threads, NEW C \in SUBSET Leaves, Wrote(t, C)
  PROVE  Undispatched' /\ SnapshotOK'
<1>0. Commands \in Threads /\ phase \in [Threads -> {"idle", "dispatch", "pairs", "revision", "replay"}]
      /\ TypeOK /\ Bounded /\ Undispatched /\ SnapshotOK
  BY DEF DeliveryAssumption, TypeOK, Inv
<1>1. \A p, v, n : InHand(p, v, n)' <=>
            \/ InHand(p, v, n)
            \/ p \in DOMAIN held'[t] /\ held'[t][p].value = v /\ held'[t][p].revision = n
  BY <1>0, WroteInHand
<1>2. \A p, v, n : InHand(p, v, n) => n <= revision /\ n \in Revisions
  BY <1>0, InHandAtMostRevision
<1>3. /\ revision \in Int /\ revision >= 0 /\ revision' \in Int /\ revision' > revision
      /\ \A n \in Revisions : n \in Int /\ n >= 0
      /\ Absent = -1
  BY <1>0, NumberFacts DEF Wrote, TypeOK, Revisions
<1>4. Undispatched'
  <2> SUFFICES ASSUME NEW p \in Leaves, NEW v \in Values, NEW n \in Revisions,
                      InHand(p, v, n)', store'[p] # Absent, n >= store'[p]
               PROVE  v = store'[p]
    BY DEF Undispatched
  <2>0. store'[p] \in Int
    BY <1>3 DEF TypeOK, Values
  <2>1. CASE p \notin C
    BY <1>0, <1>1, <2>1 DEF Undispatched, Wrote
  <2>2. CASE p \in C /\ p \in DOMAIN held'[t] /\ store'[p] = held'[t][p].value
    <3>1. store'[p] >= revision + 1
      BY <2>2 DEF Wrote
    <3>2. ~InHand(p, v, n)
      BY <1>2, <1>3, <2>0, <3>1
    <3> QED
      BY <1>1, <2>2, <3>2
  <2>3. CASE p \notin DOMAIN held'[t] /\ revision + 1 <= store'[p]
    <3>1. ~InHand(p, v, n)
      BY <1>2, <1>3, <2>0, <2>3
    <3> QED
      BY <1>1, <2>3, <3>1
  <2> QED
    BY <2>1, <2>2, <2>3 DEF Wrote
<1>5. SnapshotOK'
  <2> SUFFICES ASSUME Snapshot' PROVE SnapshotOK'
    BY DEF SnapshotOK
  <2>1. t # Commands /\ phase'[Commands] = phase[Commands] /\ held'[Commands] = held[Commands] /\ Snapshot
    BY <1>0 DEF Wrote, Snapshot
  <2>2. ASSUME NEW p \in DOMAIN held[Commands]
        PROVE  held[Commands][p].value \in Int /\ held[Commands][p].revision \in Int
    BY <1>0, <1>3, NumberFacts
  <2> QED
    BY <1>0, <1>3, <2>1, <2>2 DEF SnapshotOK
<1> QED
  BY <1>4, <1>5

\* A changed leaf is on its way by the delta in hand, the others are where
\* they were.
LEMMA WroteLeaves ==
  ASSUME DeliveryAssumption, Inv, TypeOK', NEW t \in Threads, NEW C \in SUBSET Leaves, Wrote(t, C),
         Unwatched', Sound'
  PROVE  \A p \in Leaves \ pruned' : LeafOK(p)'
<1>0. Commands \in Threads /\ phase \in [Threads -> {"idle", "dispatch", "pairs", "revision", "replay"}]
      /\ TypeOK /\ Bounded
  BY DEF DeliveryAssumption, TypeOK, Inv
<1>1. \A p, v, n : InHand(p, v, n)' <=>
            \/ InHand(p, v, n)
            \/ p \in DOMAIN held'[t] /\ held'[t][p].value = v /\ held'[t][p].revision = n
  BY <1>0, WroteInHand
<1>2. UNCHANGED <<subs, pattern, buffer, queue, batch, cache, last, known, late, noticed, baseLost, refused>>
  BY DEF Wrote, client, order, losses
<1>3. \A p \in DOMAIN held'[t] : /\ revision + 1 <= held'[t][p].revision
                                 /\ held'[t][p].revision \in Revisions /\ held'[t][p].value \in Values
  <2>1. held'[t] \in Deltas
    BY DEF TypeOK
  <2> QED
    BY <2>1, DeltasFacts DEF Wrote
<1>4. /\ \A p, v, n : InHand(p, v, n) => n <= revision /\ n \in Revisions
      /\ \A p, v, n : Carried(p, v, n) => n <= known /\ n \in Revisions
  BY <1>0, InHandAtMostRevision, CarriedAtMostKnown
<1>5. /\ revision \in Int /\ revision >= 0 /\ known \in Int /\ known <= revision
      /\ last \in Int /\ last <= known
      /\ \A n \in Revisions : n \in Int /\ n >= 0 /\ n # Absent
      /\ \A p \in Leaves : store[p] \in Int /\ store[p] <= revision
      /\ Absent = -1
  BY <1>0, NumberFacts DEF Bounded
<1>6. /\ \A p, v, n : Carried(p, v, n)' <=> Carried(p, v, n)
      /\ \A n : Lost(n)' <=> Lost(n)
  BY <1>2, WireKept
<1>7. Watched' = Watched
  BY <1>2 DEF Watched
<1>8. Sound
  <2>1. \A u \in Threads : phase[u] = "dispatch" => phase'[u] = "dispatch" /\ held'[u] = held[u]
    BY <1>0 DEF Wrote
  <2> QED
    BY <1>2, <1>7, <2>1 DEF Sound, InOrder, Behind
<1>9. \A p : Awaiting(p) => Awaiting(p)'
  <2>1. phase[Commands] # "idle" => phase'[Commands] = phase[Commands] /\ held'[Commands] = held[Commands]
    BY <1>0 DEF Wrote
  <2> QED
    BY <1>2, <2>1 DEF Awaiting, Snapshot
<1>10. ASSUME NEW p \in Leaves \ pruned' PROVE LeafOK(p)'
  <2>1. CASE p \notin C
    <3>1. store'[p] = store[p] /\ p \notin pruned /\ p \notin DOMAIN held'[t]
      BY <1>10, <2>1 DEF Wrote
    <3>2. \A v, n : InHand(p, v, n)' <=> InHand(p, v, n)
      BY <1>1, <3>1
    <3>3. LeafOK(p)
      BY <3>1, <1>8 DEF Inv
    <3>4. \A v, n : Pending(p, v, n)' <=> Pending(p, v, n)
      BY <3>2, <1>6 DEF Pending
    <3>5. FreshIsTrue(p)' /\ Honest(p)' /\ Reaching(p)'
      BY <3>1, <3>3, <3>4, <1>2, <1>6 DEF LeafOK, FreshIsTrue, Honest, Reaching
    <3>6. Arriving(p)'
      BY <3>1, <3>3, <3>4, <1>2, <1>6, <1>7, <1>9 DEF LeafOK, Arriving
    <3>7. Vanishing(p)'
      BY <3>1, <3>3, <3>4, <1>2, <1>6, <1>7 DEF LeafOK, Vanishing
    <3> QED
      BY <3>5, <3>6, <3>7 DEF LeafOK
  <2>2. CASE p \in C /\ p \in DOMAIN held'[t] /\ store'[p] = held'[t][p].value
    <3>1. PICK r \in Revisions : r = held'[t][p].revision /\ r > revision /\ store'[p] \in {Absent, r}
                                 /\ p \in DOMAIN held'[t] /\ store'[p] = held'[t][p].value
      BY <1>10, <2>2, <1>3, <1>5 DEF Wrote
    <3>2. PICK w \in Values : w = store'[p]
      BY DEF TypeOK
    <3>3. InHand(p, w, r)'
      BY <3>1, <3>2, <1>1
    <3>4. w = Absent \/ w = r
      BY <3>1, <3>2
    <3>5. Pending(p, w, r)'
      BY <3>3 DEF Pending
    <3>7. FreshIsTrue(p)'
      <4>1. ASSUME NEW v \in Values, NEW n \in Revisions, Carried(p, v, n)' PROVE n < r
        BY <4>1, <1>6, <1>4, <1>5, <3>1
      <4> QED
        BY <4>1, <3>2, <3>4, <1>5 DEF FreshIsTrue
    <3>8. Honest(p)' /\ Reaching(p)'
      <4>1. ASSUME store'[p] # Absent PROVE ~(store'[p] <= last') /\ Pending(p, store[p], store[p])'
        <5>1. w = r /\ ~(r <= last) /\ Pending(p, r, r)'
          BY <1>5, <3>1, <3>2, <3>4, <3>5, <4>1
        <5> QED
          BY <1>2, <3>2, <5>1
      <4> QED
        BY <4>1 DEF Honest, Reaching
    <3>9. Arriving(p)'
      <4>1. w # Absent => r >= w /\ Pending(p, w, r)'
        BY <3>4, <3>5, <1>5
      <4> QED
        BY <4>1, <3>2 DEF Arriving
    <3>10. Vanishing(p)'
      <4> SUFFICES ASSUME store'[p] = Absent PROVE Vanishing(p)'
        BY DEF Vanishing
      <4>1. w = Absent /\ Pending(p, Absent, r)'
        BY <3>2, <3>5
      <4>2. ASSUME NEW v \in Revisions, NEW m \in Revisions, Carried(p, v, m)'
            PROVE  r > m
        BY <4>2, <1>6, <1>4, <1>5, <3>1
      <4>3. r > last'
        BY <1>2, <1>5, <3>1
      <4> QED
        BY <4>1, <4>2, <4>3 DEF Vanishing
    <3> QED
      BY <3>7, <3>8, <3>9, <3>10 DEF LeafOK
  <2>3. CASE p \in C /\ p \notin Watched
    <3>1. cache'[p] = Absent /\ p \notin Watched' /\ \A v \in Values, n \in Revisions : ~Carried(p, v, n)'
      BY <1>7, <2>3 DEF Unwatched
    <3>2. \A n \in Revisions : n \in Values
      BY DEF Values
    <3> QED
      BY <3>1, <3>2 DEF LeafOK, FreshIsTrue, Honest, Reaching, Arriving, Vanishing
  <2> QED
    BY <1>10, <2>1, <2>2, <2>3 DEF Wrote
<1> QED
  BY <1>10

\* So a change of the tree keeps the invariant.
LEMMA WroteStep ==
  ASSUME DeliveryAssumption, Inv, TypeOK', NEW t \in Threads, NEW C \in SUBSET Leaves, Wrote(t, C)
  PROVE  Inv'
BY WroteBounds, WroteServer, WroteLeaves DEF Inv

\* A set or merge is a change of the tree ...
LEMMA ChangeWrites ==
  ASSUME DeliveryAssumption, TypeOK, NEW t \in Threads,
         NEW changed \in SUBSET Paths, changed # {}, NEW kept, Change(t, changed, kept)
  PROVE  \E C \in SUBSET Leaves : Wrote(t, C)
<1> DEFINE C == (changed \intersect Leaves) \union Grafted(changed)
<1>1. PICK rev \in [changed -> Revisions] : Written(t, changed, rev)
  BY ChangeFacts
<1>2. C \in SUBSET Leaves /\ changed \intersect Grafted(changed) = {}
  BY GraftedFacts DEF Change
<1>3. held'[t] = [p \in changed |-> [value |-> rev[p], revision |-> rev[p]]]
      /\ \A u \in Threads \ {t} : held'[u] = held[u]
  BY <1>1 DEF TypeOK, Written
<1>4. DOMAIN held'[t] = changed /\ \A p \in changed : held'[t][p].value = rev[p] /\ held'[t][p].revision = rev[p]
  BY <1>3
<1>5. revision' > revision
  <2>1. PICK p \in changed : TRUE
    OBVIOUS
  <2>2. revision \in Int /\ rev[p] \in Int /\ revision' \in Int
    <3>1. Cardinality(changed) \in Nat
      BY FS_Subset, FS_CardinalityType DEF DeliveryAssumption
    <3> QED
      BY <3>1 DEF TypeOK, Revisions, Change
  <2> QED
    BY <1>1, <2>1, <2>2 DEF Written
<1>6. \A p \in Leaves \ C : /\ store'[p] = store[p] /\ (p \in pruned' <=> p \in pruned)
                            /\ p \notin DOMAIN held'[t]
  BY <1>1, <1>4 DEF Change, Written
<1>7. ASSUME NEW p \in C
      PROVE  \/ p \in DOMAIN held'[t] /\ store'[p] = held'[t][p].value
             \/ /\ p \notin DOMAIN held'[t] /\ (p \in pruned' \/ p \notin Watched)
                /\ store'[p] = Absent \/ (revision + 1 <= store'[p] /\ store'[p] <= revision')
  <2>1. CASE p \in changed \intersect Leaves
    BY <1>1, <1>4, <2>1 DEF Written
  <2>2. CASE p \in Grafted(changed)
    <3>1. p \notin DOMAIN held'[t] /\ (p \in pruned' \/ p \notin Watched)
      BY <1>2, <1>4, <2>2 DEF Change
    <3> QED
      BY <1>1, <2>2, <3>1 DEF Written
  <2> QED
    BY <2>1, <2>2
<1>8. /\ phase[t] = "idle" /\ phase' = [phase EXCEPT ![t] = "dispatch"]
      /\ UNCHANGED <<subs, pattern, buffer, queue, client, tickets, order, losses>>
  BY DEF Change
<1>9. \A p \in DOMAIN held'[t] :
          /\ revision + 1 <= held'[t][p].revision /\ held'[t][p].revision <= revision'
          /\ held'[t][p].value \in {held'[t][p].revision, Absent}
  BY <1>1, <1>4 DEF Written
<1> HIDE DEF C
<1> QED
  BY <1>2, <1>3, <1>5, <1>6, <1>7, <1>8, <1>9 DEF Wrote

\* ... and so is a delete.
LEMMA DeleteWrites ==
  ASSUME DeliveryAssumption, TypeOK, NEW t \in Threads, NEW path \in Paths, Delete(t, path)
  PROVE  Wrote(t, Gone(path)) /\ Gone(path) \in SUBSET Leaves
<1>1. revision \in Int /\ held \in [Threads -> Deltas]
  BY NumberFacts DEF TypeOK
<1>2. Gone(path) \in SUBSET Leaves
  BY DEF Gone, DeliveryAssumption, Paths
<1>3. held'[t] = [p \in {path} |-> [value |-> Absent, revision |-> revision + 1]]
      /\ \A u \in Threads \ {t} : held'[u] = held[u]
  BY <1>1 DEF Delete
<1>4. DOMAIN held'[t] = {path} /\ held'[t][path].value = Absent /\ held'[t][path].revision = revision + 1
  BY <1>3
<1>5. revision' = revision + 1
  BY DEF Delete
<1>6. \A p \in Gone(path) : store'[p] = Absent
  BY <1>2 DEF Delete
<1>7. \A p \in Leaves \ Gone(path) : store'[p] = store[p] /\ (p \in pruned' <=> p \in pruned)
  BY DEF Delete, Gone
<1>8. IF path \in Nodes THEN Gone(path) \intersect Watched \subseteq pruned' /\ path \notin Leaves
                        ELSE Gone(path) = {path}
  BY DEF Delete, Gone, DeliveryAssumption
<1>9. /\ phase[t] = "idle" /\ phase' = [phase EXCEPT ![t] = "dispatch"]
      /\ UNCHANGED <<subs, pattern, buffer, queue, client, tickets, order, losses>>
  BY DEF Delete
<1>10. \A p \in Gone(path) :
          \/ p \in DOMAIN held'[t] /\ store'[p] = held'[t][p].value
          \/ /\ p \notin DOMAIN held'[t] /\ (p \in pruned' \/ p \notin Watched)
             /\ store'[p] = Absent \/ (revision + 1 <= store'[p] /\ store'[p] <= revision')
  BY <1>2, <1>4, <1>6, <1>8
<1>11. \A p \in Leaves \ Gone(path) : p \notin DOMAIN held'[t]
  BY <1>4, <1>8
<1> QED
  BY <1>1, <1>2, <1>3, <1>4, <1>5, <1>7, <1>9, <1>10, <1>11 DEF Wrote

-----------------------------------------------------------------------------
(* Dispatch: deltas join the buffer.                                       *)

\* Deltas of thread t at paths ps join the buffer.
Joined(t, ps) ==
    /\ Buffered(t, ps)
    /\ held' = [held EXCEPT ![t] = Nothing]
    /\ phase' = [phase EXCEPT ![t] = "idle"]
    /\ UNCHANGED <<store, revision, subs, pattern, queue, client, tickets, losses, pruned>>
    /\ \/ phase[t] = "dispatch" /\ ps = Watched
       \/ phase[t] = "replay" /\ t = Commands /\ ps = Paths

\* What the buffer, the revision dispatched and the order are after deltas
\* joined.
LEMMA JoinedFacts ==
  ASSUME DeliveryAssumption, Inv, TypeOK', NEW t \in Threads, NEW ps, Joined(t, ps)
  PROVE  /\ \A p, v, n : Carried(p, v, n)' <=>
               \/ Carried(p, v, n)
               \/ /\ p \in DOMAIN held[t] /\ p \in ps
                  /\ held[t][p].value = v /\ held[t][p].revision = n
         /\ \A n : Lost(n)' <=> Lost(n)
         /\ InFlight' = InFlight
         /\ known' \in Int /\ known <= known' /\ known' <= revision
         /\ \A p \in DOMAIN held[t] \intersect ps : held[t][p].revision <= known'
         /\ late => late'
         /\ ~late' => \A p \in DOMAIN held[t] \intersect ps :
               /\ held[t][p].revision >= known
               /\ held[t][p].revision = known => buffer # <<>>
               /\ p \in Leaves \ pruned =>
                     \/ held[t][p].value = store[p]
                     \/ \E m : m > held[t][p].revision /\ InHand(p, store[p], m)
         /\ \A p \in DOMAIN held[t] \intersect ps : p \in Watched
         /\ buffer # <<>> => buffer' # <<>>
         /\ buffer' # <<>> => buffer # <<>> \/ \E p \in DOMAIN held[t] : p \in ps
         /\ Watched' = Watched
<1> DEFINE d == Restrict(held[t], DOMAIN held[t] \intersect ps)
<1> USE DEF Inv
<1>1. held[t] \in Deltas /\ \A p \in DOMAIN held[t] : held[t][p].value \in Values /\ held[t][p].revision \in Revisions
  BY NumberFacts
<1>2. DOMAIN d = DOMAIN held[t] \intersect ps /\ \A p \in DOMAIN d : d[p] = held[t][p]
  BY DEF Restrict
<1>3. d \in Deltas
  <2> DEFINE S == DOMAIN held[t] \intersect ps
  <2>1. S \in SUBSET Paths
    BY <1>1, DeltasFacts
  <2>2. d \in [S -> Delta]
    BY <1>1, DeltasFacts DEF Restrict
  <2> HIDE DEF d
  <2> QED
    BY <2>1, <2>2, DeltasMade
<1>4. /\ buffer' = IF DOMAIN d = {} THEN buffer ELSE Append(buffer, d)
      /\ late' = (late \/ Late(d))
  BY DEF Joined, Buffered
<1>5. /\ known' \in RevisionsOf(d) \union {known}
      /\ \A m \in RevisionsOf(d) \union {known} : m <= known'
  BY DEF Joined, Buffered
<1> HIDE DEF d
<1>6. UNCHANGED <<store, revision, subs, queue, batch, last, refused>>
  BY DEF Joined, client, losses
<1>7. InFlight' = InFlight
  BY <1>6 DEF InFlight
<1>8. \A n : Lost(n)' <=> Lost(n)
  BY <1>6, <1>7 DEF Lost
<1>9. \A p, v, n : Holds(buffer, p, v, n)' <=>
               \/ Holds(buffer, p, v, n)
               \/ p \in DOMAIN d /\ d[p].value = v /\ d[p].revision = n
  <2>1. CASE DOMAIN d = {}
    BY <1>4, <2>1 DEF Holds
  <2>2. CASE DOMAIN d # {}
    <3>1. buffer' = Append(buffer, d) /\ buffer \in Seq(Deltas)
      BY <1>4, <2>2 DEF TypeOK
    <3>2. \A p, v, n : Holds(Append(buffer, d), p, v, n) <=>
               \/ Holds(buffer, p, v, n)
               \/ p \in DOMAIN d /\ d[p].value = v /\ d[p].revision = n
      BY <3>1, <1>3, HoldsAppend
    <3> QED
      BY <3>1, <3>2 DEF Holds
  <2> QED
    BY <2>1, <2>2
<1>10. \A p, v, n : Carried(p, v, n)' <=>
               \/ Carried(p, v, n)
               \/ /\ p \in DOMAIN held[t] /\ p \in ps
                  /\ held[t][p].value = v /\ held[t][p].revision = n
  <2> SUFFICES ASSUME NEW p, NEW v, NEW n
               PROVE  Carried(p, v, n)' <=>
               \/ Carried(p, v, n)
               \/ /\ p \in DOMAIN held[t] /\ p \in ps
                  /\ held[t][p].value = v /\ held[t][p].revision = n
    OBVIOUS
  <2>1. Carried(p, v, n)' <=> Holds(buffer, p, v, n)' \/ \E e \in InFlight : Holds(e.deltas, p, v, n)
    BY <1>7 DEF Carried
  <2> QED
    BY <2>1, <1>9, <1>2 DEF Carried
<1>11. /\ RevisionsOf(d) \subseteq Revisions
       /\ \A p \in DOMAIN held[t] \intersect ps : held[t][p].revision \in RevisionsOf(d)
       /\ \A n \in RevisionsOf(d) : \E p \in DOMAIN held[t] \intersect ps : n = held[t][p].revision
  BY <1>2, <1>3, RevisionsOfFacts DEF RevisionsOf
<1>12. known \in Int /\ known' \in Int /\ known <= known'
  BY <1>5, <1>11, NumberFacts
<1>13. known' <= revision
  <2>1. CASE known' = known
    BY <2>1 DEF Bounded
  <2>2. CASE known' # known
    <3>1. PICK p \in DOMAIN held[t] : known' = held[t][p].revision
      BY <1>5, <1>11, <2>2
    <3>2. CASE phase[t] = "dispatch"
      <4>1. Within(<<held[t]>>, 1, revision) /\ 1 \in DOMAIN <<held[t]>> /\ <<held[t]>>[1] = held[t]
        BY <3>2 DEF Bounded
      <4> QED
        BY <3>1, <4>1 DEF Within
    <3>3. CASE phase[t] = "replay" /\ t = Commands
      BY <3>1, <3>3 DEF SnapshotOK, Snapshot
    <3> QED
      BY <3>2, <3>3 DEF Joined
  <2> QED
    BY <2>1, <2>2
<1>14. ASSUME ~late', NEW p \in DOMAIN held[t] \intersect ps
       PROVE  /\ held[t][p].revision >= known
              /\ held[t][p].revision = known => buffer # <<>>
              /\ p \in Leaves \ pruned =>
                    \/ held[t][p].value = store[p]
                    \/ \E m : m > held[t][p].revision /\ InHand(p, store[p], m)
  <2>1. ~Late(d) /\ p \in DOMAIN d /\ d[p] = held[t][p]
    BY <1>2, <1>4, <1>14
  <2>2. ~Behind(held[t][p].revision) /\ held[t][p].revision \in Int
    BY <1>1, <1>11, <2>1, NumberFacts DEF Late
  <2>3. held[t][p].revision >= known /\ (held[t][p].revision = known => buffer # <<>>)
    BY <1>12, <2>2 DEF Behind
  <2>4. ASSUME p \in Leaves \ pruned, held[t][p].value # store[p]
        PROVE  \E m : m > held[t][p].revision /\ InHand(p, store[p], m)
    <3>1. ~Overtaken(p, held[t][p])
      BY <2>1, <2>4 DEF Late
    <3>2. PICK u \in Threads : /\ phase[u] = "dispatch" /\ p \in DOMAIN held[u]
                               /\ held[u][p].value = store[p]
                               /\ ~(held[u][p].revision <= held[t][p].revision)
      BY <2>4, <3>1 DEF Overtaken
    <3>3. held[u][p].revision \in Int
      BY <3>2, NumberFacts
    <3> QED
      BY <2>2, <3>2, <3>3 DEF InHand
  <2> QED
    BY <2>3, <2>4
<1>15. \A p \in DOMAIN held[t] \intersect ps : p \in Watched
  BY DEF Joined, PhaseOK, Snapshot
<1>16. /\ buffer # <<>> => buffer' # <<>>
       /\ buffer' # <<>> => buffer # <<>> \/ \E p \in DOMAIN held[t] : p \in ps
  <2>1. buffer \in Seq(Deltas)
    BY DEF TypeOK
  <2> QED
    BY <1>2, <1>4, <2>1
<1>17. Watched' = Watched /\ (late => late')
  BY <1>4, <1>6 DEF Watched
<1> QED
  BY <1>5, <1>7, <1>8, <1>10, <1>11, <1>12, <1>13, <1>14, <1>15, <1>16, <1>17

\* What is in hand after that.
LEMMA JoinedInHand ==
  ASSUME DeliveryAssumption, TypeOK, NEW t \in Threads, NEW ps, Joined(t, ps)
  PROVE  /\ \A p, v, n : InHand(p, v, n)' => InHand(p, v, n)
         /\ \A p, v, n : InHand(p, v, n) =>
               \/ InHand(p, v, n)'
               \/ /\ phase[t] = "dispatch"
                  /\ p \in DOMAIN held[t] /\ held[t][p].value = v /\ held[t][p].revision = n
         /\ \A u \in Threads \ {t} : held'[u] = held[u] /\ phase'[u] = phase[u]
         /\ phase'[t] = "idle" /\ held'[t] = Nothing
         /\ Commands \in Threads
<1>1. /\ \A u \in Threads \ {t} : held'[u] = held[u] /\ phase'[u] = phase[u]
      /\ phase'[t] = "idle" /\ held'[t] = Nothing
  BY DEF Joined, TypeOK
<1>2. \A p, v, n : InHand(p, v, n)' => InHand(p, v, n)
  BY <1>1 DEF InHand
<1>3. \A p, v, n : InHand(p, v, n) =>
               \/ InHand(p, v, n)'
               \/ /\ phase[t] = "dispatch"
                  /\ p \in DOMAIN held[t] /\ held[t][p].value = v /\ held[t][p].revision = n
  BY <1>1 DEF InHand
<1> QED
  BY <1>1, <1>2, <1>3 DEF DeliveryAssumption

\* The buffer is what it was, and perhaps one group more.
LEMMA JoinedBuffer ==
  ASSUME DeliveryAssumption, TypeOK, NEW t \in Threads, NEW ps, Joined(t, ps)
  PROVE  \A i \in DOMAIN buffer' :
            \/ i \in DOMAIN buffer /\ buffer'[i] = buffer[i]
            \/ /\ i = Len(buffer) + 1 /\ \A j \in DOMAIN buffer : j < i
               /\ \A p \in DOMAIN buffer'[i] : /\ p \in DOMAIN held[t] \intersect ps
                                               /\ buffer'[i][p] = held[t][p]
<1> DEFINE d == Restrict(held[t], DOMAIN held[t] \intersect ps)
<1>1. buffer' = IF DOMAIN d = {} THEN buffer ELSE Append(buffer, d)
  BY DEF Joined, Buffered
<1>2. DOMAIN d = DOMAIN held[t] \intersect ps /\ \A p \in DOMAIN d : d[p] = held[t][p]
  BY DEF Restrict
<1> HIDE DEF d
<1>3. buffer \in Seq(Deltas)
  BY DEF TypeOK
<1>4. CASE DOMAIN d = {}
  BY <1>1, <1>4
<1>5. CASE DOMAIN d # {}
  <2>1. buffer' = Append(buffer, d)
    BY <1>1, <1>5
  <2>2. /\ DOMAIN buffer' = 1 .. Len(buffer) + 1 /\ DOMAIN buffer = 1 .. Len(buffer) /\ Len(buffer) \in Nat
        /\ \A i \in DOMAIN buffer : buffer'[i] = buffer[i]
        /\ buffer'[Len(buffer) + 1] = d
    BY <1>3, <2>1
  <2> QED
    BY <1>2, <2>2
<1> QED
  BY <1>4, <1>5

\* Deltas that are not late keep the buffer ascending and above the envelopes.
LEMMA JoinedBounds ==
  ASSUME DeliveryAssumption, Inv, TypeOK', NEW t \in Threads, NEW ps, Joined(t, ps)
  PROVE  PhaseOK' /\ Bounded' /\ Unwatched' /\ (~late' => Sorted')
<1> USE DEF Inv
<1>1. /\ \A u \in Threads \ {t} : held'[u] = held[u] /\ phase'[u] = phase[u]
      /\ phase'[t] = "idle" /\ Commands \in Threads
  BY JoinedInHand
<1>2. UNCHANGED <<store, revision, subs, pattern, queue, batch, cache, last, refused>>
  BY DEF Joined, client, losses
<1>3. InFlight' = InFlight /\ Watched' = Watched /\ known' \in Int /\ known <= known' /\ known' <= revision
  BY JoinedFacts
<1>4. PhaseOK'
  BY <1>1, <1>2, <1>3 DEF PhaseOK, Snapshot
<1>5. /\ known \in Int /\ known >= -1 /\ last \in Int /\ last <= known /\ refused \in Int /\ refused <= known
      /\ \A n \in Revisions : n \in Int /\ n >= 0
  BY NumberFacts DEF Bounded
<1>6. /\ \A p \in DOMAIN held[t] : held[t][p].revision \in Revisions
      /\ \A p \in DOMAIN held[t] \intersect ps : held[t][p].revision <= known'
  BY JoinedFacts, NumberFacts
<1>7. Within(buffer, 0, known) /\ \A i \in DOMAIN buffer : \A p \in DOMAIN buffer[i] : buffer[i][p].revision \in Revisions
  <2>1. \A i \in DOMAIN buffer : buffer[i] \in Deltas
    BY DEF TypeOK
  <2> QED
    BY <2>1, DeltasFacts DEF Bounded
<1>8. ASSUME NEW lo \in Int, Within(buffer, lo, known), NEW i \in DOMAIN buffer', NEW p \in DOMAIN buffer'[i]
      PROVE  /\ buffer'[i][p].revision <= known'
             /\ \/ lo <= buffer'[i][p].revision
                \/ p \in DOMAIN held[t] \intersect ps /\ buffer'[i][p].revision = held[t][p].revision
  <2>1. CASE i \in DOMAIN buffer /\ buffer'[i] = buffer[i]
    <3>1. lo <= buffer[i][p].revision /\ buffer[i][p].revision <= known /\ buffer[i][p].revision \in Int
      BY <1>7, <1>8, <1>5, <2>1 DEF Within
    <3> QED
      BY <2>1, <3>1, <1>3, <1>5
  <2>2. CASE p \in DOMAIN held[t] \intersect ps /\ buffer'[i][p] = held[t][p]
    BY <1>6, <2>2
  <2> QED
    BY <2>1, <2>2, <1>8, JoinedBuffer
<1>9. Within(buffer', 0, known')
  <2>1. ASSUME NEW i \in DOMAIN buffer', NEW p \in DOMAIN buffer'[i]
        PROVE  0 <= buffer'[i][p].revision /\ buffer'[i][p].revision <= known'
    BY <2>1, <1>5, <1>6, <1>7, <1>8
  <2> QED
    BY <2>1 DEF Within
<1>10. Bounded'
  <2>1. \A p \in Leaves : store'[p] <= revision'
    BY <1>2 DEF Bounded
  <2>2. known' <= revision' /\ last' <= known' /\ refused' <= known'
    BY <1>2, <1>3, <1>5
  <2>3. \A u \in Threads : phase'[u] = "dispatch" =>
           /\ Within(<<held'[u]>>, 1, revision')
           /\ \A p \in DOMAIN held'[u] : held'[u][p].value \in {held'[u][p].revision, Absent}
    BY <1>1, <1>2 DEF Bounded
  <2>4. ASSUME NEW e \in InFlight
        PROVE  Within(e.deltas, e.first, e.revision) /\ e.first <= e.revision /\ e.revision <= known'
    BY InFlightTyped, <1>3, <1>5 DEF Bounded
  <2> QED
    BY <2>1, <2>2, <2>3, <2>4, <1>3, <1>9 DEF Bounded
<1>11. Unwatched'
  <2>1. ASSUME NEW p \in Leaves \ Watched, NEW v, NEW n, Carried(p, v, n)'
        PROVE  Carried(p, v, n)
    BY <2>1, JoinedFacts
  <2> QED
    BY <2>1, <1>2, <1>3 DEF Unwatched
<1>12. ASSUME ~late' PROVE Sorted'
  <2>1. /\ ~late /\ Sorted
        /\ \A p \in DOMAIN held[t] \intersect ps :
              held[t][p].revision >= known /\ (held[t][p].revision = known => buffer # <<>>)
    BY <1>12, JoinedFacts
  <2>2. ASSUME NEW lo \in Int, lo <= known + 1, buffer # <<>> => lo <= known, Within(buffer, lo, known)
        PROVE  Within(buffer', lo, known')
    <3>1. ASSUME NEW i \in DOMAIN buffer', NEW p \in DOMAIN buffer'[i]
          PROVE  lo <= buffer'[i][p].revision /\ buffer'[i][p].revision <= known'
      <4>1. /\ buffer'[i][p].revision <= known'
            /\ \/ lo <= buffer'[i][p].revision
               \/ p \in DOMAIN held[t] \intersect ps /\ buffer'[i][p].revision = held[t][p].revision
        BY <1>8, <2>2, <3>1
      <4>2. ASSUME p \in DOMAIN held[t] \intersect ps PROVE lo <= held[t][p].revision
        <5>1. held[t][p].revision \in Int
          BY <1>5, <1>6, <4>2
        <5> QED
          BY <1>5, <2>1, <2>2, <4>2, <5>1
      <4> QED
        BY <4>1, <4>2
    <3> QED
      BY <3>1 DEF Within
  <2>3. Ascending(buffer')
    <3>1. ASSUME NEW i \in DOMAIN buffer', NEW j \in DOMAIN buffer', i < j,
                 NEW p \in DOMAIN buffer'[i] \intersect DOMAIN buffer'[j]
          PROVE  buffer'[i][p].revision <= buffer'[j][p].revision
      <4>1. CASE j \in DOMAIN buffer /\ buffer'[j] = buffer[j]
        <5>1. i \in DOMAIN buffer /\ buffer'[i] = buffer[i]
          <6>1. Len(buffer) \in Nat /\ DOMAIN buffer = 1 .. Len(buffer)
            BY DEF TypeOK
          <6> QED
            BY <3>1, <4>1, <6>1, JoinedBuffer
        <5> QED
          BY <3>1, <4>1, <5>1, <2>1 DEF Sorted, Ascending
      <4>2. CASE j = Len(buffer) + 1 /\ p \in DOMAIN held[t] \intersect ps /\ buffer'[j][p] = held[t][p]
        <5>1. i \in DOMAIN buffer /\ buffer'[i] = buffer[i]
          <6>1. Len(buffer) \in Nat
            BY DEF TypeOK
          <6> QED
            BY <3>1, <4>2, <6>1, JoinedBuffer
        <5>2. buffer[i][p].revision <= known /\ buffer[i][p].revision \in Int
          BY <3>1, <5>1, <1>7, <1>5 DEF Within
        <5>3. held[t][p].revision >= known /\ held[t][p].revision \in Int
          BY <4>2, <2>1, <1>6, <1>5
        <5> QED
          BY <4>2, <5>1, <5>2, <5>3, <1>5
      <4> QED
        BY <3>1, <4>1, <4>2, JoinedBuffer
    <3> QED
      BY <3>1 DEF Ascending
  <2>4. \A e \in InFlight : Ascending(e.deltas) /\ last < e.first /\ Within(buffer', e.revision + 1, known')
    <3>1. ASSUME NEW e \in InFlight PROVE Within(buffer', e.revision + 1, known')
      <4>1. e.revision \in Int /\ e.revision <= known
        BY InFlightTyped, <1>5 DEF Bounded
      <4>2. Within(buffer, e.revision + 1, known) /\ (buffer # <<>> => e.revision < known)
        BY <2>1 DEF Sorted
      <4> QED
        BY <4>1, <4>2, <2>2, <1>5
    <3> QED
      BY <3>1, <2>1 DEF Sorted
  <2>5. Within(buffer', last + 1, known') /\ Within(buffer', refused + 1, known')
    <3>1. /\ Within(buffer, last + 1, known) /\ Within(buffer, refused + 1, known)
          /\ buffer # <<>> => last < known /\ refused < known
      BY <2>1 DEF Sorted
    <3> QED
      BY <3>1, <2>2, <1>5
  <2>6. ASSUME buffer' # <<>>
        PROVE  last < known' /\ refused < known' /\ \A e \in InFlight : e.revision < known'
    <3>1. \A e \in InFlight : e.revision \in Int /\ e.revision <= known
      BY InFlightTyped, <1>5 DEF Bounded
    <3>2. CASE buffer # <<>>
      BY <1>3, <1>5, <2>1, <3>1, <3>2 DEF Sorted
    <3>3. CASE buffer = <<>>
      <4>1. PICK p \in DOMAIN held[t] : p \in ps
        BY <2>6, <3>3, JoinedFacts
      <4>2. held[t][p].revision \in Int /\ held[t][p].revision > known /\ held[t][p].revision <= known'
        BY <1>5, <1>6, <2>1, <3>3, <4>1
      <4> QED
        BY <1>3, <1>5, <3>1, <4>2
    <3> QED
      BY <3>2, <3>3
  <2> QED
    BY <2>1, <2>3, <2>4, <2>5, <2>6, <1>2, <1>3 DEF Sorted
<1> QED
  BY <1>4, <1>10, <1>11, <1>12

\* What is left in hand is as true as it was, and a snapshot is as old.
LEMMA JoinedServer ==
  ASSUME DeliveryAssumption, Inv, TypeOK', NEW t \in Threads, NEW ps, Joined(t, ps)
  PROVE  Undispatched' /\ SnapshotOK'
<1> USE DEF Inv
<1>1. /\ \A p, v, n : InHand(p, v, n)' => InHand(p, v, n)
      /\ \A u \in Threads \ {t} : held'[u] = held[u] /\ phase'[u] = phase[u]
      /\ phase'[t] = "idle" /\ Commands \in Threads
  BY JoinedInHand
<1>2. UNCHANGED <<store, revision>>
  BY DEF Joined
<1>3. Undispatched'
  BY <1>1, <1>2 DEF Undispatched
<1>4. SnapshotOK'
  <2> SUFFICES ASSUME Snapshot' PROVE SnapshotOK'
    BY DEF SnapshotOK
  <2>1. phase'[Commands] = phase[Commands] /\ held'[Commands] = held[Commands] /\ Snapshot
    BY <1>1 DEF Snapshot
  <2> QED
    BY <1>2, <2>1 DEF SnapshotOK
<1> QED
  BY <1>3, <1>4

\* Deltas that are not late carry on what was in hand or awaited.
LEMMA JoinedLeaves ==
  ASSUME DeliveryAssumption, Inv, TypeOK', NEW t \in Threads, NEW ps, Joined(t, ps), Sound'
  PROVE  \A p \in Leaves \ pruned' : LeafOK(p)'
<1>0. TypeOK /\ Bounded /\ Unwatched /\ Undispatched /\ SnapshotOK /\ PhaseOK
  BY DEF Inv
<1>1. /\ \A p, v, n : InHand(p, v, n) =>
               \/ InHand(p, v, n)'
               \/ /\ phase[t] = "dispatch"
                  /\ p \in DOMAIN held[t] /\ held[t][p].value = v /\ held[t][p].revision = n
      /\ \A u \in Threads \ {t} : held'[u] = held[u] /\ phase'[u] = phase[u]
      /\ phase'[t] = "idle" /\ Commands \in Threads
  BY <1>0, JoinedInHand
<1>2. /\ \A p, v, n : Carried(p, v, n)' <=>
               \/ Carried(p, v, n)
               \/ /\ p \in DOMAIN held[t] /\ p \in ps
                  /\ held[t][p].value = v /\ held[t][p].revision = n
      /\ \A n : Lost(n)' <=> Lost(n)
      /\ Watched' = Watched
      /\ known \in Int /\ known' \in Int /\ known <= known'
      /\ \A p \in DOMAIN held[t] \intersect ps : held[t][p].revision <= known'
      /\ buffer' # <<>> => buffer # <<>> \/ \E p \in DOMAIN held[t] : p \in ps
  BY JoinedFacts, <1>0, NumberFacts
<1>3. UNCHANGED <<store, revision, subs, pattern, cache, last, noticed, baseLost, pruned>>
  BY DEF Joined, client, losses
<1>4. ~late' /\ ~late
  BY JoinedFacts DEF Sound, InOrder
<1>5. \A p \in DOMAIN held[t] \intersect ps :
               /\ held[t][p].revision >= known
               /\ held[t][p].revision = known => buffer # <<>>
               /\ p \in Leaves \ pruned =>
                     \/ held[t][p].value = store[p]
                     \/ \E m : m > held[t][p].revision /\ InHand(p, store[p], m)
               /\ p \in Watched
  BY <1>4, JoinedFacts
<1>6. /\ \A n \in Revisions : n \in Int /\ n >= 0 /\ n # Absent
      /\ \A v \in Values : v \in Int
      /\ \A p \in Leaves : store[p] \in Int /\ store[p] \in Values
      /\ \A p \in DOMAIN held[t] : held[t][p].value \in Values /\ held[t][p].revision \in Revisions
      /\ \A p, v, n : InHand(p, v, n) => n \in Revisions /\ v \in Values /\ (v = n \/ v = Absent)
      /\ \A p, v, n : Carried(p, v, n) => n \in Revisions /\ v \in Values
      /\ Absent = -1
  BY <1>0, NumberFacts, CarriedTyped, InHandAtMostRevision
<1>7. Sound
  <2>1. ASSUME NEW u \in Threads, phase[u] = "dispatch", NEW p \in DOMAIN held[u] \intersect Watched
        PROVE  ~Behind(held[u][p].revision)
    <3>1. held[u][p].revision \in Int
      BY <1>0, <2>1, NumberFacts
    <3>2. CASE u # t
      <4>1. held'[u] = held[u] /\ phase'[u] = "dispatch"
        BY <1>1, <2>1, <3>2
      <4>2. p \in DOMAIN held'[u] \intersect Watched'
        BY <4>1, <2>1, <1>2
      <4>3. held[u][p].revision >= known' /\ (held[u][p].revision = known' => buffer' # <<>>)
        BY <1>2, <3>1, <4>1, <4>2 DEF Sound, InOrder, Behind
      <4>4. ASSUME held[u][p].revision = known, buffer = <<>> PROVE FALSE
        <5>1. known' = known /\ buffer' # <<>>
          BY <1>2, <3>1, <4>3, <4>4
        <5>2. PICK q \in DOMAIN held[t] : q \in ps
          BY <1>2, <4>4, <5>1
        <5>3. held[t][q].revision \in Int /\ held[t][q].revision > known /\ held[t][q].revision <= known'
          BY <1>2, <1>5, <1>6, <4>4, <5>2
        <5> QED
          BY <1>2, <5>1, <5>3
      <4> QED
        BY <1>2, <3>1, <4>3, <4>4 DEF Behind
    <3>3. CASE u = t
      <4>1. held[t][p].revision >= known /\ (held[t][p].revision = known => buffer # <<>>)
        BY <1>5, <2>1, <3>3 DEF Joined
      <4> QED
        BY <1>2, <3>1, <3>3, <4>1 DEF Behind
    <3> QED
      BY <3>2, <3>3
  <2> QED
    BY <2>1, <1>3, <1>4 DEF Sound, InOrder
<1>8. ASSUME NEW p \in Watched, NEW v, NEW n, Pending(p, v, n)
      PROVE  Pending(p, v, n)'
  <2>1. phase[t] = "dispatch" => p \in ps
    BY <1>8 DEF Joined
  <2> QED
    BY <1>1, <1>2, <1>8, <2>1 DEF Pending
<1>9. ASSUME NEW p \in Leaves \ pruned, p \in DOMAIN held[t] \intersect ps,
             NEW v, NEW r, v = held[t][p].value, r = held[t][p].revision
      PROVE  /\ v = Absent \/ v <= r
             /\ v = store[p] \/ \E m \in Revisions : m > r /\ InHand(p, store[p], m)
  <2>1. v = Absent \/ v <= r
    <3>1. CASE phase[t] = "dispatch"
      <4>1. InHand(p, v, r)
        BY <1>9, <3>1 DEF InHand
      <4> QED
        BY <1>6, <4>1
    <3>2. CASE phase[t] = "replay"
      BY <1>0, <1>9, <3>2 DEF SnapshotOK, Snapshot, Joined
    <3> QED
      BY <3>1, <3>2 DEF Joined
  <2> QED
    BY <1>5, <1>6, <1>9, <2>1
<1>10. ASSUME NEW p \in Leaves \ pruned' PROVE LeafOK(p)'
  <2>0. /\ LeafOK(p) /\ p \in Leaves \ pruned /\ store[p] \in Int /\ store[p] \in Values
        /\ p \in Paths
    BY <1>3, <1>6, <1>7, <1>10 DEF Inv, Paths
  <2>00. PICK w \in Values : w = store[p]
    BY <2>0
  <2>1. FreshIsTrue(p)'
    <3>1. ASSUME w # Absent, NEW v \in Values, NEW n \in Revisions, Carried(p, v, n)', n >= w
          PROVE  v = w
      <4>1. CASE Carried(p, v, n)
        BY <2>0, <2>00, <3>1, <4>1 DEF LeafOK, FreshIsTrue
      <4>2. CASE /\ p \in DOMAIN held[t] /\ p \in ps
                 /\ held[t][p].value = v /\ held[t][p].revision = n
        <5>1. v = w \/ \E m \in Revisions : m > n /\ InHand(p, w, m)
          BY <1>9, <2>0, <2>00, <4>2
        <5>2. \A m \in Revisions : InHand(p, w, m) => m = w
          BY <1>6, <3>1
        <5> QED
          BY <1>6, <3>1, <5>1, <5>2
      <4> QED
        BY <3>1, <4>1, <4>2, <1>2
    <3> QED
      BY <3>1, <2>00, <1>3 DEF FreshIsTrue
  <2>2. Honest(p)'
    BY <2>0, <1>3 DEF LeafOK, Honest
  <2>3. Reaching(p)'
    <3> SUFFICES ASSUME w # Absent, last < w,
                        \/ cache[p] # Absent
                        \/ \E v \in Values, n \in Revisions : Carried(p, v, n)' /\ n < w
                 PROVE  Pending(p, w, w)' \/ Lost(w)'
      BY <1>3, <2>00 DEF Reaching
    <3>1. CASE \/ cache[p] # Absent
               \/ \E v \in Values, n \in Revisions : Carried(p, v, n) /\ n < w
      <4>1. p \in Watched
        BY <1>0, <2>0, <3>1 DEF Unwatched
      <4>2. Pending(p, w, w) \/ Lost(w)
        BY <2>0, <2>00, <3>1 DEF LeafOK, Reaching
      <4> QED
        BY <1>2, <1>8, <4>1, <4>2
    <3>2. ASSUME NEW v \in Values, NEW n \in Revisions, n < w,
                 /\ p \in DOMAIN held[t] /\ p \in ps
                 /\ held[t][p].value = v /\ held[t][p].revision = n
          PROVE  Pending(p, w, w)'
      <4>1. PICK m \in Revisions : m > n /\ InHand(p, w, m)
        <5>1. (v = Absent \/ v <= n) /\ (v = w \/ \E m \in Revisions : m > n /\ InHand(p, w, m))
          BY <1>9, <2>0, <2>00, <3>2
        <5> QED
          BY <1>6, <3>2, <5>1
      <4>2. Pending(p, w, w) /\ p \in Watched
        BY <1>5, <1>6, <3>2, <4>1 DEF Pending
      <4> QED
        BY <1>8, <4>2
    <3> QED
      BY <1>2, <3>1, <3>2
  <2>4. Arriving(p)'
    <3> SUFFICES ASSUME p \in Watched, w # Absent, cache[p] = Absent
                 PROVE  \/ \E n \in Revisions : n >= w /\ (Pending(p, w, n)' \/ Lost(n)')
                        \/ Awaiting(p)'
      BY <1>2, <1>3, <2>00 DEF Arriving
    <3>1. CASE \E n \in Revisions : n >= w /\ (Pending(p, w, n) \/ Lost(n))
      BY <1>2, <1>8, <3>1
    <3>2. CASE Awaiting(p) /\ t # Commands
      BY <3>2, <1>1, <1>3 DEF Awaiting, Snapshot
    <3>3. CASE Awaiting(p) /\ t = Commands
      <4>1. p \in DOMAIN held[t] \intersect ps
        BY <3>3, <2>0 DEF Awaiting, Snapshot, Joined
      <4>2. PICK v \in Values, r \in Revisions : v = held[t][p].value /\ r = held[t][p].revision
        BY <4>1, <1>6
      <4>3. (v = Absent \/ v <= r) /\ (v = w \/ \E m \in Revisions : m > r /\ InHand(p, w, m))
        BY <1>9, <2>0, <2>00, <4>1, <4>2
      <4>4. CASE v = w
        <5>0. /\ p \in DOMAIN held[t] /\ p \in ps
              /\ held[t][p].value = w /\ held[t][p].revision = r
          BY <4>1, <4>2, <4>4
        <5>1. Carried(p, w, r)'
          BY <5>0, <1>2
        <5>2. Pending(p, w, r)'
          BY <5>1 DEF Pending
        <5> QED
          BY <5>2, <4>3, <4>4
      <4>5. ASSUME NEW m \in Revisions, InHand(p, w, m) PROVE m >= w /\ Pending(p, w, m)'
        BY <1>6, <1>8, <4>5 DEF Pending
      <4> QED
        BY <4>3, <4>4, <4>5
    <3> QED
      BY <3>1, <3>2, <3>3, <2>0, <2>00 DEF LeafOK, Arriving
  <2>5. Vanishing(p)'
    <3> SUFFICES ASSUME w = Absent, store[p] = Absent PROVE Vanishing(p)'
      BY <1>3, <2>00 DEF Vanishing
    <3>1. ASSUME NEW v \in Revisions, NEW m \in Revisions, Carried(p, v, m)'
          PROVE  \E n \in Revisions : n > m /\ (Pending(p, Absent, n)' \/ Lost(n)')
      <4>1. CASE Carried(p, v, m)
        <5>1. PICK n \in Revisions : n > m /\ (Pending(p, Absent, n) \/ Lost(n))
          BY <2>0, <3>1, <4>1 DEF LeafOK, Vanishing
        <5>2. p \in Watched
          BY <1>0, <1>6, <2>0, <4>1 DEF Unwatched
        <5>3. Pending(p, Absent, n)' \/ Lost(n)'
          BY <5>1, <5>2, <1>2, <1>8
        <5> QED
          BY <5>1, <5>3
      <4>2. CASE /\ p \in DOMAIN held[t] /\ p \in ps
                 /\ held[t][p].value = v /\ held[t][p].revision = m
        <5>1. PICK n \in Revisions : n > m /\ InHand(p, Absent, n)
          BY <1>6, <1>9, <2>0, <3>1, <4>2
        <5>2. Pending(p, Absent, n)'
          BY <1>5, <1>8, <4>2, <5>1 DEF Pending
        <5> QED
          BY <5>1, <5>2
      <4> QED
        BY <1>2, <3>1, <4>1, <4>2
    <3>2. ASSUME cache[p] # Absent
          PROVE  \E n \in Revisions : n > last /\ (Pending(p, Absent, n)' \/ Lost(n)')
      <4>1. PICK n \in Revisions : n > last /\ (Pending(p, Absent, n) \/ Lost(n))
        BY <2>0, <3>2 DEF LeafOK, Vanishing
      <4>2. p \in Watched
        BY <3>2, <2>0, <1>0 DEF Unwatched
      <4>3. Pending(p, Absent, n)' \/ Lost(n)'
        BY <4>1, <4>2, <1>2, <1>8
      <4> QED
        BY <4>1, <4>3
    <3> QED
      BY <3>1, <3>2, <1>3 DEF Vanishing
  <2> QED
    BY <2>1, <2>2, <2>3, <2>4, <2>5 DEF LeafOK
<1> QED
  BY <1>10

-----------------------------------------------------------------------------
(* Serving the subscriber.                                                 *)

\* The message processor serves the subscriber and nothing is on the wire for
\* it; what it will come to watch it is already getting.
Served ==
    /\ UNCHANGED <<store, revision, buffer, queue, batch, cache, last, noticed, order, losses, pruned>>
    /\ \A u \in Threads : /\ phase'[u] = "dispatch" <=> phase[u] = "dispatch"
                          /\ phase[u] = "dispatch" => held'[u] = held[u]
    /\ Watched \subseteq Watched'
    /\ \A p \in Leaves :
          p \in Watched' /\ store[p] # Absent /\ (p \notin Watched \/ Awaiting(p)) => Awaiting(p)'

\* Serving the subscriber keeps the invariant: a leaf it newly watches is
\* awaited.
LEMMA ServedStep ==
  ASSUME DeliveryAssumption, Inv, TypeOK', Served, PhaseOK', SnapshotOK'
  PROVE  Inv'
<1>0. TypeOK /\ Bounded /\ Unwatched /\ Undispatched
  BY DEF Inv
<1>1. UNCHANGED <<store, revision, buffer, queue, batch, cache, last, noticed, known, late, baseLost, refused, pruned>>
  BY DEF Served, order, losses
<1>2. /\ InFlight' = InFlight
      /\ \A p, v, n : Carried(p, v, n)' <=> Carried(p, v, n)
      /\ \A n : Lost(n)' <=> Lost(n)
  BY <1>1, WireKept
<1>3. \A p, v, n : InHand(p, v, n)' <=> InHand(p, v, n)
  BY DEF Served, InHand
<1>4. \A p, v, n : Pending(p, v, n)' <=> Pending(p, v, n)
  BY <1>2, <1>3 DEF Pending
<1>5. Bounded'
  BY <1>0, <1>1, <1>2 DEF Bounded, Served
<1>6. Unwatched'
  BY <1>0, <1>1, <1>2 DEF Unwatched, Served
<1>7. Undispatched'
  BY <1>0, <1>1, <1>3 DEF Undispatched
<1>8. ~late' => Sorted'
  BY <1>1, SortedKept DEF Inv
<1>9. ASSUME Sound', NEW p \in Leaves \ pruned' PROVE LeafOK(p)'
  <2>1. Sound
    BY <1>1, <1>9 DEF Sound, InOrder, Behind, Served
  <2>2. LeafOK(p)
    BY <1>1, <1>9, <2>1 DEF Inv
  <2>3. FreshIsTrue(p)' /\ Honest(p)' /\ Reaching(p)'
    BY <1>1, <1>2, <1>4, <2>2 DEF LeafOK, FreshIsTrue, Honest, Reaching
  <2>4. Arriving(p)'
    BY <1>1, <1>2, <1>4, <2>2 DEF LeafOK, Arriving, Served
  <2>5. Vanishing(p)'
    BY <1>1, <1>2, <1>4, <2>2 DEF LeafOK, Vanishing
  <2> QED
    BY <2>3, <2>4, <2>5 DEF LeafOK
<1> QED
  BY <1>5, <1>6, <1>7, <1>8, <1>9 DEF Inv

\* A new subscription awaits all it matches.
LEMMA SubscribeStep ==
  ASSUME DeliveryAssumption, Inv, TypeOK', NEW s \in Patterns, Subscribe(s)
  PROVE  Inv'
<1>0. TypeOK /\ PhaseOK /\ SnapshotOK /\ Commands \in Threads
  BY DEF Inv, DeliveryAssumption
<1>1. /\ phase[Commands] = "idle" /\ phase'[Commands] = "pairs" /\ held' = held
      /\ \A u \in Threads \ {Commands} : phase'[u] = phase[u]
      /\ subs' = subs \union {s} /\ pattern' = s
  BY <1>0 DEF Subscribe, TypeOK
<1>2. Watched' = Watched \union Covers[s]
  BY <1>1 DEF Watched
<1>3. PhaseOK'
  BY <1>0, <1>1 DEF PhaseOK, Snapshot
<1>4. SnapshotOK'
  BY <1>1 DEF SnapshotOK, Snapshot
<1>5. Served
  <2>1. UNCHANGED <<store, revision, buffer, queue, batch, cache, last, noticed, order, losses, pruned>>
    BY DEF Subscribe, client
  <2>2. ~Snapshot /\ phase[Commands] # "pairs"
    BY <1>1 DEF Snapshot
  <2> QED
    BY <1>1, <1>2, <2>1, <2>2 DEF Served, Awaiting
<1> QED
  BY <1>3, <1>4, <1>5, ServedStep

\* Reading the snapshot takes every leaf that is there.
LEMMA ReplayPairsStep ==
  ASSUME DeliveryAssumption, Inv, TypeOK', ReplayPairs
  PROVE  Inv'
<1>0. TypeOK /\ PhaseOK /\ SnapshotOK /\ Bounded /\ Commands \in Threads
  BY DEF Inv, DeliveryAssumption
<1>1. /\ phase[Commands] = "pairs" /\ phase'[Commands] = "revision"
      /\ \A u \in Threads \ {Commands} : phase'[u] = phase[u] /\ held'[u] = held[u]
      /\ subs' = subs /\ Watched' = Watched
      /\ held'[Commands] = [p \in Present(pattern) |-> [value |-> store[p], revision |-> 0]]
  BY <1>0 DEF ReplayPairs, TypeOK, Watched
<1>2. /\ DOMAIN held'[Commands] = Present(pattern)
      /\ \A p \in Present(pattern) : held'[Commands][p].value = store[p]
  BY <1>1
<1>3. /\ Present(pattern) \subseteq Watched \intersect Leaves
      /\ \A p \in Leaves : p \in Present(pattern) <=> p \in Covers[pattern] /\ store[p] # Absent
  BY <1>0, <1>1 DEF Present, PhaseOK, Watched
<1>4. PhaseOK'
  BY <1>0, <1>1, <1>2, <1>3 DEF PhaseOK, Snapshot
<1>5. UNCHANGED <<store, revision, buffer, queue, batch, cache, last, noticed, order, losses, pruned>>
  BY DEF ReplayPairs, client
<1>6. SnapshotOK'
  <2>1. \A p \in Leaves : store[p] <= revision
    BY <1>0 DEF Bounded
  <2> QED
    BY <1>1, <1>2, <1>3, <1>5, <2>1 DEF SnapshotOK
<1>7. Served
  <2>1. ~Snapshot /\ Snapshot'
    BY <1>1 DEF Snapshot
  <2> QED
    BY <1>1, <1>2, <1>3, <1>5, <2>1 DEF Served, Awaiting
<1> QED
  BY <1>4, <1>6, <1>7, ServedStep

\* Stamping the snapshot: it is no younger than its stamp.
LEMMA ReplayRevisionStep ==
  ASSUME DeliveryAssumption, Inv, TypeOK', ReplayRevision
  PROVE  Inv'
<1>0. TypeOK /\ PhaseOK /\ SnapshotOK /\ Bounded /\ Commands \in Threads
  BY DEF Inv, DeliveryAssumption
<1>1. /\ phase[Commands] = "revision" /\ phase'[Commands] = "replay"
      /\ \A u \in Threads \ {Commands} : phase'[u] = phase[u] /\ held'[u] = held[u]
      /\ subs' = subs /\ Watched' = Watched
      /\ held'[Commands] = [p \in DOMAIN held[Commands] |->
                              [value |-> held[Commands][p].value, revision |-> revision]]
  BY <1>0 DEF ReplayRevision, TypeOK, Watched
<1>2. /\ DOMAIN held'[Commands] = DOMAIN held[Commands]
      /\ \A p \in DOMAIN held[Commands] : /\ held'[Commands][p].value = held[Commands][p].value
                                          /\ held'[Commands][p].revision = revision
  BY <1>1
<1>3. Snapshot /\ Snapshot'
  BY <1>1 DEF Snapshot
<1>4. PhaseOK'
  BY <1>0, <1>1, <1>2, <1>3 DEF PhaseOK
<1>5. UNCHANGED <<store, revision, buffer, queue, batch, cache, last, noticed, order, losses, pruned>>
  BY DEF ReplayRevision, client
<1>6. SnapshotOK'
  <2>1. \A p \in DOMAIN held[Commands] :
          LET v == held[Commands][p].value
          IN  v # Absent /\ v <= revision
    BY <1>0, <1>1, <1>3 DEF SnapshotOK
  <2>2. revision <= revision
    BY <1>0, NumberFacts
  <2> QED
    BY <1>1, <1>2, <1>5, <2>1, <2>2 DEF SnapshotOK
<1>7. Served
  BY <1>1, <1>2, <1>3, <1>5 DEF Served, Awaiting
<1> QED
  BY <1>4, <1>6, <1>7, ServedStep

\* Answers and timeouts of a resync change nothing that matters here.
LEMMA QuietStep ==
  ASSUME DeliveryAssumption, Inv, TypeOK', Answer \/ ResyncTimeout \/ UNCHANGED vars
  PROVE  Inv'
<1>1. /\ UNCHANGED <<store, revision, subs, phase, held, pattern>>
      /\ UNCHANGED <<buffer, queue, batch, cache, last, noticed, order, losses, pruned>>
  BY DEF Answer, ResyncTimeout, vars, server, client, order
<1>2. Watched' = Watched
  BY <1>1 DEF Watched
<1>3. \A p : Awaiting(p)' <=> Awaiting(p)
  BY <1>1 DEF Awaiting, Snapshot
<1>4. Served
  BY <1>1, <1>2, <1>3 DEF Served
<1>5. PhaseOK'
  BY <1>1, <1>2 DEF PhaseOK, Snapshot, Inv
<1>6. SnapshotOK'
  BY <1>1 DEF SnapshotOK, Snapshot, Inv
<1> QED
  BY <1>4, <1>5, <1>6, ServedStep

-----------------------------------------------------------------------------
(* The flusher and the queue.                                              *)

\* An envelope under way is in the batch or in the queue.
LEMMA QueuedInFlight ==
  /\ \A i \in DOMAIN batch : batch[i] \in InFlight
  /\ \A j \in DOMAIN queue : queue[j] \in InFlight
  /\ \A e \in InFlight : \/ \E i \in DOMAIN batch : e = batch[i]
                         \/ \E j \in DOMAIN queue : e = queue[j]
BY DEF InFlight

\* The least and the greatest revision are the tightest bounds.
LEMMA RevisionsInHolds ==
  ASSUME NEW ds, NEW lo \in RevisionsIn(ds), NEW hi \in RevisionsIn(ds),
         \A n \in RevisionsIn(ds) : lo <= n /\ n <= hi
  PROVE  /\ Within(ds, lo, hi)
         /\ \A a, b : Within(ds, a, b) => a <= lo /\ hi <= b
<1>1. \A i \in DOMAIN ds : \A p \in DOMAIN ds[i] : ds[i][p].revision \in RevisionsIn(ds)
  BY DEF RevisionsIn, RevisionsOf
<1>2. \A n \in RevisionsIn(ds) : \E i \in DOMAIN ds : \E p \in DOMAIN ds[i] : n = ds[i][p].revision
  BY DEF RevisionsIn, RevisionsOf
<1>3. Within(ds, lo, hi)
  BY <1>1 DEF Within
<1>4. \A a, b : Within(ds, a, b) => a <= lo /\ hi <= b
  BY <1>2 DEF Within
<1> QED
  BY <1>3, <1>4

\* The queue after a put: the oldest envelope is gone (o = 1) or not (o = 0),
\* the rest moved up and the new one is last.
PutShape(e, o) ==
    /\ o = (IF Len(queue) < QueueCap THEN 0 ELSE 1)
    /\ Len(queue) \in Nat /\ DOMAIN queue = 1 .. Len(queue) /\ o <= Len(queue)
    /\ DOMAIN queue' = 1 .. Len(queue) - o + 1
    /\ \A j \in 1 .. Len(queue) - o : queue'[j] = queue[j + o]
    /\ queue'[Len(queue) - o + 1] = e
    /\ refused' = refused
    /\ (o = 1 => baseLost' = (baseLost \/ (last = NoBase /\ batch = <<>>)))
    /\ (o = 0 => baseLost' = baseLost)

\* A put the drop_oldest queue accepts has that shape.
LEMMA AcceptHasShape ==
  ASSUME DeliveryAssumption, TypeOK, NEW e \in Envelope, Accept(e)
  PROVE  \E o \in {0, 1} : PutShape(e, o)
<1>1. queue \in Seq(Envelope) /\ Len(queue) <= QueueCap /\ QueueCap \in Nat \ {0} /\ baseLost \in BOOLEAN
  BY DEF TypeOK, DeliveryAssumption
<1>2. /\ queue' = Append(IF Len(queue) < QueueCap THEN queue ELSE Tail(queue), e)
      /\ baseLost' = (baseLost \/ (Len(queue) = QueueCap /\ last = NoBase /\ batch = <<>>))
  BY DEF Accept
<1>5. refused' = refused
  BY DEF Accept
<1>3. CASE Len(queue) < QueueCap
  <2>1. queue' = Append(queue, e) /\ Len(queue) # QueueCap
    BY <1>1, <1>2, <1>3
  <2>2. /\ Len(queue) \in Nat /\ DOMAIN queue = 1 .. Len(queue) /\ DOMAIN queue' = 1 .. Len(queue) + 1
        /\ \A j \in 1 .. Len(queue) : queue'[j] = queue[j]
        /\ queue'[Len(queue) + 1] = e
    BY <1>1, <2>1
  <2>3. baseLost' = baseLost
    BY <1>1, <1>2, <2>1
  <2>4. PutShape(e, 0)
    BY <1>3, <1>5, <2>2, <2>3 DEF PutShape
  <2> QED
    BY <2>4
<1>4. CASE ~(Len(queue) < QueueCap)
  <2>1. queue' = Append(Tail(queue), e) /\ Len(queue) = QueueCap /\ queue # <<>>
    BY <1>1, <1>2, <1>4
  <2>2. /\ Tail(queue) \in Seq(Envelope) /\ Len(Tail(queue)) = Len(queue) - 1
        /\ \A j \in 1 .. Len(queue) - 1 : Tail(queue)[j] = queue[j + 1]
    BY <1>1, <2>1
  <2>3. /\ Len(queue) \in Nat /\ DOMAIN queue = 1 .. Len(queue) /\ 1 <= Len(queue)
    BY <1>1, <2>1
  <2>4. /\ DOMAIN queue' = 1 .. Len(queue) - 1 + 1
        /\ \A j \in 1 .. Len(queue) - 1 : queue'[j] = queue[j + 1]
        /\ queue'[Len(queue) - 1 + 1] = e
    <3> DEFINE tl == Tail(queue)
    <3> HIDE DEF tl
    <3>1. queue' = Append(tl, e) /\ tl \in Seq(Envelope) /\ Len(tl) = Len(queue) - 1
          /\ \A j \in 1 .. Len(queue) - 1 : tl[j] = queue[j + 1]
      BY <2>1, <2>2 DEF tl
    <3> QED
      BY <3>1, <2>3
  <2>5. baseLost' = (baseLost \/ (last = NoBase /\ batch = <<>>))
    BY <1>2, <2>1
  <2>6. PutShape(e, 1)
    BY <1>4, <1>5, <2>3, <2>4, <2>5 DEF PutShape
  <2> QED
    BY <2>6
<1> QED
  BY <1>3, <1>4

\* The buffer goes out whole as envelope e, which has its tightest bounds.
Flushed(e) ==
    /\ e.deltas = buffer /\ buffer' = <<>>
    /\ UNCHANGED <<server, client, tickets, order, pruned>>
    /\ Within(buffer, e.first, e.revision)
    /\ \A a, b : Within(buffer, a, b) => a <= e.first /\ e.revision <= b
    /\ e.first <= e.revision

\* Every flush does that, and its envelope is accepted or refused.
LEMMA FlushFacts ==
  ASSUME DeliveryAssumption, Inv, Flush
  PROVE  \E e \in Envelope : Flushed(e) /\ (Refuse(e) \/ \E o \in {0, 1} : PutShape(e, o))
<1>1. PICK lo, hi \in RevisionsIn(buffer) : /\ \A n \in RevisionsIn(buffer) : lo <= n /\ n <= hi
                                            /\ Put([deltas |-> buffer, first |-> lo, revision |-> hi])
  BY DEF Flush
<1> DEFINE e == [deltas |-> buffer, first |-> lo, revision |-> hi]
<1>2. e \in Envelope
  BY RevisionsInFacts DEF TypeOK, Envelope, Inv
<1>3. Refuse(e) \/ \E o \in {0, 1} : PutShape(e, o)
  <2>1. (Refuse(e) \/ Accept(e)) /\ TypeOK
    BY <1>1 DEF Inv, Put
  <2> HIDE DEF e
  <2> QED
    BY <1>2, <2>1, AcceptHasShape
<1>4. Within(buffer, lo, hi) /\ \A a, b : Within(buffer, a, b) => a <= lo /\ hi <= b
  BY <1>1, RevisionsInHolds
<1>5. e.deltas = buffer /\ e.first = lo /\ e.revision = hi /\ lo <= hi
  BY <1>1
<1>6. buffer' = <<>> /\ UNCHANGED <<server, client, tickets, order, pruned>>
  BY DEF Flush
<1> HIDE DEF e
<1>7. Flushed(e)
  BY <1>4, <1>5, <1>6 DEF Flushed
<1> QED
  BY <1>2, <1>3, <1>7

\* Envelopes move on towards the subscriber; one that is lost is lost
\* noticeably.
Forwarded ==
    /\ UNCHANGED <<store, revision, subs, phase, held, pattern, cache, last, noticed, order, pruned>>
    /\ \A p, v, n : Carried(p, v, n)' => Carried(p, v, n)
    /\ baseLost => baseLost'
    /\ buffer' = buffer \/ buffer' = <<>>
    /\ Sound' =>
          /\ \A p, v, n : Carried(p, v, n) => Carried(p, v, n)' \/ Lost(n)'
          /\ \A n \in Revisions : Lost(n) => Lost(n)'

\* Moving envelopes keeps the invariant if what is lost is lost noticeably.
LEMMA ForwardedStep ==
  ASSUME DeliveryAssumption, Inv, TypeOK', Forwarded, Bounded', ~late' => Sorted'
  PROVE  Inv'
<1>0. TypeOK /\ PhaseOK /\ Unwatched /\ Undispatched /\ SnapshotOK
  BY DEF Inv
<1>1. UNCHANGED <<store, revision, subs, phase, held, pattern, cache, last, noticed, known, late, pruned>>
  BY DEF Forwarded, order
<1>2. \A p, v, n : InHand(p, v, n)' <=> InHand(p, v, n)
  BY <1>1 DEF InHand
<1>3. Watched' = Watched /\ (Snapshot' <=> Snapshot) /\ \A p : Awaiting(p)' <=> Awaiting(p)
  BY <1>1 DEF Watched, Snapshot, Awaiting
<1>4. PhaseOK'
  BY <1>0, <1>1, <1>3 DEF PhaseOK
<1>5. Unwatched'
  BY <1>0, <1>1, <1>3 DEF Unwatched, Forwarded
<1>6. Undispatched'
  BY <1>0, <1>1, <1>2 DEF Undispatched
<1>7. SnapshotOK'
  BY <1>0, <1>1, <1>2, <1>3 DEF SnapshotOK
<1>8. ASSUME Sound', NEW p \in Leaves \ pruned' PROVE LeafOK(p)'
  <2>1. Sound
    BY <1>1, <1>3, <1>8 DEF Sound, InOrder, Behind, Forwarded
  <2>2. LeafOK(p) /\ store[p] \in Values /\ (store[p] # Absent => store[p] \in Revisions)
    BY <1>0, <1>1, <1>8, <2>1, NumberFacts DEF Inv
  <2>3. /\ \A q, v, n : Carried(q, v, n) => Carried(q, v, n)' \/ Lost(n)'
        /\ \A n \in Revisions : Lost(n) => Lost(n)'
        /\ \A q, v, n : Carried(q, v, n)' => Carried(q, v, n)
    BY <1>8 DEF Forwarded
  <2>4. /\ \A q, v, n : Pending(q, v, n) => Pending(q, v, n)' \/ Lost(n)'
        /\ \A q, v, n : Pending(q, v, n)' => Pending(q, v, n)
    BY <1>2, <2>3 DEF Pending
  <2>5. FreshIsTrue(p)' /\ Honest(p)'
    BY <1>1, <2>2, <2>3 DEF LeafOK, FreshIsTrue, Honest
  <2>6. Reaching(p)'
    <3> SUFFICES ASSUME store[p] # Absent, last < store[p],
                        \/ cache[p] # Absent
                        \/ \E v \in Values, n \in Revisions : Carried(p, v, n)' /\ n < store[p]
                 PROVE  Pending(p, store[p], store[p])' \/ Lost(store[p])'
      BY <1>1 DEF Reaching
    <3>1. Pending(p, store[p], store[p]) \/ Lost(store[p])
      BY <2>2, <2>3 DEF LeafOK, Reaching
    <3>2. PICK w \in Revisions : w = store[p]
      BY <2>2
    <3>3. Pending(p, w, w)' \/ Lost(w)'
      BY <2>3, <2>4, <3>1, <3>2
    <3> QED
      BY <1>1, <3>2, <3>3
  <2>7. Arriving(p)'
    <3> SUFFICES ASSUME p \in Watched, store[p] # Absent, cache[p] = Absent, ~Awaiting(p)
                 PROVE  \E n \in Revisions : n >= store[p] /\ (Pending(p, store[p], n)' \/ Lost(n)')
      BY <1>1, <1>3 DEF Arriving
    <3>1. PICK n \in Revisions : n >= store[p] /\ (Pending(p, store[p], n) \/ Lost(n))
      BY <2>2 DEF LeafOK, Arriving
    <3>2. PICK w \in Revisions : w = store[p]
      BY <2>2
    <3>3. Pending(p, w, n)' \/ Lost(n)'
      BY <2>3, <2>4, <3>1, <3>2
    <3> QED
      BY <1>1, <3>1, <3>2, <3>3
  <2>8. Vanishing(p)'
    BY <1>1, <1>3, <2>2, <2>3, <2>4 DEF LeafOK, Vanishing
  <2> QED
    BY <2>5, <2>6, <2>7, <2>8 DEF LeafOK
<1> QED
  BY <1>4, <1>5, <1>6, <1>7, <1>8 DEF Inv

\* Indices of the queue before and after the put.
LEMMA Shifted ==
  ASSUME NEW L \in Nat, NEW o \in {0, 1}, o <= L
  PROVE  /\ \A j \in 1 .. L - o : j \in Int /\ j + o \in 1 .. L /\ j + o > o
         /\ \A i, j \in 1 .. L - o : i < j => i + o < j + o
         /\ \A i, j \in 1 .. L - o + 1 : i < j => i \in 1 .. L - o
         /\ \A j \in 1 .. L - o + 1 : j \in 1 .. L - o \/ j = L - o + 1
<1>1. CASE o = 0
  BY <1>1
<1>2. CASE o = 1
  BY <1>2
<1> QED
  BY <1>1, <1>2

\* An accepted envelope takes the buffer along; the evicted one leaves a gap
\* that younger envelopes show.
LEMMA FlushAccepted ==
  ASSUME DeliveryAssumption, Inv, TypeOK',
         NEW e \in Envelope, NEW o \in {0, 1}, Flushed(e), PutShape(e, o)
  PROVE  Inv'
<1>0. TypeOK /\ Bounded
  BY DEF Inv
<1>1. /\ e.deltas = buffer /\ buffer' = <<>>
      /\ UNCHANGED <<server, client, tickets, order, pruned>>
      /\ Within(buffer, e.first, e.revision)
      /\ \A a, b : Within(buffer, a, b) => a <= e.first /\ e.revision <= b
      /\ e.first <= e.revision
      /\ refused' = refused
  BY DEF Flushed, PutShape
<1>2. UNCHANGED <<store, revision, subs, phase, held, pattern, batch, cache, last, blocked, noticed, order, known, late, pruned>>
  BY <1>1 DEF server, client, order
<1>3. /\ Len(queue) \in Nat /\ DOMAIN queue = 1 .. Len(queue) /\ o <= Len(queue)
      /\ DOMAIN queue' = 1 .. Len(queue) - o + 1
      /\ \A j \in 1 .. Len(queue) - o : queue'[j] = queue[j + o]
      /\ queue'[Len(queue) - o + 1] = e
  BY DEF PutShape
<1>4. ASSUME NEW f \in InFlight'
      PROVE  \/ \E i \in DOMAIN batch : f = batch[i]
             \/ \E j \in DOMAIN queue : j > o /\ f = queue[j]
             \/ f = e
  <2>1. \/ \E i \in DOMAIN batch : f = batch[i]
        \/ \E j \in DOMAIN queue' : f = queue'[j]
    BY <1>2, <1>4 DEF InFlight
  <2>2. ASSUME NEW j \in DOMAIN queue', f = queue'[j]
        PROVE  f = e \/ \E k \in DOMAIN queue : k > o /\ f = queue[k]
    <3>1. CASE j \in 1 .. Len(queue) - o
      <4>1. j + o \in DOMAIN queue /\ j + o > o
        BY <1>3, <3>1, Shifted
      <4>2. f = queue[j + o]
        BY <1>3, <2>2, <3>1
      <4> QED
        BY <4>1, <4>2
    <3>2. CASE j = Len(queue) - o + 1
      BY <1>3, <2>2, <3>2
    <3> QED
      BY <1>3, <2>2, <3>1, <3>2, Shifted
  <2> QED
    BY <2>1, <2>2
<1>5. /\ e \in InFlight' /\ \A i \in DOMAIN batch : batch[i] \in InFlight'
      /\ \A j \in DOMAIN queue : j > o => queue[j] \in InFlight'
  <2>1. e \in InFlight'
    <3>1. Len(queue) - o + 1 \in DOMAIN queue'
      BY <1>3
    <3> QED
      BY <1>3, <3>1 DEF InFlight
  <2>2. \A i \in DOMAIN batch : batch[i] \in InFlight'
    BY <1>2 DEF InFlight
  <2>3. ASSUME NEW j \in DOMAIN queue, j > o PROVE queue[j] \in InFlight'
    <3>1. j - o \in 1 .. Len(queue) - o /\ j - o \in DOMAIN queue' /\ (j - o) + o = j
      BY <1>3, <2>3
    <3>2. queue'[j - o] = queue[j]
      BY <1>3, <3>1
    <3> QED
      BY <3>1, <3>2 DEF InFlight
  <2> QED
    BY <2>1, <2>2, <2>3
<1>6. \A f \in InFlight : f \in InFlight' \/ (o = 1 /\ 1 \in DOMAIN queue /\ f = queue[1])
  <2>1. ASSUME NEW j \in DOMAIN queue PROVE queue[j] \in InFlight' \/ (o = 1 /\ j = 1)
    BY <1>3, <1>5
  <2> QED
    BY <1>5, <2>1, QueuedInFlight
<1>7. \A f \in InFlight' : f = e \/ f \in InFlight
  BY <1>4, QueuedInFlight
<1>8. \A p, v, n : Carried(p, v, n)' => Carried(p, v, n)
  <2>1. \A p, v, n : Holds(<<>>, p, v, n) => FALSE
    BY DEF Holds
  <2>2. ASSUME NEW p, NEW v, NEW n, Carried(p, v, n)' PROVE Carried(p, v, n)
    <3>1. Holds(buffer', p, v, n) \/ \E f \in InFlight' : Holds(f.deltas, p, v, n)
      BY <2>2 DEF Carried, Holds
    <3>2. \E f \in InFlight' : Holds(f.deltas, p, v, n)
      BY <1>1, <2>1, <3>1
    <3> QED
      BY <1>1, <1>7, <3>2 DEF Carried
  <2> QED
    BY <2>2
<1>9. \A p, v, n : Carried(p, v, n) =>
         Carried(p, v, n)' \/ (o = 1 /\ 1 \in DOMAIN queue /\ Holds(queue[1].deltas, p, v, n))
  <2>1. ASSUME NEW p, NEW v, NEW n, NEW f \in InFlight', Holds(f.deltas, p, v, n) PROVE Carried(p, v, n)'
    BY <2>1 DEF Carried, Holds
  <2> QED
    BY <1>1, <1>5, <1>6, <2>1 DEF Carried
<1>10. Bounded'
  <2>1. Within(buffer', 0, known')
    BY <1>1 DEF Within
  <2>2. Within(e.deltas, e.first, e.revision) /\ e.first <= e.revision /\ e.revision <= known
    BY <1>0, <1>1 DEF Bounded
  <2> QED
    BY <1>0, <1>1, <1>2, <1>7, <2>1, <2>2 DEF Bounded
<1>11. /\ e.first \in Int /\ e.revision \in Int /\ known \in Int /\ last \in Int /\ refused \in Int /\ NoBase = -1
       /\ \A f \in InFlight : /\ f.first \in Int /\ f.revision \in Int /\ f.first <= f.revision
                              /\ Within(f.deltas, f.first, f.revision)
  <2>1. \A n \in Revisions : n \in Int
    BY <1>0, NumberFacts
  <2> QED
    BY <1>0, <2>1, NumberFacts, InFlightTyped DEF Envelope, Bounded
<1>12. ASSUME ~late
       PROVE  /\ \A f \in InFlight : f.revision < e.first
              /\ last < e.first /\ refused < e.first
  <2>1. Sorted
    BY <1>12 DEF Inv
  <2>2. last + 1 <= e.first /\ refused + 1 <= e.first
    BY <1>1, <2>1 DEF Sorted
  <2>3. \A f \in InFlight : f.revision + 1 <= e.first
    BY <1>1, <2>1 DEF Sorted
  <2> QED
    BY <1>11, <2>2, <2>3
<1>13. ASSUME ~late' PROVE Sorted'
  <2>1. Sorted /\ ~late
    BY <1>2, <1>13 DEF Inv
  <2>2. Ascending(buffer') /\ \A f \in InFlight' : Ascending(f.deltas)
    <3>1. Ascending(buffer')
      BY <1>1 DEF Ascending
    <3> QED
      BY <1>1, <1>7, <2>1, <3>1 DEF Sorted
  <2>3. \A i, j \in DOMAIN batch' : i < j => batch'[i].revision < batch'[j].first
    BY <1>2, <2>1 DEF Sorted
  <2>4. ASSUME NEW i \in DOMAIN queue', NEW j \in DOMAIN queue', i < j
        PROVE  queue'[i].revision < queue'[j].first
    <3>0. i \in 1 .. Len(queue) - o
      BY <1>3, <2>4, Shifted
    <3>1. i \in 1 .. Len(queue) - o /\ i + o \in DOMAIN queue /\ queue'[i] = queue[i + o]
      BY <1>3, <3>0, Shifted
    <3>2. CASE j \in 1 .. Len(queue) - o
      <4>0. i + o < j + o
        BY <1>3, <2>4, <3>0, <3>2, Shifted
      <4>1. j + o \in DOMAIN queue /\ queue'[j] = queue[j + o] /\ i + o < j + o
        BY <1>3, <3>2, <4>0, Shifted
      <4> QED
        BY <2>1, <3>1, <4>1 DEF Sorted
    <3>3. CASE j = Len(queue) - o + 1
      BY <1>3, <1>12, <2>1, <3>1, <3>3, QueuedInFlight
    <3> QED
      BY <1>3, <2>4, <3>2, <3>3, Shifted
  <2>5. ASSUME NEW i \in DOMAIN batch, NEW j \in DOMAIN queue'
        PROVE  batch[i].revision < queue'[j].first
    <3>1. CASE j \in 1 .. Len(queue) - o
      <4>1. j + o \in DOMAIN queue /\ queue'[j] = queue[j + o]
        BY <1>3, <3>1, Shifted
      <4> QED
        BY <2>1, <4>1 DEF Sorted
    <3>2. CASE j = Len(queue) - o + 1
      BY <1>3, <1>12, <2>1, <3>2, QueuedInFlight
    <3> QED
      BY <1>3, <3>1, <3>2
  <2>6. \A f \in InFlight' : last' < f.first /\ Within(buffer', f.revision + 1, known')
    <3>1. \A f \in InFlight' : last < f.first
      BY <1>7, <1>12, <2>1 DEF Sorted
    <3> QED
      BY <1>1, <1>2, <3>1 DEF Within
  <2>7. Within(buffer', last' + 1, known') /\ Within(buffer', refused' + 1, known')
    BY <1>1 DEF Within
  <2> QED
    BY <1>1, <1>2, <2>2, <2>3, <2>4, <2>5, <2>6, <2>7 DEF Sorted
<1>14. ASSUME Sound'
       PROVE  /\ \A p, v, n : Carried(p, v, n) => Carried(p, v, n)' \/ Lost(n)'
              /\ \A n \in Revisions : Lost(n) => Lost(n)'
  <2>0. ~late /\ ~baseLost' /\ Sorted
    BY <1>2, <1>14 DEF Sound, InOrder, Inv
  <2>1. o = 1 => last # NoBase \/ 1 \in DOMAIN batch
    <3>1. o = 1 => last # NoBase \/ batch # <<>>
      BY <2>0 DEF PutShape
    <3>2. batch \in Seq(Envelope)
      BY <1>0 DEF TypeOK
    <3>3. batch # <<>> => 1 \in DOMAIN batch
      BY <3>2
    <3> QED
      BY <3>1, <3>3
  <2>2. ASSUME o = 1, 1 \in DOMAIN queue, NEW p, NEW v, NEW n, n \in Int, Holds(queue[1].deltas, p, v, n)
        PROVE  Lost(n)'
    <3> DEFINE g == queue[1]
    <3>1. /\ g \in InFlight /\ g.first <= n /\ n <= g.revision
          /\ g.first \in Int /\ g.revision \in Int /\ last < g.first
      BY <1>11, <2>0, <2>2, QueuedInFlight, WithinHolds DEF Sorted
    <3>2. \A i \in DOMAIN batch : batch[i].revision < g.first
      BY <2>0, <2>2 DEF Sorted
    <3>3. \A j \in DOMAIN queue : j > o => g.revision < queue[j].first
      BY <2>0, <2>2, <1>3 DEF Sorted
    <3>4. g.revision < e.first
      BY <1>12, <2>0, <3>1
    <3> HIDE DEF g
    <3>5. n > last
      BY <1>11, <2>2, <3>1
    <3>6. ASSUME NEW f \in InFlight' PROVE f.revision < n \/ f.first > n
      <4>1. CASE f = e
        BY <1>11, <2>2, <3>1, <3>4, <4>1
      <4>2. ASSUME NEW i \in DOMAIN batch, f = batch[i] PROVE f.revision < n
        <5>1. f \in InFlight /\ f.revision < g.first
          BY <3>2, <4>2, QueuedInFlight
        <5> QED
          BY <1>11, <2>2, <3>1, <5>1
      <4>3. ASSUME NEW j \in DOMAIN queue, j > o, f = queue[j] PROVE f.first > n
        <5>1. f \in InFlight /\ g.revision < f.first
          BY <3>3, <4>3, QueuedInFlight
        <5> QED
          BY <1>11, <2>2, <3>1, <5>1
      <4> QED
        BY <1>4, <4>1, <4>2, <4>3
    <3>7. \E f \in InFlight' : f.first > n
      BY <1>5, <1>11, <2>2, <3>1, <3>4
    <3>8. last # NoBase \/ \E f \in InFlight' : f.revision < n
      <4>1. ASSUME 1 \in DOMAIN batch PROVE batch[1] \in InFlight' /\ batch[1].revision < n
        <5>1. batch[1] \in InFlight /\ batch[1].revision < g.first
          BY <3>2, <4>1, QueuedInFlight
        <5> QED
          BY <1>5, <1>11, <2>2, <3>1, <4>1, <5>1
      <4> QED
        BY <2>1, <2>2, <4>1
    <3> QED
      BY <1>2, <3>5, <3>6, <3>7, <3>8 DEF Lost
  <2>3. ASSUME NEW n \in Revisions, Lost(n) PROVE Lost(n)'
    <3>0. n \in Int
      BY <1>0, NumberFacts
    <3>1. e.first > n
      <4>1. ASSUME NEW f \in InFlight, f.first > n PROVE e.first > n
        BY <1>11, <1>12, <2>0, <3>0, <4>1
      <4>2. n <= refused => e.first > n
        BY <1>11, <1>12, <2>0, <3>0
      <4> QED
        BY <2>3, <4>1, <4>2 DEF Lost
    <3>2. \A f \in InFlight' : f.revision < n \/ f.first > n
      BY <1>7, <2>3, <3>1 DEF Lost
    <3>3. last # NoBase \/ \E f \in InFlight' : f.revision < n
      <4>1. CASE last # NoBase
        BY <4>1
      <4>2. CASE last = NoBase
        <5>1. PICK f \in InFlight : f.revision < n
          BY <2>3, <4>2 DEF Lost
        <5>2. CASE f \in InFlight'
          BY <5>1, <5>2
        <5>3. CASE o = 1 /\ 1 \in DOMAIN queue /\ f = queue[1]
          <6>1. 1 \in DOMAIN batch
            BY <2>1, <4>2, <5>3
          <6>2. batch[1].revision < f.first /\ batch[1] \in InFlight /\ batch[1] \in InFlight'
            BY <1>5, <2>0, <5>3, <6>1, QueuedInFlight DEF Sorted
          <6>3. batch[1].revision < n
            BY <1>11, <3>0, <5>1, <6>2
          <6> QED
            BY <6>2, <6>3
        <5> QED
          BY <1>6, <5>1, <5>2, <5>3
      <4> QED
        BY <4>1, <4>2
    <3> QED
      BY <1>2, <1>5, <2>3, <3>1, <3>2, <3>3 DEF Lost
  <2>4. ASSUME NEW p, NEW v, NEW n, Carried(p, v, n) PROVE Carried(p, v, n)' \/ Lost(n)'
    <3>1. n \in Int
      <4>1. n \in Revisions
        BY <1>0, <2>4, CarriedTyped
      <4> QED
        BY <1>0, <4>1, NumberFacts
    <3> QED
      BY <1>9, <2>2, <2>4, <3>1
  <2> QED
    BY <2>3, <2>4
<1>15. Forwarded
  <2>1. baseLost => baseLost'
    BY DEF PutShape
  <2> QED
    BY <1>1, <1>2, <1>8, <1>14, <2>1 DEF Forwarded
<1> QED
  BY <1>10, <1>13, <1>15, ForwardedStep

\* A refused envelope leaves a gap that the next one to be sent shows.
LEMMA FlushRefused ==
  ASSUME DeliveryAssumption, Inv, TypeOK', NEW e \in Envelope, Flushed(e), Refuse(e)
  PROVE  Inv'
<1>0. TypeOK /\ Bounded
  BY DEF Inv
<1>1. /\ buffer' = <<>>
      /\ Within(buffer, e.first, e.revision)
      /\ \A a, b : Within(buffer, a, b) => a <= e.first /\ e.revision <= b
      /\ e.first <= e.revision
      /\ queue' = queue /\ refused' = e.revision
      /\ baseLost' = (baseLost \/ (queue = <<>> /\ last = NoBase /\ batch = <<>>))
  BY DEF Flushed, Refuse
<1>2. UNCHANGED <<store, revision, subs, phase, held, pattern, batch, cache, last, noticed, order, known, late, pruned>>
  BY DEF Flushed, server, client, order
<1>3. InFlight' = InFlight
  BY <1>1, <1>2 DEF InFlight
<1>4. \A p, v, n : Holds(<<>>, p, v, n) => FALSE
  BY DEF Holds
<1>5. \A p, v, n : /\ Carried(p, v, n)' => Carried(p, v, n)
                   /\ Carried(p, v, n) => Carried(p, v, n)' \/ Holds(buffer, p, v, n)
  <2> SUFFICES ASSUME NEW p, NEW v, NEW n
               PROVE  /\ Carried(p, v, n)' => Carried(p, v, n)
                      /\ Carried(p, v, n) => Carried(p, v, n)' \/ Holds(buffer, p, v, n)
    OBVIOUS
  <2>1. Carried(p, v, n)' <=> Holds(buffer', p, v, n) \/ \E f \in InFlight : Holds(f.deltas, p, v, n)
    BY <1>3 DEF Carried, Holds
  <2> QED
    BY <1>1, <1>4, <2>1 DEF Carried
<1>6. /\ e.first \in Int /\ e.revision \in Int /\ e.revision <= known
      /\ known \in Int /\ last \in Int /\ refused \in Int /\ NoBase = -1
      /\ \A f \in InFlight : f.first \in Int /\ f.revision \in Int
  <2>1. \A n \in Revisions : n \in Int
    BY <1>0, NumberFacts
  <2> QED
    BY <1>0, <1>1, <2>1, NumberFacts, InFlightTyped DEF Envelope, Bounded
<1>7. Bounded'
  <2>1. Within(buffer', 0, known')
    BY <1>1 DEF Within
  <2> QED
    BY <1>0, <1>1, <1>2, <1>3, <1>6, <2>1 DEF Bounded
<1>8. ASSUME ~late' PROVE Sorted'
  <2>1. Sorted
    BY <1>2, <1>8 DEF Inv
  <2>2. Ascending(buffer') /\ \A a, b : Within(buffer', a, b)
    BY <1>1 DEF Ascending, Within
  <2> QED
    BY <1>1, <1>2, <1>3, <2>1, <2>2 DEF Sorted
<1>9. ASSUME Sound'
      PROVE  /\ \A p, v, n : Holds(buffer, p, v, n) => Lost(n)'
             /\ \A n \in Revisions : Lost(n) => Lost(n)'
  <2>0. Sorted /\ ~baseLost'
    BY <1>2, <1>9 DEF Sound, InOrder, Inv
  <2>1. last # NoBase \/ \E f \in InFlight : TRUE
    <3>1. queue \in Seq(Envelope) /\ batch \in Seq(Envelope)
      BY <1>0 DEF TypeOK
    <3>2. (queue # <<>> => queue[1] \in InFlight) /\ (batch # <<>> => batch[1] \in InFlight)
      BY <3>1 DEF InFlight
    <3> QED
      BY <1>1, <2>0, <3>2
  <2>2. refused + 1 <= e.first
    BY <1>1, <2>0 DEF Sorted
  <2>3. ASSUME NEW p, NEW v, NEW n, Holds(buffer, p, v, n) PROVE Lost(n)'
    <3>1. n \in Int
      <4>1. n \in Revisions
        BY <1>0, <2>3, HoldsTyped DEF TypeOK
      <4> QED
        BY <1>0, <4>1, NumberFacts
    <3>2. last + 1 <= n /\ n <= e.revision /\ \A f \in InFlight : f.revision + 1 <= n
      BY <1>1, <2>0, <2>3, WithinHolds DEF Sorted
    <3>3. n > last /\ \A f \in InFlight : f.revision < n
      BY <1>6, <3>1, <3>2
    <3>4. last # NoBase \/ \E f \in InFlight : f.revision < n
      BY <2>1, <3>3
    <3> QED
      BY <1>1, <1>2, <1>3, <3>2, <3>3, <3>4 DEF Lost
  <2>4. ASSUME NEW n \in Revisions, Lost(n) PROVE Lost(n)'
    <3>1. n \in Int
      BY <1>0, NumberFacts
    <3>2. n <= refused => n <= e.revision
      BY <1>1, <1>6, <2>2, <3>1
    <3> QED
      BY <1>1, <1>2, <1>3, <2>4, <3>2 DEF Lost
  <2> QED
    BY <2>3, <2>4
<1>10. Forwarded
  BY <1>1, <1>2, <1>5, <1>9 DEF Forwarded
<1> QED
  BY <1>7, <1>8, <1>10, ForwardedStep

\* So a flush keeps the invariant.
LEMMA FlushStep ==
  ASSUME DeliveryAssumption, Inv, TypeOK', Flush
  PROVE  Inv'
BY FlushFacts, FlushAccepted, FlushRefused

\* A receive moves the queue into the batch and loses nothing.
LEMMA PollStep ==
  ASSUME DeliveryAssumption, Inv, TypeOK', Poll
  PROVE  Inv'
<1>0. TypeOK /\ Bounded
  BY DEF Inv
<1>1. /\ batch = <<>> /\ batch' = queue /\ queue' = <<>>
      /\ UNCHANGED <<store, revision, subs, phase, held, pattern, buffer, cache, last, noticed, order, known, late, baseLost, refused, pruned>>
  BY DEF Poll, server, order, losses
<1>2. InFlight' = InFlight
  BY <1>1 DEF InFlight
<1>3. \A p, v, n : Carried(p, v, n)' <=> Carried(p, v, n)
  BY <1>1, <1>2 DEF Carried
<1>4. \A n : Lost(n)' <=> Lost(n)
  BY <1>1, <1>2 DEF Lost
<1>5. Bounded'
  BY <1>0, <1>1, <1>2 DEF Bounded
<1>6. ~late' => Sorted'
  BY <1>1, <1>2 DEF Sorted, Inv
<1>7. Forwarded
  BY <1>1, <1>3, <1>4 DEF Forwarded
<1> QED
  BY <1>5, <1>6, <1>7, ForwardedStep

-----------------------------------------------------------------------------
(* The subscriber.                                                         *)

\* The rest of a sequence.
LEMMA TailShape ==
  ASSUME NEW q \in Seq(Envelope), q # <<>>
  PROVE  /\ Head(q) = q[1] /\ 1 \in DOMAIN q /\ DOMAIN q = 1 .. Len(q) /\ Len(q) \in Nat
         /\ \A i \in DOMAIN Tail(q) : i \in Int /\ i + 1 \in DOMAIN q /\ i + 1 > 1 /\ Tail(q)[i] = q[i + 1]
         /\ \A i \in DOMAIN q : i = 1 \/ (i - 1 \in DOMAIN Tail(q) /\ q[i] = Tail(q)[i - 1])
OBVIOUS

\* The deltas of envelope e decide leaf p's value: the youngest of them at p,
\* if there is one.
LEMMA AppliedIsYoungest ==
  ASSUME NEW ds \in Seq(Deltas), Ascending(ds), NEW p, NEW before,
         \A n \in Revisions : n \in Int
  PROVE  \/ /\ \A v, n : ~Holds(ds, p, v, n)
            /\ Applied(ds, p, before) = before
         \/ \E v \in Values, m \in Revisions :
               /\ Holds(ds, p, v, m) /\ Applied(ds, p, before) = v
               /\ \A w, n : Holds(ds, p, w, n) => n <= m
<1>1. CASE \A i \in DOMAIN ds : p \notin DOMAIN ds[i]
  BY <1>1, AppliedFacts DEF Holds
<1>2. CASE ~ \A i \in DOMAIN ds : p \notin DOMAIN ds[i]
  <2>1. PICK k \in DOMAIN ds : /\ p \in DOMAIN ds[k]
                               /\ \A j \in DOMAIN ds : p \in DOMAIN ds[j] => j <= k
                               /\ Applied(ds, p, before) = ds[k][p].value
    BY <1>2, AppliedFacts
  <2>2. \A i \in DOMAIN ds : ds[i] \in Deltas /\ i \in Int
    OBVIOUS
  <2>3. ds[k][p].value \in Values /\ ds[k][p].revision \in Revisions
    BY <2>1, <2>2, DeltasFacts
  <2>4. Holds(ds, p, ds[k][p].value, ds[k][p].revision)
    BY <2>1 DEF Holds
  <2>5. ASSUME NEW w, NEW n, Holds(ds, p, w, n)
        PROVE  n <= ds[k][p].revision
    <3>1. PICK j \in DOMAIN ds : p \in DOMAIN ds[j] /\ ds[j][p].value = w /\ ds[j][p].revision = n
      BY <2>5 DEF Holds
    <3>2. j = k \/ j < k
      BY <2>1, <2>2, <3>1
    <3>3. CASE j = k
      BY <2>3, <3>1, <3>3
    <3>4. CASE j < k
      BY <2>1, <3>1, <3>4 DEF Ascending
    <3> QED
      BY <3>2, <3>3, <3>4
  <2> QED
    BY <2>1, <2>3, <2>4, <2>5
<1> QED
  BY <1>1, <1>2

\* The envelope handled is the oldest under way, and not stale while deltas
\* are in order.
LEMMA HandledFacts ==
  ASSUME DeliveryAssumption, Inv, OnStateChanged
  PROVE  /\ Head(batch) \in InFlight
         /\ \A f \in InFlight' : f \in InFlight
         /\ \A f \in InFlight : f \in InFlight' \/ f = Head(batch)
         /\ ~late => /\ \A f \in InFlight' : Head(batch).revision < f.first
                     /\ ~Stale(Head(batch))
         /\ UNCHANGED <<store, revision, subs, phase, held, pattern, buffer, queue, order, known, late, losses, pruned>>
<1>1. batch # <<>> /\ batch' = Tail(batch) /\ batch \in Seq(Envelope)
      /\ UNCHANGED <<store, revision, subs, phase, held, pattern, buffer, queue, order, known, late, losses, pruned>>
  BY DEF OnStateChanged, server, order, Inv, TypeOK
<1>2. /\ Head(batch) = batch[1] /\ 1 \in DOMAIN batch
      /\ \A i \in DOMAIN batch' : i \in Int /\ i + 1 \in DOMAIN batch /\ i + 1 > 1 /\ batch'[i] = batch[i + 1]
      /\ \A i \in DOMAIN batch : i = 1 \/ (i - 1 \in DOMAIN batch' /\ batch[i] = batch'[i - 1])
  BY <1>1, TailShape
<1>3. Head(batch) \in InFlight
  BY <1>2, QueuedInFlight
<1>4. ASSUME NEW f \in InFlight'
      PROVE  \/ \E i \in DOMAIN batch : i > 1 /\ f = batch[i]
             \/ \E j \in DOMAIN queue : f = queue[j]
  BY <1>1, <1>2, <1>4 DEF InFlight
<1>5. \A f \in InFlight' : f \in InFlight
  BY <1>4, QueuedInFlight
<1>6. \A f \in InFlight : f \in InFlight' \/ f = Head(batch)
  <2>1. \A i \in DOMAIN batch' : batch'[i] \in InFlight'
    BY DEF InFlight
  <2>2. \A j \in DOMAIN queue : queue[j] \in InFlight'
    BY <1>1 DEF InFlight
  <2>3. \A i \in DOMAIN batch : batch[i] = Head(batch) \/ batch[i] \in InFlight'
    BY <1>2, <2>1
  <2> QED
    BY <2>2, <2>3, QueuedInFlight
<1>7. ASSUME ~late
      PROVE  /\ \A f \in InFlight' : Head(batch).revision < f.first
             /\ ~Stale(Head(batch))
  <2>1. Sorted /\ TypeOK /\ Bounded
    BY <1>7 DEF Inv
  <2>2. \A f \in InFlight' : batch[1].revision < f.first
    BY <1>2, <1>4, <2>1 DEF Sorted
  <2>3. /\ last < Head(batch).first /\ Head(batch).first <= Head(batch).revision
        /\ Head(batch).first \in Revisions /\ Head(batch).revision \in Revisions
    BY <1>3, <2>1, InFlightTyped DEF Sorted, Bounded
  <2>4. ~Stale(Head(batch))
    BY <2>1, <2>3, NumberFacts DEF Stale
  <2> QED
    BY <1>2, <2>2, <2>4
<1> QED
  BY <1>1, <1>3, <1>5, <1>6, <1>7

\* Only that envelope's deltas are no longer carried.
LEMMA HandledCarried ==
  ASSUME DeliveryAssumption, Inv, OnStateChanged
  PROVE  /\ \A p, v, n : Carried(p, v, n)' => Carried(p, v, n)
         /\ \A p, v, n : Carried(p, v, n) => Carried(p, v, n)' \/ Holds(Head(batch).deltas, p, v, n)
         /\ \A p, v, n : Holds(Head(batch).deltas, p, v, n) => Carried(p, v, n)
<1>1. /\ Head(batch) \in InFlight
      /\ \A f \in InFlight' : f \in InFlight
      /\ \A f \in InFlight : f \in InFlight' \/ f = Head(batch)
      /\ buffer' = buffer
  BY HandledFacts
<1> DEFINE h == Head(batch)
<1> HIDE DEF h
<1>2. h \in InFlight /\ \A f \in InFlight : f \in InFlight' \/ f = h
  BY <1>1 DEF h
<1>3. \A p, v, n : Carried(p, v, n)' <=> Holds(buffer, p, v, n) \/ \E f \in InFlight' : Holds(f.deltas, p, v, n)
  BY <1>1 DEF Carried, Holds
<1>4. \A p, v, n : Carried(p, v, n)' => Carried(p, v, n)
  BY <1>1, <1>3 DEF Carried
<1>5. \A p, v, n : Carried(p, v, n) => Carried(p, v, n)' \/ Holds(h.deltas, p, v, n)
  BY <1>2, <1>3 DEF Carried
<1>6. \A p, v, n : Holds(h.deltas, p, v, n) => Carried(p, v, n)
  BY <1>2 DEF Carried
<1> QED
  BY <1>4, <1>5, <1>6 DEF h

\* Handling an envelope keeps the bounds and the order.
LEMMA HandledBounds ==
  ASSUME DeliveryAssumption, Inv, TypeOK', OnStateChanged
  PROVE  /\ PhaseOK' /\ Bounded' /\ Unwatched' /\ Undispatched' /\ SnapshotOK'
         /\ ~late' => Sorted'
<1> DEFINE h == Head(batch)
<1>0. TypeOK /\ PhaseOK /\ Bounded /\ Unwatched /\ Undispatched /\ SnapshotOK
  BY DEF Inv
<1>1. /\ h \in InFlight
      /\ \A f \in InFlight' : f \in InFlight
      /\ UNCHANGED <<store, revision, subs, phase, held, pattern, buffer, queue, order, known, late, losses, pruned>>
  BY HandledFacts
<1>2. /\ Stale(h) => UNCHANGED <<cache, last, noticed>>
      /\ ~Stale(h) => /\ cache' = [p \in Leaves |-> Applied(h.deltas, p, cache[p])]
                      /\ last' = h.revision
  BY DEF OnStateChanged
<1>3. /\ h.deltas \in Seq(Deltas) /\ h.revision \in Revisions /\ h.revision <= known
      /\ h.revision \in Int /\ h.revision >= 0 /\ NoBase = -1
      /\ \A n \in Revisions : n \in Int
  BY <1>0, <1>1, InFlightTyped, NumberFacts DEF Bounded
<1>4. Watched' = Watched /\ (Snapshot' <=> Snapshot) /\ \A p, v, n : InHand(p, v, n)' <=> InHand(p, v, n)
  BY <1>1 DEF Watched, Snapshot, InHand
<1>5. \A p, v, n : Carried(p, v, n)' => Carried(p, v, n)
  BY HandledCarried
<1>6. PhaseOK'
  BY <1>0, <1>1, <1>4 DEF PhaseOK
<1>7. Undispatched'
  BY <1>0, <1>1, <1>4 DEF Undispatched
<1>8. SnapshotOK'
  BY <1>0, <1>1, <1>4 DEF SnapshotOK
<1>9. Bounded'
  <2>1. last' <= known'
    BY <1>0, <1>1, <1>2, <1>3 DEF Bounded
  <2>2. UNCHANGED <<buffer, refused>>
    BY <1>1 DEF losses
  <2> QED
    BY <1>0, <1>1, <2>1, <2>2 DEF Bounded
<1>10. Unwatched'
  <2>1. last' = NoBase => \A p \in Leaves : cache'[p] = Absent
    BY <1>0, <1>2, <1>3 DEF Unwatched
  <2>2. ASSUME NEW p \in Leaves \ Watched, ~Stale(h) PROVE cache'[p] = Absent
    <3>1. \A v \in Values, n \in Revisions : ~Holds(h.deltas, p, v, n)
      BY <1>0, HandledCarried DEF Unwatched
    <3>2. \A i \in DOMAIN h.deltas : p \notin DOMAIN h.deltas[i]
      <4> HIDE DEF h
      <4>1. \A i \in DOMAIN h.deltas : h.deltas[i] \in Deltas
        BY <1>3
      <4> QED
        BY <3>1, <4>1, DeltasFacts DEF Holds
    <3>3. Applied(h.deltas, p, cache[p]) = cache[p]
      <4> HIDE DEF h
      <4> QED
        BY <1>3, <3>2, AppliedFacts
    <3> QED
      BY <1>0, <1>2, <2>2, <3>3 DEF Unwatched
  <2>3. \A p \in Leaves \ Watched : cache'[p] = Absent
    BY <1>0, <1>2, <2>2 DEF Unwatched
  <2> QED
    BY <1>0, <1>4, <1>5, <2>1, <2>3 DEF Unwatched
<1>11. ASSUME ~late' PROVE Sorted'
  <2>1. Sorted /\ ~late
    BY <1>1, <1>11 DEF Inv
  <2>2. last' = h.revision /\ \A f \in InFlight' : h.revision < f.first
    BY <1>2, <2>1, HandledFacts
  <2>3. Within(buffer, h.revision + 1, known)
    BY <1>1, <2>1 DEF Sorted
  <2>4. batch \in Seq(Envelope) /\ batch # <<>> /\ batch' = Tail(batch)
    BY <1>0 DEF OnStateChanged, TypeOK
  <2>5. \A i \in DOMAIN batch' : i \in Int /\ i + 1 \in DOMAIN batch /\ batch'[i] = batch[i + 1]
    BY <2>4, TailShape
  <2>6. ASSUME NEW i \in DOMAIN batch', NEW j \in DOMAIN batch', i < j
        PROVE  batch'[i].revision < batch'[j].first
    <3>1. i + 1 < j + 1
      BY <2>5, <2>6
    <3> QED
      BY <2>1, <2>5, <3>1 DEF Sorted
  <2>7. \A i \in DOMAIN batch', j \in DOMAIN queue' : batch'[i].revision < queue'[j].first
    BY <1>1, <2>1, <2>5 DEF Sorted
  <2>8. \A i, j \in DOMAIN queue' : i < j => queue'[i].revision < queue'[j].first
    BY <1>1, <2>1 DEF Sorted
  <2>9. Ascending(buffer') /\ \A f \in InFlight' : Ascending(f.deltas) /\ Within(buffer', f.revision + 1, known')
    BY <1>1, <2>1 DEF Sorted
  <2>10. Within(buffer', last' + 1, known') /\ \A f \in InFlight' : last' < f.first
    BY <1>1, <2>2, <2>3
  <2>11. Within(buffer', refused' + 1, known')
         /\ (buffer' # <<>> => last' < known' /\ refused' < known' /\ \A f \in InFlight' : f.revision < known')
    <3>1. refused' = refused /\ buffer' = buffer /\ known' = known
      BY <1>1 DEF losses
    <3> QED
      BY <1>1, <2>1, <2>2, <3>1 DEF Sorted
  <2> QED
    BY <2>6, <2>7, <2>8, <2>9, <2>10, <2>11 DEF Sorted
<1> QED
  BY <1>6, <1>7, <1>8, <1>9, <1>10, <1>11

\* It brings the copy up to the envelope's revision, unless it shows a gap.
LEMMA HandledLeaves ==
  ASSUME DeliveryAssumption, Inv, TypeOK', OnStateChanged, Sound'
  PROVE  \A p \in Leaves \ pruned' : LeafOK(p)'
<1>0. TypeOK /\ Bounded /\ Unwatched /\ Undispatched
  BY DEF Inv
<1>1. PICK h : h = Head(batch)
  OBVIOUS
<1>2. /\ h \in InFlight
      /\ \A f \in InFlight' : f \in InFlight
      /\ \A f \in InFlight : f \in InFlight' \/ f = h
      /\ UNCHANGED <<store, revision, subs, phase, held, pattern, buffer, queue, order, known, late, losses, pruned>>
  BY <1>1, HandledFacts
<1>3. ~late /\ ~noticed' /\ ~baseLost'
  BY <1>2 DEF Sound, InOrder
<1>4. Sorted /\ ~Stale(h) /\ \A f \in InFlight' : h.revision < f.first
  BY <1>1, <1>3, HandledFacts DEF Inv
<1>5. /\ cache' = [p \in Leaves |-> Applied(h.deltas, p, cache[p])]
      /\ last' = h.revision
      /\ noticed' = (noticed \/ Gap(h))
  BY <1>1, <1>4 DEF OnStateChanged
<1>6. /\ h.deltas \in Seq(Deltas) /\ h.first \in Int /\ h.revision \in Int
      /\ h.first <= h.revision /\ h.revision <= known /\ last < h.first /\ h.revision >= 0
      /\ Ascending(h.deltas) /\ Within(h.deltas, h.first, h.revision)
  <2>1. \A n \in Revisions : n \in Int /\ n >= 0
    BY <1>0, NumberFacts
  <2> QED
    BY <1>0, <1>2, <1>4, <2>1, InFlightTyped DEF Sorted, Bounded
<1>7. /\ known \in Int /\ last \in Int /\ NoBase = -1 /\ Absent = -1 /\ last >= -1
      /\ \A n \in Revisions : n \in Int /\ n >= 0 /\ n # Absent /\ n \in Values
      /\ \A v \in Values : v \in Int /\ (v # Absent => v \in Revisions)
      /\ \A p \in Leaves : store[p] \in Values /\ cache[p] \in Values
  BY <1>0, NumberFacts
<1>8. Watched' = Watched /\ (\A p : Awaiting(p)' <=> Awaiting(p)) /\ \A p, v, n : InHand(p, v, n)' <=> InHand(p, v, n)
  BY <1>2 DEF Watched, Awaiting, Snapshot, InHand
<1>9. Sound
  <2>1. baseLost' = baseLost /\ noticed \in BOOLEAN
    BY <1>0, <1>2 DEF losses, TypeOK
  <2>2. InOrder
    BY <1>2, <1>8 DEF Sound, InOrder, Behind
  <2> QED
    BY <1>3, <1>5, <2>1, <2>2 DEF Sound
<1>10. ~Gap(h)
  BY <1>3, <1>5
<1>11. /\ \A p, v, n : Carried(p, v, n)' => Carried(p, v, n)
       /\ \A p, v, n : Carried(p, v, n) => Carried(p, v, n)' \/ Holds(h.deltas, p, v, n)
       /\ \A p, v, n : Holds(h.deltas, p, v, n) => Carried(p, v, n)
  BY <1>1, HandledCarried
<1>12. \A p, v, n : Holds(h.deltas, p, v, n) => h.first <= n /\ n <= h.revision
  BY <1>6, WithinHolds
<1>13. ASSUME NEW p, NEW v, NEW n, Carried(p, v, n)' PROVE n > h.revision
  <2>0. n \in Revisions /\ n \in Int
    BY <1>0, <1>7, <1>11, <1>13, CarriedTyped
  <2>1. CASE Holds(buffer, p, v, n)
    <3>1. Within(buffer, h.revision + 1, known)
      BY <1>2, <1>4 DEF Sorted
    <3>2. h.revision + 1 <= n
      BY <2>1, <3>1, WithinHolds
    <3> QED
      BY <1>6, <2>0, <3>2
  <2>2. ASSUME NEW f \in InFlight', Holds(f.deltas, p, v, n) PROVE n > h.revision
    <3>1. Within(f.deltas, f.first, f.revision) /\ f.first \in Revisions /\ h.revision < f.first
      BY <1>0, <1>2, <1>4, InFlightTyped DEF Bounded
    <3>2. f.first <= n
      BY <2>2, <3>1, WithinHolds
    <3>3. f.first \in Int /\ h.revision \in Int /\ h.revision < f.first
      BY <1>6, <1>7, <3>1
    <3> QED
      BY ONLY <2>0, <3>2, <3>3
  <2>3. Holds(buffer, p, v, n) \/ \E f \in InFlight' : Holds(f.deltas, p, v, n)
    BY <1>2, <1>13 DEF Carried, Holds
  <2> QED
    BY <2>1, <2>2, <2>3
<1>14. ASSUME NEW p \in Watched, NEW v, NEW n, InHand(p, v, n) PROVE n > h.revision
  <2>1. PICK u \in Threads : /\ phase[u] = "dispatch" /\ p \in DOMAIN held[u]
                             /\ held[u][p].value = v /\ held[u][p].revision = n
    BY <1>14 DEF InHand
  <2>2. ~Behind(n)
    BY <1>9, <2>1 DEF Sound, InOrder
  <2>3. n \in Int
    BY <1>0, <1>7, <1>14, InHandTyped
  <2>4. buffer # <<>> => h.revision < known
    BY <1>2, <1>4 DEF Sorted
  <2> QED
    BY <1>6, <1>7, <2>2, <2>3, <2>4 DEF Behind
<1>15. ASSUME NEW n \in Revisions, Lost(n) PROVE Lost(n)' /\ n > h.revision
  <2>1. h.revision < n
    <3>1. h.revision < n \/ h.first > n
      BY <1>2, <1>15 DEF Lost
    <3>2. CASE h.first > n
      <4>1. CASE last # NoBase
        <5>1. h.first > last + 1
          BY <1>6, <1>7, <1>15, <3>2 DEF Lost
        <5> QED
          BY <1>10, <4>1, <5>1 DEF Gap
      <4>2. CASE last = NoBase
        <5>1. PICK f \in InFlight : f.revision < n
          BY <1>15, <4>2 DEF Lost
        <5>2. f.first \in Int /\ f.revision \in Int /\ f.first <= f.revision
          BY <1>0, <1>7, InFlightTyped DEF Bounded
        <5>3. f = h \/ h.revision < f.first
          BY <1>2, <1>4
        <5> QED
          BY <1>6, <1>7, <3>2, <5>1, <5>2, <5>3
      <4> QED
        BY <4>1, <4>2
    <3> QED
      BY <3>1, <3>2
  <2>2. n > last' /\ last' # NoBase
    BY <1>5, <1>6, <1>7, <2>1
  <2>3. \A f \in InFlight' : f.revision < n \/ f.first > n
    BY <1>2, <1>15 DEF Lost
  <2>4. n <= refused' \/ \E f \in InFlight' : f.first > n
    <3>1. refused' = refused
      BY <1>2 DEF losses
    <3>2. ASSUME NEW f \in InFlight, f.first > n PROVE f \in InFlight'
      <4>1. f # h
        BY <1>6, <1>7, <2>1, <3>2
      <4> QED
        BY <1>2, <4>1
    <3> QED
      BY <1>15, <3>1, <3>2 DEF Lost
  <2> QED
    BY <2>1, <2>2, <2>3, <2>4 DEF Lost
<1>16. ASSUME NEW p, NEW v, NEW n, Carried(p, v, n), n > h.revision PROVE Carried(p, v, n)'
  <2>1. n \in Int
    BY <1>0, <1>7, <1>16, CarriedTyped
  <2> QED
    BY <1>6, <1>11, <1>12, <1>16, <2>1
<1>17. ASSUME NEW p, NEW v, NEW n, Pending(p, v, n), n > h.revision PROVE Pending(p, v, n)'
  BY <1>8, <1>16, <1>17 DEF Pending
<1>18. ASSUME NEW p, NEW v, NEW n, Carried(p, v, n) \/ cache[p] # Absent, p \in Leaves, v \in Values, n \in Revisions
       PROVE  p \in Watched
  BY <1>0, <1>18 DEF Unwatched
<1>19. ASSUME NEW p \in Leaves \ pruned' PROVE LeafOK(p)'
  <2>0. LeafOK(p) /\ store[p] \in Values /\ store[p] \in Int /\ (store[p] # Absent => store[p] \in Revisions)
    BY <1>2, <1>7, <1>9, <1>19 DEF Inv
  <2>1. \/ /\ \A v, n : ~Holds(h.deltas, p, v, n)
           /\ cache'[p] = cache[p]
        \/ \E v \in Values, m \in Revisions :
               /\ Holds(h.deltas, p, v, m) /\ cache'[p] = v
               /\ \A w, n : Holds(h.deltas, p, w, n) => n <= m
    <3>1. cache'[p] = Applied(h.deltas, p, cache[p])
      BY <1>5
    <3>2. \/ /\ \A v, n : ~Holds(h.deltas, p, v, n)
             /\ Applied(h.deltas, p, cache[p]) = cache[p]
          \/ \E v \in Values, m \in Revisions :
               /\ Holds(h.deltas, p, v, m) /\ Applied(h.deltas, p, cache[p]) = v
               /\ \A w, n : Holds(h.deltas, p, w, n) => n <= m
      BY <1>6, <1>7, AppliedIsYoungest
    <3> QED
      BY <3>1, <3>2
  <2>2. ASSUME NEW w \in Revisions, w = store[p],
               \/ cache[p] # Absent /\ last < w
               \/ \E v \in Values, n \in Revisions : Holds(h.deltas, p, v, n) /\ n < w
        PROVE  \/ Pending(p, w, w) /\ (w <= h.revision => Holds(h.deltas, p, w, w))
               \/ Lost(w) /\ w > h.revision
    <3>1. last < w
      <4>1. ASSUME NEW v \in Values, NEW n \in Revisions, Holds(h.deltas, p, v, n), n < w
            PROVE  last < w
        BY <1>6, <1>7, <1>12, <4>1
      <4> QED
        BY <2>2, <4>1
    <3>2. Pending(p, w, w) \/ Lost(w)
      BY <1>7, <1>11, <2>0, <2>2, <3>1 DEF LeafOK, Reaching
    <3>3. p \in Watched
      <4>1. CASE cache[p] # Absent
        BY <1>7, <1>18, <1>19, <2>2, <4>1
      <4>2. ASSUME NEW v \in Values, NEW n \in Revisions, Holds(h.deltas, p, v, n) PROVE p \in Watched
        <5>1. Carried(p, v, n)
          BY <1>11, <4>2
        <5> QED
          BY <1>18, <1>19, <5>1
      <4> QED
        BY <2>2, <4>1, <4>2
    <3>4. Lost(w) => w > h.revision
      BY <1>15
    <3>5. Carried(p, w, w) /\ w <= h.revision => Holds(h.deltas, p, w, w)
      BY <1>6, <1>7, <1>11, <1>13
    <3>6. InHand(p, w, w) => w > h.revision
      BY <1>14, <3>3
    <3>7. w > h.revision => ~(w <= h.revision)
      BY <1>6, <1>7
    <3> QED
      BY <3>2, <3>4, <3>5, <3>6, <3>7 DEF Pending
  <2>3. FreshIsTrue(p)'
    BY <1>2, <1>11, <2>0 DEF LeafOK, FreshIsTrue
  <2>4. Honest(p)'
    <3> SUFFICES ASSUME store[p] # Absent, cache'[p] # Absent, store[p] <= h.revision
                 PROVE  cache'[p] = store[p]
      BY <1>2, <1>5 DEF Honest
    <3>0. PICK w \in Revisions : w = store[p]
      BY <2>0
    <3>1. CASE (\A v, n : ~Holds(h.deltas, p, v, n)) /\ cache'[p] = cache[p]
      <4>1. CASE store[p] <= last
        BY <2>0, <3>1, <4>1 DEF LeafOK, Honest
      <4>2. CASE ~(store[p] <= last)
        <5>1. last < w /\ ~(w > h.revision) /\ w <= h.revision
          BY <1>6, <1>7, <3>0, <4>2
        <5> QED
          BY <2>2, <3>0, <3>1, <5>1
      <4> QED
        BY <4>1, <4>2
    <3>2. ASSUME NEW v \in Values, NEW m \in Revisions, Holds(h.deltas, p, v, m), cache'[p] = v,
                 \A x, n : Holds(h.deltas, p, x, n) => n <= m
          PROVE  cache'[p] = store[p]
      <4>1. CASE m >= store[p]
        BY <1>11, <2>0, <3>2, <4>1 DEF LeafOK, FreshIsTrue
      <4>2. CASE ~(m >= store[p])
        <5>1. m < w /\ ~(w > h.revision) /\ w <= h.revision /\ ~(w <= m)
          BY <1>6, <1>7, <3>0, <4>2
        <5>2. Holds(h.deltas, p, w, w)
          BY <2>2, <3>0, <3>2, <5>1
        <5> QED
          BY <3>2, <5>1, <5>2
      <4> QED
        BY <4>1, <4>2
    <3> QED
      BY <2>1, <3>1, <3>2
  <2>5. Reaching(p)'
    <3> SUFFICES ASSUME store[p] # Absent, h.revision < store[p],
                        \/ cache'[p] # Absent
                        \/ \E v \in Values, n \in Revisions : Carried(p, v, n)' /\ n < store[p]
                 PROVE  Pending(p, store[p], store[p])' \/ Lost(store[p])'
      BY <1>2, <1>5 DEF Reaching
    <3>0. PICK w \in Revisions : w = store[p]
      BY <2>0
    <3>1. last < store[p]
      BY <1>6, <1>7, <2>0
    <3>2. \/ cache[p] # Absent
          \/ \E v \in Values, n \in Revisions : Carried(p, v, n) /\ n < store[p]
      <4>1. ASSUME NEW v \in Values, NEW m \in Revisions, Holds(h.deltas, p, v, m)
            PROVE  Carried(p, v, m) /\ m < store[p]
        BY <1>6, <1>7, <1>11, <1>12, <2>0, <4>1
      <4> QED
        BY <1>11, <2>1, <4>1
    <3>3. Pending(p, w, w) \/ Lost(w)
      BY <2>0, <3>0, <3>1, <3>2 DEF LeafOK, Reaching
    <3>4. w > h.revision
      BY <1>6, <1>7, <3>0
    <3>5. Pending(p, w, w)' \/ Lost(w)'
      BY <1>15, <1>17, <3>3, <3>4
    <3> QED
      BY <1>2, <3>0, <3>5
  <2>6. Arriving(p)'
    <3> SUFFICES ASSUME p \in Watched, store[p] # Absent, cache'[p] = Absent, ~Awaiting(p)
                 PROVE  \E n \in Revisions : n >= store[p] /\ (Pending(p, store[p], n)' \/ Lost(n)')
      BY <1>2, <1>8 DEF Arriving
    <3>0. PICK w \in Revisions : w = store[p]
      BY <2>0
    <3>1. CASE (\A v, n : ~Holds(h.deltas, p, v, n)) /\ cache'[p] = cache[p]
      <4>1. PICK n \in Revisions : n >= w /\ (Pending(p, w, n) \/ Lost(n))
        BY <2>0, <3>0, <3>1 DEF LeafOK, Arriving
      <4>2. Pending(p, w, n)' \/ Lost(n)'
        BY <1>8, <1>11, <1>15, <3>1, <4>1 DEF Pending
      <4> QED
        BY <1>2, <3>0, <4>1, <4>2
    <3>2. ASSUME NEW v \in Values, NEW m \in Revisions, Holds(h.deltas, p, v, m), cache'[p] = v,
                 \A u, n : Holds(h.deltas, p, u, n) => n <= m
          PROVE  Pending(p, w, w)' \/ Lost(w)'
      <4>1. m < w
        <5>1. ~(m >= store[p])
          BY <1>11, <2>0, <3>2 DEF LeafOK, FreshIsTrue
        <5> QED
          BY <1>7, <3>0, <5>1
      <4>2. \/ Pending(p, w, w) /\ (w <= h.revision => Holds(h.deltas, p, w, w))
            \/ Lost(w) /\ w > h.revision
        BY <2>2, <3>0, <3>2, <4>1
      <4>3. ~Holds(h.deltas, p, w, w)
        BY <1>7, <3>2, <4>1
      <4>4. w > h.revision
        BY <1>6, <1>7, <4>2, <4>3
      <4> QED
        BY <1>15, <1>17, <4>2, <4>4
    <3>3. ASSUME Pending(p, w, w)' \/ Lost(w)'
          PROVE  \E n \in Revisions : n >= store[p] /\ (Pending(p, store[p], n)' \/ Lost(n)')
      <4>1. w >= store[p]
        BY <1>7, <3>0
      <4> QED
        BY <1>2, <3>0, <3>3, <4>1
    <3> QED
      BY <2>1, <3>1, <3>2, <3>3
  <2>7. Vanishing(p)'
    <3> SUFFICES ASSUME store[p] = Absent PROVE Vanishing(p)'
      BY <1>2 DEF Vanishing
    <3>1. ASSUME NEW n \in Revisions, n > h.revision, Pending(p, Absent, n) \/ Lost(n)
          PROVE  Pending(p, Absent, n)' \/ Lost(n)'
      BY <1>15, <1>17, <3>1
    <3>2. ASSUME NEW n \in Revisions, p \in Watched, Pending(p, Absent, n) \/ Lost(n), ~Holds(h.deltas, p, Absent, n)
          PROVE  n > h.revision
      <4>1. Carried(p, Absent, n) => n > h.revision
        BY <1>11, <1>13, <3>2
      <4>2. InHand(p, Absent, n) => n > h.revision
        BY <1>14, <3>2
      <4>3. Lost(n) => n > h.revision
        BY <1>15
      <4> QED
        BY <3>2, <4>1, <4>2, <4>3 DEF Pending
    <3>3. ASSUME NEW v \in Revisions, NEW m \in Revisions, Carried(p, v, m)'
          PROVE  \E n \in Revisions : n > m /\ (Pending(p, Absent, n)' \/ Lost(n)')
      <4>1. Carried(p, v, m) /\ m > h.revision
        BY <1>11, <1>13, <3>3
      <4>2. PICK n \in Revisions : n > m /\ (Pending(p, Absent, n) \/ Lost(n))
        BY <2>0, <4>1 DEF LeafOK, Vanishing
      <4>3. n > h.revision
        BY <1>6, <1>7, <4>1, <4>2
      <4> QED
        BY <3>1, <4>2, <4>3
    <3>4. ASSUME cache'[p] # Absent
          PROVE  \E n \in Revisions : n > h.revision /\ (Pending(p, Absent, n)' \/ Lost(n)')
      <4>1. CASE (\A v, n : ~Holds(h.deltas, p, v, n)) /\ cache'[p] = cache[p]
        <5>1. p \in Watched
          BY <1>0, <1>19, <3>4, <4>1 DEF Unwatched
        <5>2. PICK n \in Revisions : n > last /\ (Pending(p, Absent, n) \/ Lost(n))
          BY <2>0, <3>4, <4>1 DEF LeafOK, Vanishing
        <5>3. n > h.revision
          BY <3>2, <4>1, <5>1, <5>2
        <5> QED
          BY <3>1, <5>2, <5>3
      <4>2. ASSUME NEW v \in Values, NEW m \in Revisions, Holds(h.deltas, p, v, m), cache'[p] = v,
                   \A w, n : Holds(h.deltas, p, w, n) => n <= m
            PROVE  \E n \in Revisions : n > h.revision /\ (Pending(p, Absent, n)' \/ Lost(n)')
        <5>1. v \in Revisions /\ Carried(p, v, m)
          BY <1>7, <1>11, <3>4, <4>2
        <5>2. p \in Watched
          BY <1>18, <1>19, <4>2, <5>1
        <5>3. PICK n \in Revisions : n > m /\ (Pending(p, Absent, n) \/ Lost(n))
          BY <2>0, <5>1 DEF LeafOK, Vanishing
        <5>4. ~Holds(h.deltas, p, Absent, n)
          BY <1>7, <4>2, <5>3
        <5>5. n > h.revision
          BY <3>2, <5>2, <5>3, <5>4
        <5> QED
          BY <3>1, <5>3, <5>5
      <4> QED
        BY <2>1, <4>1, <4>2
    <3> QED
      BY <1>2, <1>5, <3>3, <3>4 DEF Vanishing
  <2> QED
    BY <2>3, <2>4, <2>5, <2>6, <2>7 DEF LeafOK
<1> QED
  BY <1>19

-----------------------------------------------------------------------------
(* The theorems.                                                           *)

\* The initial states satisfy the invariant ...
LEMMA DeliveryInit == DeliveryAssumption /\ Init => Inv
<1> SUFFICES ASSUME DeliveryAssumption, Init PROVE Inv
  OBVIOUS
<1>1. TypeOK /\ Commands \in Threads
  BY TypeInit DEF DeliveryAssumption
<1>2. /\ store \in [Leaves -> {Absent, 0}] /\ revision = 0 /\ subs = {}
      /\ phase = [t \in Threads |-> "idle"]
      /\ buffer = <<>> /\ queue = <<>> /\ batch = <<>>
      /\ cache = [p \in Leaves |-> Absent] /\ last = -1 /\ known = -1 /\ refused = -1 /\ Absent = -1
  BY DEF Init, NoBase, Absent
<1>3. InFlight = {} /\ Watched = {}
  BY <1>2 DEF InFlight, Watched
<1>4. \A p, v, n : ~Carried(p, v, n) /\ ~InHand(p, v, n)
  BY <1>2, <1>3 DEF Carried, InHand, Holds
<1>5. PhaseOK /\ ~Snapshot
  BY <1>1, <1>2 DEF PhaseOK, Snapshot
<1>6. Bounded
  BY <1>2, <1>3 DEF Bounded, Within
<1>7. Unwatched
  BY <1>2, <1>4 DEF Unwatched
<1>8. Undispatched
  BY <1>2, <1>4 DEF Undispatched
<1>9. SnapshotOK
  BY <1>5 DEF SnapshotOK
<1>10. Sorted
  BY <1>2, <1>3 DEF Sorted, Ascending, Within
<1>11. ASSUME NEW p \in Leaves PROVE LeafOK(p)
  <2>1. cache[p] = Absent /\ p \notin Watched /\ \A v, n : ~Pending(p, v, n)
    BY <1>2, <1>3, <1>4 DEF Pending
  <2> QED
    BY <1>4, <2>1 DEF LeafOK, FreshIsTrue, Honest, Reaching, Arriving, Vanishing
<1> QED
  BY <1>1, <1>5, <1>6, <1>7, <1>8, <1>9, <1>10, <1>11 DEF Inv

\* ... and every step keeps it ...
LEMMA DeliveryNext == DeliveryAssumption /\ Inv /\ [Next]_vars => Inv'
<1> SUFFICES ASSUME DeliveryAssumption, Inv, [Next]_vars PROVE Inv'
  OBVIOUS
<1>0. TypeOK /\ TypeOK'
  BY TypeStep DEF Inv
<1>1. ASSUME NEW t \in Threads, NEW changed \in (SUBSET Paths) \ {{}}, NEW kept, Change(t, changed, kept)
      PROVE  Inv'
  <2>1. changed \in SUBSET Paths /\ changed # {}
    OBVIOUS
  <2>2. PICK C \in SUBSET Leaves : Wrote(t, C)
    BY <1>0, <1>1, <2>1, ChangeWrites
  <2> QED
    BY <1>0, <2>2, WroteStep
<1>2. ASSUME NEW t \in Threads, NEW path \in Paths, Delete(t, path) PROVE Inv'
  BY <1>0, <1>2, DeleteWrites, WroteStep
<1>3. ASSUME NEW t \in Threads, NEW ps, Joined(t, ps) PROVE Inv'
  BY <1>0, <1>3, JoinedBounds, JoinedServer, JoinedLeaves DEF Inv
<1>4. ASSUME NEW t \in Threads, Dispatch(t) PROVE Inv'
  <2>1. Joined(t, Watched)
    BY <1>4 DEF Dispatch, Joined
  <2> QED
    BY <1>3, <2>1
<1>5. ASSUME EnqueueReplay PROVE Inv'
  <2>1. Commands \in Threads /\ Joined(Commands, Paths)
    BY <1>5 DEF EnqueueReplay, Joined, DeliveryAssumption
  <2> QED
    BY <1>3, <2>1
<1>6. ASSUME OnStateChanged PROVE Inv'
  BY <1>0, <1>6, HandledBounds, HandledLeaves DEF Inv
<1> QED
  BY <1>0, <1>1, <1>2, <1>4, <1>5, <1>6, SubscribeStep, ReplayPairsStep, ReplayRevisionStep,
     FlushStep, PollStep, QuietStep DEF Next

\* ... so it holds throughout.
LEMMA DeliveryInv == Spec => []Inv
<1>1. Init => Inv
  BY DeliveryInit, DeliveryAssumption
<1>2. Inv /\ [Next]_vars => Inv'
  BY DeliveryNext, DeliveryAssumption
<1> QED
  BY <1>1, <1>2, PTL DEF Spec

\* Every state of the tree, the dispatcher, the queue and the subscriber's
\* proxy is of its type: the values come from writes, the revisions from the
\* tree's counter, and the queue is never longer than its capacity.
THEOREM DeliveryTypeCorrect == Spec => []TypeOK
<1>1. Inv => TypeOK
  BY DEF Inv
<1> QED
  BY <1>1, DeliveryInv, PTL

\* StateProxy._last_revision is an honest claim at every moment, traffic under
\* way or not and envelopes refused by the queue or not: a cached leaf that was
\* last written at or before that revision has the tree's value.  Left out are
\* subscribers that have found a gap or whose first envelope was lost, deltas
\* that were or are about to be buffered too late, and leaves last changed
\* through a node above them.
THEOREM RevisionStaysHonest == Spec => []RevisionIsHonest
<1>1. ASSUME Inv PROVE RevisionIsHonest
  <2> SUFFICES ASSUME ~noticed /\ ~baseLost /\ InOrder, NEW p \in Leaves \ pruned,
                      cache[p] # Absent /\ store[p] # Absent /\ store[p] <= last
               PROVE  Current(p)
    BY DEF RevisionIsHonest
  <2>1. Honest(p)
    BY <1>1 DEF Inv, LeafOK, Sound
  <2> QED
    BY <2>1 DEF Honest, Current
<1> QED
  BY <1>1, DeliveryInv, PTL

\* What does not arrive is noticed: with nothing under way between the tree,
\* the dispatcher, the queue and the proxy, every leaf the subscriber watches
\* has the tree's value in its copy, unless the subscriber has found a gap or
\* one of four things nobody notices has happened: the envelope that would
\* have set its base was lost, deltas were buffered too late, the last
\* envelopes sent were refused and none has followed, or the leaf was last
\* changed through a node above it.  So an envelope the full queue evicts, or
\* refuses before another one gets through, always shows as a gap.
THEOREM DivergenceIsNoticed == Spec => []NoSilentDivergence
<1>1. ASSUME Inv, DeliveryAssumption PROVE NoSilentDivergence
  <2> SUFFICES ASSUME Quiet, ~noticed /\ ~baseLost /\ ~late /\ ~(refused > last),
                      NEW p \in (Watched \intersect Leaves) \ pruned
               PROVE  Current(p)
    BY DEF NoSilentDivergence
  <2>1. \A t \in Threads : phase[t] = "idle"
    BY DEF Quiet
  <2>2. InFlight = {} /\ buffer = <<>>
    BY DEF Quiet, InFlight
  <2>3. \A q, v, n : ~InHand(q, v, n) /\ ~Carried(q, v, n) /\ ~Pending(q, v, n)
    BY <2>1, <2>2 DEF InHand, Carried, Holds, Pending
  <2>4. \A n \in Revisions : ~Lost(n)
    <3>1. refused \in Int /\ last \in Int /\ \A n \in Revisions : n \in Int
      BY <1>1, NumberFacts DEF Inv
    <3> QED
      BY <2>2, <3>1 DEF Lost
  <2>5. ~Awaiting(p)
    BY <1>1, <2>1 DEF Awaiting, Snapshot, DeliveryAssumption
  <2>6. Sound
    BY <2>1 DEF Sound, InOrder
  <2>7. LeafOK(p) /\ TypeOK /\ Undispatched /\ Unwatched /\ Bounded
    BY <1>1, <2>6 DEF Inv
  <2>8. /\ store[p] \in Int /\ cache[p] \in Int /\ last \in Int /\ known \in Int /\ known >= -1 /\ last >= -1
        /\ store[p] >= -1 /\ cache[p] >= -1 /\ Absent = -1 /\ NoBase = -1 /\ last <= known
    BY <1>1, <2>7, NumberFacts DEF Bounded
  <2>9. CASE store[p] # Absent /\ cache[p] # Absent
    <3>1. store[p] \in Revisions
      BY <1>1, <2>7, <2>9, NumberFacts DEF TypeOK
    <3>2. store[p] <= last
      BY <2>3, <2>4, <2>7, <2>8, <2>9, <3>1 DEF LeafOK, Reaching
    <3> QED
      BY <2>7, <2>9, <3>2 DEF LeafOK, Honest, Current
  <2>10. CASE store[p] # Absent /\ cache[p] = Absent
    BY <2>3, <2>4, <2>5, <2>7, <2>10 DEF LeafOK, Arriving
  <2>11. CASE store[p] = Absent
    BY <2>3, <2>4, <2>7, <2>11 DEF LeafOK, Vanishing, Current
  <2> QED
    BY <2>9, <2>10, <2>11
<1> QED
  BY <1>1, DeliveryAssumption, DeliveryInv, PTL
=============================================================================
