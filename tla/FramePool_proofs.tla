-------------------------- MODULE FramePool_proofs --------------------------
(***************************************************************************)
(* Proofs about FramePool for every set of readers, every sending order,   *)
(* every ring and queue size and every number of faults, reallocations,    *)
(* deaths and restarts.                                                    *)
(*                                                                         *)
(* LedgerConsistent is not inductive: commit sets a full count and does    *)
(* not touch `released`, so the slot it commits must have been settled.    *)
(* SrcShape says so: the slot under the writer's hands was free when it    *)
(* was acquired, and nobody can return what is not lent.  SettlingShape    *)
(* says that the slot the message processor is settling is still free,     *)
(* unless its commit came in between.                                      *)
(***************************************************************************)
EXTENDS FramePool, FiniteSetTheorems, TLAPS

\* What the writer holds between its steps.
SrcShape ==
    /\ src.at # "idle" => src.todo # <<>>
    /\ src.at = "write" => src.slot \in Slots /\ refcount[src.slot] = 0

\* What the message processor holds between its steps.
SettlingShape == settling \in Slots \ raced => refcount[settling] = 0

PoolInv == TypeOK /\ SrcShape /\ LedgerConsistent /\ SettlingShape

\* TypeOK in parts, after the processes that change them.
LedgerType ==
    /\ refcount \in [Slots -> 0 .. Cardinality(Readers)]
    /\ reserved \in [Slots -> BOOLEAN]
    /\ released \in [Slots -> SUBSET Readers]
    /\ cursor \in Slots
    /\ settling \in Slots \union {NoSlot} /\ raced \subseteq Slots

MemoryType ==
    /\ ring \in Rings
    /\ gen \in [Rings -> [Slots -> Nat]]
    /\ pixels \in [Rings -> [Slots -> Frames]]

SrcType ==
    src \in [at : {"idle", "strip", "write", "put"}, frame : Frames,
             slot : Slots \union {NoSlot}, todo : Seq(Readers)]

ReaderType ==
    /\ dataq \in [Readers -> Seq(Coords)]
    /\ views \in [Readers -> Seq(View)]
    /\ tickets \in [Readers -> Seq(Ticket)]
    /\ status \in [Readers -> {"up", "dead", "noticed"}]
    /\ crashed \subseteq Readers

MailType ==
    /\ inbox \in Seq(Ticket)
    /\ faults \in [writes : 0 .. MaxFaults, crashes : 0 .. MaxCrashes,
                   restarts : 0 .. MaxRestarts]

LEMMA TypeParts ==
    TypeOK <=> LedgerType /\ MemoryType /\ SrcType /\ ReaderType /\ MailType
BY DEF TypeOK, LedgerType, MemoryType, SrcType, ReaderType, MailType

LEMMA TypePartsNext ==
    TypeOK' <=> LedgerType' /\ MemoryType' /\ SrcType' /\ ReaderType' /\ MailType'
BY DEF TypeOK, LedgerType, MemoryType, SrcType, ReaderType, MailType

-----------------------------------------------------------------------------
(* Facts about the constants, sequences and cardinalities.                 *)

LEMMA SlotFacts ==
    /\ 0 \in Slots /\ Slots \subseteq Nat /\ 1 % Depth \in Slots
    /\ \A s \in Slots : (s + 1) % Depth \in Slots
    /\ NoSlot \notin Slots
    /\ MaxFaults \in Nat /\ MaxCrashes \in Nat /\ MaxRestarts \in Nat
    /\ 0 \in Rings /\ Rings \subseteq Nat
    /\ \A k \in Rings : k < MaxReallocs => k + 1 \in Rings
    /\ 0 \in Frames /\ Frames \subseteq Nat
    /\ \A f \in Frames : f < MaxFrames => f + 1 \in Frames
BY PoolAssumption DEF Slots, Rings, Frames

LEMMA ReadersCount == Cardinality(Readers) \in Nat
BY PoolAssumption, FS_CardinalityType

LEMMA CountFacts ==
    /\ \A R \in SUBSET Readers :
           /\ IsFiniteSet(R) /\ Cardinality(R) \in Nat
           /\ \A r \in Readers \ R : Cardinality(R \union {r}) = Cardinality(R) + 1
    /\ Cardinality({}) = 0
<1>1. IsFiniteSet(Readers)
  BY PoolAssumption
<1>2. ASSUME NEW R \in SUBSET Readers
      PROVE  /\ IsFiniteSet(R) /\ Cardinality(R) \in Nat
             /\ \A r \in Readers \ R : Cardinality(R \union {r}) = Cardinality(R) + 1
  <2>1. IsFiniteSet(R)
    BY <1>1, FS_Subset
  <2>2. Cardinality(R) \in Nat
    BY <2>1, FS_CardinalityType
  <2>3. ASSUME NEW r \in Readers \ R
        PROVE  Cardinality(R \union {r}) = Cardinality(R) + 1
    BY <2>1, <2>3, FS_AddElement
  <2> QED
    BY <2>1, <2>2, <2>3
<1> QED
  BY <1>1, <1>2, FS_EmptySet

LEMMA HeadOfSeq ==
    ASSUME NEW T, NEW q \in Seq(T), q # <<>>
    PROVE  Head(q) \in T /\ Tail(q) \in Seq(T)
OBVIOUS

LEMMA SeqOfSubset ==
    ASSUME NEW S, NEW T, S \subseteq T, NEW q \in Seq(S)
    PROVE  q \in Seq(T)
OBVIOUS

LEMMA TailNotEmpty ==
    ASSUME NEW T, NEW q \in Seq(T), q # <<>>, Len(q) # 1
    PROVE  Tail(q) # <<>>
<1>1. Len(q) \in Nat /\ Len(q) # 0
  OBVIOUS
<1>2. Len(Tail(q)) = Len(q) - 1
  BY <1>1
<1>3. Len(Tail(q)) # 0
  BY <1>1, <1>2
<1>4. Len(<<>>) = 0
  OBVIOUS
<1> QED
  BY <1>3, <1>4, Zenon

-----------------------------------------------------------------------------
(* The writer's next item, and the send loop.                              *)

\* SendRest moves on to the next target, or ends the item.
LEMMA SendRestShape ==
    ASSUME SrcType, src.todo # <<>>, SendRest
    PROVE  /\ SrcType'
           /\ src'.at \in {"idle", "strip", "put"}
           /\ src'.at # "idle" => src'.todo # <<>>
<1>1. src.todo \in Seq(Readers)
  BY DEF SrcType
<1>2. Tail(src.todo) \in Seq(Readers)
  BY <1>1, HeadOfSeq
<1>3. Len(src.todo) # 1 => Tail(src.todo) # <<>>
  BY <1>1, TailNotEmpty
<1>4. src' = [at |-> IF Len(src.todo) = 1 THEN "idle"
                     ELSE IF src.slot = NoSlot THEN "strip" ELSE "put",
              frame |-> src.frame, slot |-> src.slot, todo |-> Tail(src.todo)]
  BY DEF SendRest, SrcType
<1>5. SrcType'
  BY <1>2, <1>4 DEF SrcType
<1>6. /\ src'.at \in {"idle", "strip", "put"}
      /\ src'.at # "idle" => src'.todo # <<>>
  BY <1>3, <1>4
<1> QED
  BY <1>5, <1>6

LEMMA SourceStep ==
    ASSUME PoolInv, Source PROVE PoolInv'
<1> USE DEF PoolInv
<1>t. LedgerType /\ MemoryType /\ SrcType /\ ReaderType /\ MailType
  BY TypeParts
<1>1. CASE Produce
  <2>1. SrcType' /\ src'.at = "strip" /\ src'.todo # <<>>
    BY <1>t, <1>1, SlotFacts, PoolAssumption DEF Produce, SrcType
  <2>2. LedgerType' /\ MemoryType' /\ ReaderType' /\ MailType' /\ LedgerConsistent'
                 /\ SettlingShape'
    BY <1>t, <1>1 DEF Produce, LedgerType, MemoryType, ReaderType, MailType,
       LedgerConsistent, SettlingShape, ledger, memory, reader
  <2> QED
    BY <2>1, <2>2, TypePartsNext DEF SrcShape
<1>2. CASE Exhausted
  <2>1. SrcType' /\ src'.at \in {"idle", "strip", "put"}
                 /\ (src'.at # "idle" => src'.todo # <<>>)
    BY <1>t, <1>2, SendRestShape DEF Exhausted, SrcShape
  <2>2. LedgerType' /\ MemoryType' /\ ReaderType' /\ MailType' /\ LedgerConsistent'
                 /\ SettlingShape'
    BY <1>t, <1>2 DEF Exhausted, LedgerType, MemoryType, ReaderType, MailType,
       LedgerConsistent, SettlingShape, ledger, memory, reader
  <2> QED
    BY <2>1, <2>2, TypePartsNext DEF SrcShape
<1>3. CASE Reallocate
  <2>1. SrcType' /\ src'.slot = 0 /\ src'.todo = src.todo /\ src.at = "strip"
    BY <1>t, <1>3, SlotFacts DEF Reallocate, SrcType
  <2>2. MemoryType' /\ ReaderType' /\ MailType'
    BY <1>t, <1>3, SlotFacts DEF Reallocate, MemoryType, ReaderType, MailType, reader
  <2>3. LedgerType' /\ refcount' = [s \in Slots |-> 0]
    BY <1>t, <1>3, SlotFacts, ReadersCount DEF Reallocate, LedgerType
  <2>4. LedgerConsistent' /\ SettlingShape'
    BY <1>3, <2>3 DEF Reallocate, LedgerConsistent, SettlingShape
  <2>5. SrcShape'
    BY <2>1, <2>3, SlotFacts DEF SrcShape
  <2> QED
    BY <2>1, <2>2, <2>3, <2>4, <2>5, TypePartsNext
<1>4. CASE Commit
  <2>1. src.slot \in Slots /\ refcount[src.slot] = 0 /\ src.todo # <<>>
        /\ (src.slot \in raced' \/ released[src.slot] = {})
    BY <1>4 DEF Commit, SrcShape, LedgerConsistent
  <2>2. SrcType' /\ src'.at = "put" /\ src'.todo = src.todo
    BY <1>t, <1>4 DEF Commit, SrcType
  <2>3. MemoryType' /\ ReaderType' /\ MailType'
    <3>1. gen' \in [Rings -> [Slots -> Nat]]
      BY <1>t, <1>4, <2>1 DEF Commit, MemoryType
    <3>2. pixels' \in [Rings -> [Slots -> Frames]]
      BY <1>t, <1>4 DEF Commit, MemoryType, SrcType
    <3> QED
      BY <1>t, <1>4, <3>1, <3>2 DEF Commit, MemoryType, ReaderType, MailType, reader
  <2>4. LedgerType'
    <3>1. Cardinality(Readers) \in 0 .. Cardinality(Readers)
      BY ReadersCount
    <3>2. refcount' \in [Slots -> 0 .. Cardinality(Readers)]
      BY <1>t, <1>4, <2>1, <3>1 DEF Commit, LedgerType
    <3>3. raced' \subseteq Slots
      BY <1>t, <1>4, <2>1 DEF Commit, LedgerType
    <3> QED
      BY <1>t, <1>4, <3>2, <3>3 DEF Commit, LedgerType
  <2>5. LedgerConsistent'
    <3> SUFFICES ASSUME NEW s \in Slots \ raced'
                 PROVE  IF refcount'[s] = 0 THEN released'[s] = {} \/ settling' = s
                        ELSE refcount'[s] + Cardinality(released'[s]) = Cardinality(Readers)
      BY DEF LedgerConsistent
    <3>1. CASE s = src.slot
      <4>1. refcount'[s] = Cardinality(Readers) /\ released'[s] = {}
        BY <1>t, <1>4, <2>1, <3>1 DEF Commit, LedgerType
      <4> QED
        BY <4>1, ReadersCount, FS_EmptySet
    <3>2. CASE s # src.slot
      BY <1>t, <1>4, <3>2 DEF Commit, LedgerConsistent, LedgerType
    <3> QED
      BY <3>1, <3>2
  <2>6. SettlingShape'
    BY <1>t, <1>4 DEF Commit, SettlingShape, LedgerType
  <2> QED
    BY <2>1, <2>2, <2>3, <2>4, <2>5, <2>6, TypePartsNext DEF SrcShape
<1>5. CASE Abort
  <2>1. SrcType' /\ src'.at = "put" /\ src'.todo = src.todo
                 /\ src.slot \in Slots /\ src.todo # <<>>
    BY <1>t, <1>5 DEF Abort, SrcType, SrcShape
  <2>2. MemoryType' /\ ReaderType' /\ MailType'
    <3>1. gen' \in [Rings -> [Slots -> Nat]]
      BY <1>t, <1>5, <2>1 DEF Abort, MemoryType
    <3>2. pixels' \in [Rings -> [Slots -> Frames]]
      BY <1>t, <1>5, SlotFacts DEF Abort, MemoryType
    <3>3. MailType'
      BY <1>t, <1>5, SlotFacts DEF Abort, MailType
    <3> QED
      BY <1>t, <1>5, <3>1, <3>2, <3>3 DEF Abort, MemoryType, ReaderType, reader
  <2>3. LedgerType' /\ LedgerConsistent' /\ SettlingShape'
    BY <1>t, <1>5 DEF Abort, LedgerType, LedgerConsistent, SettlingShape
  <2> QED
    BY <2>1, <2>2, <2>3, TypePartsNext DEF SrcShape
<1>6. CASE Deliver
  <2> DEFINE r   == Head(src.todo)
             msg == [frame |-> src.frame, slot |-> src.slot, ring |-> ring]
             lost == Eviction(Head(dataq[r]), r)
  <2>1. src.at = "put" /\ src.todo # <<>> /\ SendRest
    BY <1>6 DEF Deliver, SrcShape
  <2>2. r \in Readers
    BY <1>t, <2>1, HeadOfSeq DEF SrcType
  <2>3. msg \in Coords
    BY <1>t DEF SrcType, MemoryType, Coords
  <2>4. dataq[r] \in Seq(Coords)
    BY <1>t, <2>2 DEF ReaderType
  <2>5. SrcType' /\ src'.at \in {"idle", "strip", "put"}
                 /\ (src'.at # "idle" => src'.todo # <<>>)
    BY <1>t, <2>1, SendRestShape
  <2>6. LedgerType' /\ MemoryType' /\ LedgerConsistent' /\ SettlingShape'
    BY <1>t, <1>6 DEF Deliver, LedgerType, MemoryType, LedgerConsistent,
       SettlingShape, ledger, memory
  <2>7. ReaderType' /\ MailType'
    <3> DEFINE Room  == /\ dataq' = [dataq EXCEPT ![r] = Append(dataq[r], msg)]
                        /\ inbox' = inbox
               Evict == /\ Len(dataq[r]) >= QueueCap
                        /\ dataq' = [dataq EXCEPT ![r] = Append(Tail(dataq[r]), msg)]
                        /\ \/ inbox' = inbox
                           \/ Head(dataq[r]).slot # NoSlot /\ inbox' = inbox \o <<lost>>
               Lose  == UNCHANGED <<dataq, inbox>>
    <3>1. (Room \/ Evict \/ Lose) /\ UNCHANGED <<views, tickets, status, crashed, faults>>
      BY <1>6 DEF Deliver, SendMail
    <3>2. CASE Room
      <4>1. Append(dataq[r], msg) \in Seq(Coords)
        BY <2>3, <2>4
      <4> HIDE DEF r, msg
      <4> QED
        BY <1>t, <2>2, <3>1, <3>2, <4>1 DEF ReaderType, MailType
    <3>3. CASE Evict
      <4>1. dataq[r] # <<>>
        BY <2>4, <3>3, PoolAssumption
      <4>2. Head(dataq[r]) \in Coords /\ Tail(dataq[r]) \in Seq(Coords)
        BY <2>4, <4>1, HeadOfSeq
      <4>3. Append(Tail(dataq[r]), msg) \in Seq(Coords)
        BY <2>3, <4>2
      <4>4. Head(dataq[r]).slot # NoSlot => lost \in Ticket
        BY <2>2, <4>2 DEF Eviction, Ticket, Coords
      <4>5. inbox' \in Seq(Ticket)
        <5>1. inbox \in Seq(Ticket)
          BY <1>t DEF MailType
        <5>2. inbox' = inbox \/ (lost \in Ticket /\ inbox' = inbox \o <<lost>>)
          BY <3>3, <4>4
        <5> HIDE DEF lost, Ticket
        <5>3. lost \in Ticket => inbox \o <<lost>> \in Seq(Ticket)
          BY <5>1
        <5> QED
          BY <5>1, <5>2, <5>3
      <4>6. dataq' \in [Readers -> Seq(Coords)]
        <5> HIDE DEF r, msg, lost
        <5> QED
          BY <1>t, <2>2, <3>3, <4>3 DEF ReaderType
      <4> QED
        BY <1>t, <3>1, <4>5, <4>6 DEF ReaderType, MailType
    <3>4. CASE Lose
      BY <1>t, <3>1, <3>4 DEF ReaderType, MailType
    <3> QED
      BY <3>1, <3>2, <3>3, <3>4
  <2> QED
    BY <2>5, <2>6, <2>7, TypePartsNext DEF SrcShape
<1>7. ASSUME NEW s \in Slots, Acquire(s) PROVE PoolInv'
  <2>1. SrcType' /\ src'.slot = s /\ src'.todo = src.todo /\ src.at = "strip"
    BY <1>t, <1>7 DEF Acquire, SrcType
  <2>2. MemoryType' /\ ReaderType' /\ MailType' /\ LedgerConsistent'
                 /\ SettlingShape'
    BY <1>t, <1>7 DEF Acquire, MemoryType, ReaderType, MailType, LedgerConsistent,
       SettlingShape, memory, reader
  <2>3. LedgerType' /\ refcount'[s] = 0
    BY <1>t, <1>7, SlotFacts DEF Acquire, FirstFree, Free, LedgerType
  <2> QED
    BY <2>1, <2>2, <2>3, TypePartsNext DEF SrcShape
<1> QED
  BY <1>1, <1>2, <1>3, <1>4, <1>5, <1>6, <1>7 DEF Source

-----------------------------------------------------------------------------
(* The owner's ledger.                                                     *)

\* One slot of the ledger when reader r gives its share of the loan back.
LEMMA ReturnKeepsCount ==
    ASSUME LedgerType, LedgerConsistent, NEW s \in Slots \ raced, NEW r \in Readers,
           refcount[s] > 0, r \notin released[s]
    PROVE  (refcount[s] - 1) + Cardinality(released[s] \union {r})
               = Cardinality(Readers)
<1>1. refcount[s] \in Nat
  BY ReadersCount DEF LedgerType
<1>2. Cardinality(released[s] \union {r}) = Cardinality(released[s]) + 1
      /\ Cardinality(released[s]) \in Nat
  <2>1. released[s] \in SUBSET Readers
    BY DEF LedgerType
  <2> QED
    BY <2>1, CountFacts
<1>3. refcount[s] + Cardinality(released[s]) = Cardinality(Readers)
  BY DEF LedgerConsistent
<1> QED
  BY <1>1, <1>2, <1>3

\* A ticket, or one slot of a reclaim, takes one share back.
LEMMA HandleStep ==
    ASSUME PoolInv, OwnerHandle PROVE PoolInv'
<1> USE DEF PoolInv
<1>t. LedgerType /\ MemoryType /\ SrcType /\ ReaderType /\ MailType
  BY TypeParts
<1> DEFINE m == Head(inbox)
<1>1. m \in Ticket /\ Tail(inbox) \in Seq(Ticket)
  BY <1>t, HeadOfSeq DEF OwnerHandle, MailType
<1>2. MemoryType' /\ SrcType' /\ ReaderType' /\ MailType'
  BY <1>t, <1>1 DEF OwnerHandle, MemoryType, SrcType, ReaderType, MailType,
     memory, reader
<1>3. CASE ~ Counts(m)
  <2>1. UNCHANGED <<refcount, released, settling, raced, reserved, cursor, src>>
    BY <1>3 DEF OwnerHandle
  <2>2. LedgerType' /\ LedgerConsistent' /\ SettlingShape' /\ SrcShape'
    BY <1>t, <2>1 DEF LedgerType, LedgerConsistent, SettlingShape, SrcShape
  <2> QED
    BY <1>2, <2>2, TypePartsNext
<1>4. CASE Counts(m)
  <2> DEFINE s == m.slot
             r == m.reader
  <2>1. s \in Slots /\ r \in Readers /\ settling = NoSlot
    BY <1>1 DEF Ticket, OwnerHandle
  <2>2. Return(s, r) /\ refcount[s] > 0 /\ r \notin released[s]
        /\ UNCHANGED <<raced, reserved, cursor, src>>
    BY <1>4 DEF OwnerHandle, Counts
  <2> HIDE DEF m, s, r
  <2>3. refcount[s] \in Nat \ {0} /\ refcount[s] - 1 \in 0 .. Cardinality(Readers)
    BY <1>t, <2>1, <2>2, ReadersCount DEF LedgerType
  <2>4. /\ refcount' = [refcount EXCEPT ![s] = refcount[s] - 1]
        /\ released' = [released EXCEPT ![s] = released[s] \union {r}]
        /\ settling' = IF refcount[s] = 1 THEN s ELSE NoSlot
    BY <2>2 DEF Return
  <2>5. LedgerType'
    BY <1>t, <2>1, <2>2, <2>3, <2>4 DEF LedgerType
  <2>6. SettlingShape'
    BY <1>t, <2>1, <2>3, <2>4, SlotFacts DEF SettlingShape, LedgerType
  <2>7. SrcShape'
    <3>1. ASSUME NEW t \in Slots, refcount[t] = 0 PROVE refcount'[t] = 0
      BY <1>t, <2>2, <2>4, <3>1 DEF LedgerType
    <3> QED
      BY <2>2, <3>1 DEF SrcShape
  <2>8. LedgerConsistent'
    <3> SUFFICES ASSUME NEW t \in Slots \ raced
                 PROVE  IF refcount'[t] = 0 THEN released'[t] = {} \/ settling' = t
                        ELSE refcount'[t] + Cardinality(released'[t])
                                 = Cardinality(Readers)
      BY <2>2 DEF LedgerConsistent
    <3>1. CASE t = s
      <4>1. refcount'[t] = refcount[s] - 1 /\ released'[t] = released[s] \union {r}
        BY <1>t, <2>1, <2>4, <3>1 DEF LedgerType
      <4>2. refcount'[t] + Cardinality(released'[t]) = Cardinality(Readers)
        BY <2>1, <2>2, <3>1, <4>1, <1>t, ReturnKeepsCount
      <4>3. refcount'[t] = 0 => settling' = t
        BY <2>3, <2>4, <3>1, <4>1
      <4> QED
        BY <4>2, <4>3
    <3>2. CASE t # s
      <4>1. refcount'[t] = refcount[t] /\ released'[t] = released[t]
        BY <1>t, <2>1, <2>4, <3>2 DEF LedgerType
      <4>2. settling # t
        BY <2>1, SlotFacts
      <4> QED
        BY <4>1, <4>2 DEF LedgerConsistent
    <3> QED
      BY <3>1, <3>2
  <2> QED
    BY <1>2, <2>5, <2>6, <2>7, <2>8, TypePartsNext
<1> QED
  BY <1>3, <1>4

\* The end of a return: on a slot that was not committed in between, it only
\* clears the readers.
LEMMA SettleStep ==
    ASSUME PoolInv, Settle PROVE PoolInv'
<1> USE DEF PoolInv
<1>t. LedgerType /\ MemoryType /\ SrcType /\ ReaderType /\ MailType
  BY TypeParts
<1> DEFINE s == settling
<1>1. s \in Slots /\ settling' = NoSlot
      /\ UNCHANGED <<raced, reserved, cursor, src, memory, reader, inbox, faults>>
  BY <1>t DEF Settle, LedgerType
<1>2. /\ refcount' \in {refcount, [refcount EXCEPT ![s] = 0]}
      /\ released' \in {released, [released EXCEPT ![s] = {}]}
  BY DEF Settle
<1>3. s \notin raced => released'[s] = {} /\ refcount'[s] = 0
  BY <1>t, <1>1 DEF Settle, SettlingShape, LedgerType
<1> HIDE DEF s
<1>4. \A t \in Slots \ {s} : refcount'[t] = refcount[t] /\ released'[t] = released[t]
  BY <1>t, <1>2 DEF LedgerType
<1>5. LedgerType'
  BY <1>t, <1>1, <1>2, ReadersCount DEF LedgerType
<1>6. MemoryType' /\ SrcType' /\ ReaderType' /\ MailType'
  BY <1>t, <1>1 DEF MemoryType, SrcType, ReaderType, MailType, memory, reader
<1>7. SettlingShape'
  BY <1>1, SlotFacts DEF SettlingShape
<1>8. SrcShape'
  <2>1. ASSUME NEW t \in Slots, refcount[t] = 0 PROVE refcount'[t] = 0
    BY <1>t, <1>2, <2>1 DEF LedgerType
  <2> QED
    BY <1>1, <2>1 DEF SrcShape
<1>9. LedgerConsistent'
  <2> SUFFICES ASSUME NEW t \in Slots \ raced
               PROVE  IF refcount'[t] = 0 THEN released'[t] = {} \/ settling' = t
                      ELSE refcount'[t] + Cardinality(released'[t])
                               = Cardinality(Readers)
    BY <1>1 DEF LedgerConsistent
  <2>1. CASE t = s
    BY <1>3, <2>1
  <2>2. CASE t # s
    BY <1>4, <2>2 DEF LedgerConsistent, s
  <2> QED
    BY <2>1, <2>2
<1> QED
  BY <1>5, <1>6, <1>7, <1>8, <1>9, TypePartsNext

-----------------------------------------------------------------------------
(* The readers leave the ledger, the ring and the writer alone.            *)

LEMMA ReclaimType ==
    ASSUME NEW r \in Readers
    PROVE  /\ Reclaim(r) \in Seq(Ticket)
           /\ \A i \in DOMAIN Reclaim(r) : Reclaim(r)[i].reader = r
<1>1. \A i \in 1 .. Depth : i - 1 \in Slots
  BY PoolAssumption DEF Slots
<1>2. \A i \in 1 .. Depth :
          [kind |-> "reclaim", slot |-> i - 1, gen |-> 0, reader |-> r] \in Ticket
  BY <1>1 DEF Ticket
<1> HIDE DEF Ticket
<1> QED
  BY <1>2, PoolAssumption DEF Reclaim

LEMMA ReaderStep ==
    ASSUME PoolInv, NEW r \in Readers, Reader(r) PROVE PoolInv'
<1> USE DEF PoolInv
<1>t. LedgerType /\ MemoryType /\ SrcType /\ ReaderType /\ MailType
  BY TypeParts
<1>s. /\ dataq[r] \in Seq(Coords) /\ views[r] \in Seq(View)
      /\ tickets[r] \in Seq(Ticket) /\ inbox \in Seq(Ticket)
      /\ tickets[r] \in Seq(Ticket) /\ <<>> \in Seq(Ticket)
      /\ <<>> \in Seq(View) /\ <<>> \in Seq(Coords)
  <2>1. tickets[r] \in Seq(Ticket)
    BY <1>t DEF ReaderType
  <2> QED
    BY <1>t, <2>1 DEF ReaderType, MailType
<1>1. UNCHANGED <<ledger, memory, src>>
  BY DEF Reader, Works, Take, TakeNoView, Finish, IdleFlush, Crash, Notice,
     Restart, Replace
<1>2. LedgerType' /\ MemoryType' /\ SrcType' /\ SrcShape' /\ LedgerConsistent'
      /\ SettlingShape'
  BY <1>t, <1>1 DEF LedgerType, MemoryType, SrcType, SrcShape, LedgerConsistent,
     SettlingShape, ledger, memory
<1>3. ReaderType' /\ MailType'
  <2>1. CASE Take(r)
    <3> DEFINE msg == Head(dataq[r])
               view == [frame |-> msg.frame, slot |-> msg.slot, ring |-> msg.ring,
                        gen |-> gen[msg.ring][msg.slot],
                        pixels |-> pixels[msg.ring][msg.slot]]
    <3>1. msg \in Coords /\ Tail(dataq[r]) \in Seq(Coords)
      BY <1>s, <2>1, HeadOfSeq DEF Take
    <3>2. msg.frame \in Frames /\ msg.slot \in Slots /\ msg.ring \in Rings
      BY <2>1, <3>1 DEF Take, Readable, Coords
    <3>3. view \in View
      BY <1>t, <3>2 DEF MemoryType, View
    <3>4. Append(views[r], view) \in Seq(View)
      BY <1>s, <3>3
    <3>5. /\ dataq' = [dataq EXCEPT ![r] = Tail(dataq[r])]
          /\ views' = [views EXCEPT ![r] = Append(views[r], view)]
          /\ UNCHANGED <<inbox, tickets, status, faults, crashed>>
      BY <2>1 DEF Take
    <3> HIDE DEF msg, view
    <3> QED
      BY <1>t, <3>1, <3>4, <3>5 DEF ReaderType, MailType
  <2>2. CASE TakeNoView(r)
    <3>1. Tail(dataq[r]) \in Seq(Coords)
      BY <1>s, <2>2, HeadOfSeq DEF TakeNoView
    <3> QED
      BY <1>t, <2>2, <3>1 DEF TakeNoView, ReaderType, MailType
  <2>3. CASE Finish(r)
    <3> DEFINE v == Head(views[r])
               ticket == [kind |-> "release", slot |-> v.slot, gen |-> v.gen,
                          reader |-> r]
               batch == Append(tickets[r], ticket)
    <3>1. v \in View /\ Tail(views[r]) \in Seq(View)
      BY <1>s, <2>3, HeadOfSeq DEF Finish
    <3>2. ticket \in Ticket
      BY <3>1 DEF View, Ticket
    <3>3. batch \in Seq(Ticket)
      <4> HIDE DEF ticket
      <4> QED
        BY <1>s, <3>2
    <3>4. inbox \o batch \in Seq(Ticket)
      <4> HIDE DEF batch
      <4> QED
        BY <1>s, <3>3
    <3>5. /\ views' = [views EXCEPT ![r] = Tail(views[r])]
          /\ \/ tickets' = [tickets EXCEPT ![r] = <<>>]
             \/ tickets' = [tickets EXCEPT ![r] = batch]
          /\ inbox' = inbox \/ inbox' = inbox \o batch
          /\ UNCHANGED <<dataq, status, faults, crashed>>
      BY <2>3 DEF Finish, SendMail
    <3> HIDE DEF batch
    <3>6. tickets' \in [Readers -> Seq(Ticket)]
      BY <1>t, <1>s, <3>3, <3>5 DEF ReaderType
    <3>7. inbox' \in Seq(Ticket)
      BY <1>s, <3>4, <3>5
    <3> QED
      BY <1>t, <3>1, <3>5, <3>6, <3>7 DEF ReaderType, MailType
  <2>4. CASE IdleFlush(r) \/ Replace(r)
    <3>1. inbox \o tickets[r] \in Seq(Ticket)
      BY <1>s
    <3>2. faults' = faults \/ faults' = [faults EXCEPT !.restarts = @ + 1]
      BY <2>4 DEF IdleFlush, Replace
    <3>3. faults' \in [writes : 0 .. MaxFaults, crashes : 0 .. MaxCrashes,
                       restarts : 0 .. MaxRestarts]
      BY <1>t, <2>4, <3>2, SlotFacts DEF MailType, IdleFlush, Replace
    <3>4. inbox' = inbox \/ inbox' = inbox \o tickets[r]
      BY <2>4 DEF IdleFlush, Replace, SendMail
    <3>5. inbox' \in Seq(Ticket)
      BY <1>s, <3>1, <3>4
    <3>6. ReaderType'
      <4>1. /\ tickets' = [tickets EXCEPT ![r] = <<>>] /\ status' = status
            /\ views' = views \/ views' = [views EXCEPT ![r] = <<>>]
            /\ dataq' = dataq \/ dataq' = [dataq EXCEPT ![r] = <<>>]
            /\ crashed' = crashed \/ crashed' = crashed \union {r}
        BY <2>4 DEF IdleFlush, Replace
      <4>2. tickets' \in [Readers -> Seq(Ticket)]
        BY <1>t, <1>s, <4>1 DEF ReaderType
      <4>3. views' \in [Readers -> Seq(View)] /\ dataq' \in [Readers -> Seq(Coords)]
        BY <1>t, <1>s, <4>1 DEF ReaderType
      <4> QED
        BY <1>t, <4>1, <4>2, <4>3 DEF ReaderType
    <3> QED
      BY <3>3, <3>5, <3>6 DEF MailType
  <2>5. CASE Crash(r)
    <3>1. MailType'
      BY <1>t, <2>5, SlotFacts DEF Crash, MailType
    <3> QED
      BY <1>t, <1>s, <2>5, <3>1 DEF Crash, ReaderType
  <2>6. CASE Notice(r)
    <3>1. Reclaim(r) \in Seq(Ticket)
      BY ReclaimType
    <3>2. inbox' \in Seq(Ticket)
      <4>1. inbox' = inbox \/ inbox' = inbox \o Reclaim(r)
        BY <2>6 DEF Notice, SendMail
      <4>2. inbox \in Seq(Ticket)
        BY <1>s
      <4> HIDE DEF Ticket
      <4>3. inbox \o Reclaim(r) \in Seq(Ticket)
        BY <3>1, <4>2
      <4> QED
        BY <4>1, <4>2, <4>3
    <3> QED
      BY <1>t, <2>6, <3>2 DEF Notice, ReaderType, MailType
  <2>7. CASE Restart(r)
    BY <1>t, <1>s, <2>7 DEF Restart, ReaderType, MailType
  <2> QED
    BY <2>1, <2>2, <2>3, <2>4, <2>5, <2>6, <2>7 DEF Reader, Works
<1> QED
  BY <1>2, <1>3, TypePartsNext

-----------------------------------------------------------------------------
(* The theorems.                                                           *)

LEMMA PoolInit == Init => PoolInv
<1> SUFFICES ASSUME Init PROVE PoolInv
  OBVIOUS
<1> USE DEF Init
<1>1. LedgerType
  BY SlotFacts, ReadersCount DEF LedgerType
<1>2. MemoryType
  BY SlotFacts DEF MemoryType
<1>3. SrcType
  BY SlotFacts DEF SrcType
<1>4. ReaderType
  BY DEF ReaderType
<1>5. MailType
  BY SlotFacts DEF MailType
<1>6. SrcShape /\ LedgerConsistent /\ SettlingShape
  BY SlotFacts DEF SrcShape, LedgerConsistent, SettlingShape
<1> QED
  BY <1>1, <1>2, <1>3, <1>4, <1>5, <1>6, TypeParts DEF PoolInv

LEMMA PoolNext == PoolInv /\ [Next]_vars => PoolInv'
<1> SUFFICES ASSUME PoolInv, [Next]_vars PROVE PoolInv'
  OBVIOUS
<1>1. CASE Source
  BY <1>1, SourceStep
<1>2. CASE Owner
  BY <1>2, HandleStep, SettleStep DEF Owner
<1>3. ASSUME NEW r \in Readers, Reader(r) PROVE PoolInv'
  BY <1>3, ReaderStep
<1>4. CASE UNCHANGED vars
  BY <1>4 DEF vars, ledger, memory, reader, PoolInv, TypeOK, SrcShape,
     LedgerConsistent, SettlingShape, Ticket, View, Coords
<1> QED
  BY <1>1, <1>2, <1>3, <1>4 DEF Next

\* Every reachable state of the ring, the ledger, the queues and the readers is
\* well typed: in particular no release ever drives a count below zero.
THEOREM PoolTypeCorrect == Spec => []TypeOK
<1>1. PoolInv => TypeOK
  BY DEF PoolInv
<1> QED
  BY PoolInit, PoolNext, <1>1, PTL DEF Spec

\* The accounting of LoanLedger never loses count: with late, repeated, lost and
\* stale releases, evictions, reclaims and resets, a lent slot waits for
\* exactly the readers that have not returned it, unless the slot was committed
\* in the middle of a return.
THEOREM PoolLedgerConsistent == Spec => []LedgerConsistent
<1>1. PoolInv => LedgerConsistent
  BY DEF PoolInv
<1> QED
  BY PoolInit, PoolNext, <1>1, PTL DEF Spec

=============================================================================
