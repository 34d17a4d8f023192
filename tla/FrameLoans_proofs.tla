-------------------------- MODULE FrameLoans_proofs -------------------------
(***************************************************************************)
(* Proofs about who holds which slot of FramePool's ring.                  *)
(*                                                                         *)
(* A reader's loan of a slot is at exactly one place: about to be sent,    *)
(* in the data queue, in a view, in the reader's batch of tickets, or in   *)
(* the owner's mail.  That, and not the count alone, is what keeps a slot  *)
(* from being written over under a reader: the one ticket that can lower   *)
(* the count on the reader's behalf is the loan itself.  KeepsLoans says   *)
(* so of one reader, LoanInv of every reader that never died or was        *)
(* replaced, until the ring is reallocated or a commit races a settlement. *)
(***************************************************************************)
EXTENDS FramePool_proofs

\* The chain names no process twice: the owner counts the distinct targets and
\* sends to each element, so a repeated target would be sent a loan it shares.
TargetsOnce ==
    \A i, j \in DOMAIN Targets : Targets[i] = Targets[j] => i = j

-----------------------------------------------------------------------------
(* The slots that the elements of a sequence stand for.                    *)

Held(q, key) == {key[q[i]] : i \in DOMAIN q} \ {NoSlot}

Once(q, key) ==
    \A i, j \in DOMAIN q : key[q[i]] = key[q[j]] /\ key[q[i]] # NoSlot => i = j

CoordsKey  == [m \in Coords |-> m.slot]
ViewKey    == [v \in View |-> v.slot]
MailKey(r) == [m \in Ticket |-> IF m.kind # "reclaim" /\ m.reader = r
                              THEN m.slot ELSE NoSlot]

\* The places of reader r's loans.
Sent(r) == IF src.at = "put" /\ \E i \in DOMAIN src.todo : src.todo[i] = r
           THEN {src.slot} \ {NoSlot} ELSE {}
Queued(r)  == Held(dataq[r], CoordsKey)
Viewed(r)  == Held(views[r], ViewKey)
Batched(r) == Held(tickets[r], MailKey(r))
Mailed(r)  == Held(inbox, MailKey(r))

Load(r) == Sent(r) \union Queued(r) \union Viewed(r) \union Batched(r) \union Mailed(r)

\* Each place holds a slot once, and no two places hold the same slot.
OnceEach(r) ==
    /\ Once(dataq[r], CoordsKey) /\ Once(views[r], ViewKey)
    /\ Once(tickets[r], MailKey(r)) /\ Once(inbox, MailKey(r))

Apart(r) ==
    /\ Sent(r) \cap (Queued(r) \union Viewed(r) \union Batched(r) \union Mailed(r)) = {}
    /\ Queued(r) \cap (Viewed(r) \union Batched(r) \union Mailed(r)) = {}
    /\ Viewed(r) \cap (Batched(r) \union Mailed(r)) = {}
    /\ Batched(r) \cap Mailed(r) = {}

\* What r holds is lent, and r has not returned it.
Lent(r) == \A s \in Load(r) : s \in Slots /\ refcount[s] > 0 /\ r \notin released[s]

\* Messages, views and tickets speak of the frame that is in the slot.
Announced(m) ==
    m.ring = 0 /\ m.frame > 0 /\ (m.slot # NoSlot => pixels[0][m.slot] = m.frame)
Seen(v)      == v.ring = 0 /\ v.pixels = v.frame /\ v.gen = gen[0][v.slot]
Current(m)   == m.kind = "release" => m.gen = gen[0][m.slot]

DataFaithful(r)  == \A i \in DOMAIN dataq[r] : Announced(dataq[r][i])
ViewsFaithful(r) == \A i \in DOMAIN views[r] : Seen(views[r][i])
BatchFaithful(r) ==
    \A i \in DOMAIN tickets[r] :
        LET m == tickets[r][i] IN m.kind = "release" /\ m.reader = r /\ Current(m)
MailFaithful(r) ==
    \A i \in DOMAIN inbox :
        LET m == inbox[i] IN m.reader = r => m.kind # "reclaim" /\ Current(m)

Faithful(r) ==
    DataFaithful(r) /\ ViewsFaithful(r) /\ BatchFaithful(r) /\ MailFaithful(r)

KeepsLoans(r) ==
    status[r] = "up" /\ OnceEach(r) /\ Apart(r) /\ Lent(r) /\ Faithful(r)

\* The item the writer is sending.
ItemShape ==
    /\ \A i, j \in DOMAIN src.todo : src.todo[i] = src.todo[j] => i = j
    /\ src.at # "idle" => src.frame > 0
    /\ src.at = "strip" => src.slot = NoSlot
    /\ ring = 0 /\ src.at = "put" /\ src.slot # NoSlot => pixels[0][src.slot] = src.frame

\* Every ticket is its holder's, also of a reader that has died since.
OwnTickets ==
    \A r \in Readers : \A i \in DOMAIN tickets[r] :
        tickets[r][i].kind = "release" /\ tickets[r][i].reader = r

LoanInv ==
    /\ ItemShape /\ OwnTickets
    /\ ring = 0 /\ raced = {} => \A r \in Readers \ crashed : KeepsLoans(r)

\* Every slot that is lent is held by r.
AllHeld(r) == \A s \in Slots : refcount[s] > 0 => s \in Load(r)

-----------------------------------------------------------------------------
(* Facts about these sequences.                                            *)

LEMMA TailElements ==
    ASSUME NEW T, NEW q \in Seq(T), q # <<>>
    PROVE  /\ Len(q) \in Nat \ {0} /\ DOMAIN q = 1 .. Len(q)
           /\ Head(q) = q[1]
           /\ DOMAIN Tail(q) = 1 .. (Len(q) - 1)
           /\ \A i \in DOMAIN Tail(q) : i + 1 \in DOMAIN q /\ Tail(q)[i] = q[i + 1]
OBVIOUS

LEMMA ConcatElements ==
    ASSUME NEW T, NEW q \in Seq(T), NEW p \in Seq(T)
    PROVE  /\ Len(q) \in Nat /\ DOMAIN q = 1 .. Len(q)
           /\ Len(p) \in Nat /\ DOMAIN p = 1 .. Len(p)
           /\ DOMAIN (q \o p) = 1 .. (Len(q) + Len(p))
           /\ \A i \in DOMAIN q : (q \o p)[i] = q[i]
           /\ \A i \in DOMAIN p : (q \o p)[Len(q) + i] = p[i]
           /\ \A i \in DOMAIN (q \o p) :
                  \/ i \in DOMAIN q /\ (q \o p)[i] = q[i]
                  \/ i - Len(q) \in DOMAIN p /\ (q \o p)[i] = p[i - Len(q)]
OBVIOUS

LEMMA AppendElements ==
    ASSUME NEW T, NEW q \in Seq(T), NEW e \in T
    PROVE  \A i \in DOMAIN Append(q, e) :
               \/ Append(q, e)[i] = e
               \/ i \in DOMAIN q /\ Append(q, e)[i] = q[i]
OBVIOUS

\* Taking the first element takes its slot, and no other.
LEMMA HeldTail ==
    ASSUME NEW T, NEW q \in Seq(T), q # <<>>, NEW key, Once(q, key)
    PROVE  /\ Once(Tail(q), key)
           /\ Held(Tail(q), key) = Held(q, key) \ {key[Head(q)]}
           /\ key[Head(q)] # NoSlot => key[Head(q)] \in Held(q, key)
<1>1. /\ Len(q) \in Nat \ {0} /\ DOMAIN q = 1 .. Len(q)
      /\ Head(q) = q[1]
      /\ DOMAIN Tail(q) = 1 .. (Len(q) - 1)
      /\ \A i \in DOMAIN Tail(q) : i + 1 \in DOMAIN q /\ Tail(q)[i] = q[i + 1]
  BY TailElements
<1>2. Once(Tail(q), key)
  <2> SUFFICES ASSUME NEW i \in DOMAIN Tail(q), NEW j \in DOMAIN Tail(q),
                      key[Tail(q)[i]] = key[Tail(q)[j]], key[Tail(q)[i]] # NoSlot
               PROVE  i = j
    BY DEF Once
  <2>1. i + 1 = j + 1
    BY <1>1 DEF Once
  <2> QED
    BY <1>1, <2>1
<1>3. Held(Tail(q), key) \subseteq Held(q, key) \ {key[Head(q)]}
  <2> SUFFICES ASSUME NEW i \in DOMAIN Tail(q), key[Tail(q)[i]] # NoSlot
               PROVE  key[Tail(q)[i]] \in Held(q, key) \ {key[Head(q)]}
    BY DEF Held
  <2>1. i + 1 \in DOMAIN q /\ Tail(q)[i] = q[i + 1] /\ i + 1 # 1 /\ 1 \in DOMAIN q
    BY <1>1
  <2>2. key[q[i + 1]] # key[q[1]]
    BY <2>1 DEF Once
  <2> QED
    BY <1>1, <2>1, <2>2 DEF Held
<1>4. Held(q, key) \ {key[Head(q)]} \subseteq Held(Tail(q), key)
  <2> SUFFICES ASSUME NEW i \in DOMAIN q, key[q[i]] # NoSlot, key[q[i]] # key[q[1]]
               PROVE  key[q[i]] \in Held(Tail(q), key)
    BY <1>1 DEF Held
  <2>1. i # 1
    OBVIOUS
  <2>2. i - 1 \in DOMAIN Tail(q) /\ Tail(q)[i - 1] = q[i]
    BY <1>1, <2>1
  <2> QED
    BY <2>2 DEF Held
<1>5. key[Head(q)] # NoSlot => key[Head(q)] \in Held(q, key)
  <2>1. 1 \in DOMAIN q
    BY <1>1
  <2> QED
    BY <1>1, <2>1 DEF Held
<1> QED
  BY <1>2, <1>3, <1>4, <1>5

\* One sequence behind another: together they hold what each held.
LEMMA HeldConcat ==
    ASSUME NEW T, NEW q \in Seq(T), NEW p \in Seq(T), NEW key,
           Once(q, key), Once(p, key), Held(q, key) \cap Held(p, key) = {}
    PROVE  /\ Once(q \o p, key)
           /\ Held(q \o p, key) = Held(q, key) \union Held(p, key)
<1> DEFINE c == q \o p
<1>1. /\ Len(q) \in Nat /\ DOMAIN q = 1 .. Len(q)
      /\ Len(p) \in Nat /\ DOMAIN p = 1 .. Len(p)
      /\ DOMAIN c = 1 .. (Len(q) + Len(p))
      /\ \A i \in DOMAIN q : c[i] = q[i]
      /\ \A i \in DOMAIN p : c[Len(q) + i] = p[i]
      /\ \A i \in DOMAIN c :
             \/ i \in DOMAIN q /\ c[i] = q[i]
             \/ i - Len(q) \in DOMAIN p /\ c[i] = p[i - Len(q)]
  BY ConcatElements
<1> HIDE DEF c
<1>2. Once(c, key)
  <2> SUFFICES ASSUME NEW i \in DOMAIN c, NEW j \in DOMAIN c,
                      key[c[i]] = key[c[j]], key[c[i]] # NoSlot
               PROVE  i = j
    BY DEF Once
  <2>1. CASE i \in DOMAIN q /\ c[i] = q[i] /\ j \in DOMAIN q /\ c[j] = q[j]
    BY <2>1 DEF Once
  <2>2. CASE /\ i - Len(q) \in DOMAIN p /\ c[i] = p[i - Len(q)]
             /\ j - Len(q) \in DOMAIN p /\ c[j] = p[j - Len(q)]
    <3>1. i - Len(q) = j - Len(q)
      BY <2>2 DEF Once
    <3> QED
      BY <1>1, <3>1
  <2>3. ASSUME NEW a \in DOMAIN q, NEW b \in DOMAIN p, key[q[a]] = key[p[b]]
        PROVE  key[q[a]] = NoSlot
    BY <2>3 DEF Held
  <2> QED
    BY <1>1, <2>1, <2>2, <2>3
<1>3. Held(c, key) \subseteq Held(q, key) \union Held(p, key)
  <2> SUFFICES ASSUME NEW i \in DOMAIN c, key[c[i]] # NoSlot
               PROVE  key[c[i]] \in Held(q, key) \union Held(p, key)
    BY DEF Held
  <2>1. CASE i \in DOMAIN q /\ c[i] = q[i]
    BY <2>1 DEF Held
  <2>2. CASE i - Len(q) \in DOMAIN p /\ c[i] = p[i - Len(q)]
    BY <2>2 DEF Held
  <2> QED
    BY <1>1, <2>1, <2>2
<1>4. Held(q, key) \subseteq Held(c, key)
  <2> SUFFICES ASSUME NEW i \in DOMAIN q, key[q[i]] # NoSlot
               PROVE  key[q[i]] \in Held(c, key)
    BY DEF Held
  <2>1. i \in DOMAIN c /\ c[i] = q[i]
    BY <1>1
  <2> QED
    BY <2>1 DEF Held
<1>5. Held(p, key) \subseteq Held(c, key)
  <2> SUFFICES ASSUME NEW i \in DOMAIN p, key[p[i]] # NoSlot
               PROVE  key[p[i]] \in Held(c, key)
    BY DEF Held
  <2>1. Len(q) + i \in DOMAIN c /\ c[Len(q) + i] = p[i]
    BY <1>1
  <2> QED
    BY <2>1 DEF Held
<1> QED
  BY <1>2, <1>3, <1>4, <1>5 DEF c

LEMMA HeldOne ==
    ASSUME NEW e, NEW key
    PROVE  Once(<<e>>, key) /\ Held(<<e>>, key) = {key[e]} \ {NoSlot}
<1>1. DOMAIN <<e>> = {1} /\ <<e>>[1] = e
  OBVIOUS
<1> QED
  BY <1>1 DEF Once, Held

LEMMA HeldNone ==
    ASSUME NEW key
    PROVE  Once(<<>>, key) /\ Held(<<>>, key) = {}
<1>1. DOMAIN <<>> = {}
  OBVIOUS
<1> QED
  BY <1>1 DEF Once, Held

LEMMA HeldAppend ==
    ASSUME NEW T, NEW q \in Seq(T), NEW e \in T, NEW key,
           Once(q, key), key[e] \notin Held(q, key)
    PROVE  /\ Once(Append(q, e), key)
           /\ Held(Append(q, e), key) = Held(q, key) \union ({key[e]} \ {NoSlot})
<1> DEFINE p == <<e>>
<1>1. p \in Seq(T) /\ Append(q, e) = q \o p
  OBVIOUS
<1>2. Once(p, key) /\ Held(p, key) = {key[e]} \ {NoSlot}
  BY HeldOne
<1> HIDE DEF p
<1>3. Held(q, key) \cap Held(p, key) = {}
  BY <1>2
<1>4. Once(q \o p, key) /\ Held(q \o p, key) = Held(q, key) \union Held(p, key)
  BY <1>1, <1>2, <1>3, HeldConcat
<1> QED
  BY <1>1, <1>2, <1>4

-----------------------------------------------------------------------------
(* The places of one reader.                                               *)

LEMMA PlaceTypes ==
    ASSUME TypeOK, NEW r \in Readers
    PROVE  /\ dataq[r] \in Seq(Coords) /\ views[r] \in Seq(View)
           /\ tickets[r] \in Seq(Ticket) /\ inbox \in Seq(Ticket)
BY DEF TypeOK

LEMMA KeyFacts ==
    ASSUME NEW r
    PROVE  /\ \A m \in Coords : CoordsKey[m] = m.slot
           /\ \A v \in View : ViewKey[v] = v.slot /\ v.slot \in Slots
           /\ \A m \in Ticket : m.kind # "reclaim" /\ m.reader = r =>
                  MailKey(r)[m] = m.slot /\ m.slot \in Slots
           /\ \A m \in Ticket : m.reader # r => MailKey(r)[m] = NoSlot
<1>1. \A m \in Coords : CoordsKey[m] = m.slot
  BY DEF CoordsKey
<1>2. \A v \in View : ViewKey[v] = v.slot /\ v.slot \in Slots
  BY DEF ViewKey, View
<1>3. \A m \in Ticket : m.kind # "reclaim" => m.slot \in Slots
  BY DEF Ticket
<1>4. \A m \in Ticket : MailKey(r)[m] = IF m.kind # "reclaim" /\ m.reader = r
                                     THEN m.slot ELSE NoSlot
  BY DEF MailKey
<1> QED
  BY <1>1, <1>2, <1>3, <1>4

\* What stands at a place is held, unless it has no slot.
LEMMA HeldElement ==
    ASSUME NEW q, NEW key, NEW i \in DOMAIN q, key[q[i]] # NoSlot
    PROVE  key[q[i]] \in Held(q, key)
BY DEF Held

\* A step that leaves the places of r alone, and the ledger and the memory of
\* the slots that r holds, leaves what they say alone.
LEMMA QuietPlaces ==
    ASSUME TypeOK, NEW r \in Readers, KeepsLoans(r),
           UNCHANGED <<dataq[r], views[r], tickets[r], inbox, status[r]>>,
           \A s \in Load(r) : gen'[0][s] = gen[0][s] /\ pixels'[0][s] = pixels[0][s]
    PROVE  /\ OnceEach(r)' /\ Faithful(r)' /\ status'[r] = "up"
           /\ Queued(r)' = Queued(r) /\ Viewed(r)' = Viewed(r)
           /\ Batched(r)' = Batched(r) /\ Mailed(r)' = Mailed(r)
<1>t. /\ dataq[r] \in Seq(Coords) /\ views[r] \in Seq(View)
      /\ tickets[r] \in Seq(Ticket)
      /\ inbox \in Seq(Ticket)
  BY PlaceTypes
<1>k. /\ \A m \in Coords : CoordsKey[m] = m.slot
      /\ \A v \in View : ViewKey[v] = v.slot /\ v.slot \in Slots
      /\ \A m \in Ticket : m.kind # "reclaim" /\ m.reader = r =>
             MailKey(r)[m] = m.slot /\ m.slot \in Slots
  BY KeyFacts
<1>n. NoSlot \notin Slots
  BY SlotFacts
<1>f. DataFaithful(r) /\ ViewsFaithful(r) /\ BatchFaithful(r) /\ MailFaithful(r)
      /\ OnceEach(r) /\ status[r] = "up"
  BY DEF KeepsLoans, Faithful
<1>1. OnceEach(r)' /\ status'[r] = "up"
  BY <1>f DEF OnceEach
<1>2. /\ Queued(r)' = Queued(r) /\ Viewed(r)' = Viewed(r)
      /\ Batched(r)' = Batched(r) /\ Mailed(r)' = Mailed(r)
  BY DEF Queued, Viewed, Batched, Mailed
<1>3. DataFaithful(r)'
  <2> SUFFICES ASSUME NEW i \in DOMAIN dataq[r] PROVE Announced(dataq[r][i])'
    BY DEF DataFaithful
  <2>1. dataq[r][i] \in Coords /\ Announced(dataq[r][i])
    BY <1>t, <1>f DEF DataFaithful
  <2>2. CoordsKey[dataq[r][i]] = dataq[r][i].slot
    BY <1>k, <2>1
  <2>3. dataq[r][i].slot # NoSlot => dataq[r][i].slot \in Load(r)
    BY <2>2, HeldElement DEF Queued, Load
  <2> QED
    BY <2>1, <2>3 DEF Announced
<1>4. ViewsFaithful(r)'
  <2> SUFFICES ASSUME NEW i \in DOMAIN views[r] PROVE Seen(views[r][i])'
    BY DEF ViewsFaithful
  <2>1. views[r][i] \in View /\ Seen(views[r][i])
    BY <1>t, <1>f DEF ViewsFaithful
  <2>2. ViewKey[views[r][i]] = views[r][i].slot /\ views[r][i].slot \in Slots
    BY <1>k, <2>1
  <2>3. views[r][i].slot \in Load(r)
    BY <1>n, <2>2, HeldElement DEF Viewed, Load
  <2> QED
    BY <2>1, <2>3 DEF Seen
<1>5. BatchFaithful(r)'
  <2> SUFFICES ASSUME NEW i \in DOMAIN tickets[r]
               PROVE  /\ tickets[r][i].kind = "release" /\ tickets[r][i].reader = r
                      /\ Current(tickets[r][i])'
    BY DEF BatchFaithful
  <2>1. /\ tickets[r][i] \in Ticket /\ Current(tickets[r][i])
        /\ tickets[r][i].kind = "release" /\ tickets[r][i].reader = r
    BY <1>t, <1>f DEF BatchFaithful
  <2>2. MailKey(r)[tickets[r][i]] = tickets[r][i].slot /\ tickets[r][i].slot \in Slots
    BY <1>k, <2>1
  <2>3. tickets[r][i].slot \in Load(r)
    BY <1>n, <2>2, HeldElement DEF Batched, Load
  <2> QED
    BY <2>1, <2>3 DEF Current
<1>6. MailFaithful(r)'
  <2> SUFFICES ASSUME NEW i \in DOMAIN inbox, inbox[i].reader = r
               PROVE  inbox[i].kind # "reclaim" /\ Current(inbox[i])'
    BY DEF MailFaithful
  <2>1. inbox[i] \in Ticket /\ Current(inbox[i]) /\ inbox[i].kind # "reclaim"
    BY <1>t, <1>f DEF MailFaithful
  <2>2. MailKey(r)[inbox[i]] = inbox[i].slot /\ inbox[i].slot \in Slots
    BY <1>k, <2>1
  <2>3. inbox[i].slot \in Load(r)
    BY <1>n, <2>2, HeldElement DEF Mailed, Load
  <2> QED
    BY <2>1, <2>3 DEF Current
<1> QED
  BY <1>1, <1>2, <1>3, <1>4, <1>5, <1>6 DEF Faithful

-----------------------------------------------------------------------------
(* The writer.                                                             *)

\* The slot under the writer's hands is nobody's.
LEMMA WriterSlotFree ==
    ASSUME PoolInv, NEW r \in Readers, KeepsLoans(r), src.at = "write"
    PROVE  src.slot \in Slots /\ src.slot \notin Load(r)
BY DEF PoolInv, SrcShape, KeepsLoans, Lent

\* The steps of the writer that announce nothing.
LEMMA WriterSilent ==
    ASSUME PoolInv, ItemShape, ring = 0, NEW r \in Readers, KeepsLoans(r),
           Produce \/ Exhausted \/ Abort \/ \E s \in Slots : Acquire(s)
    PROVE  KeepsLoans(r)' /\ Load(r)' = Load(r)
<1>t. TypeOK /\ SrcType
  BY TypeParts DEF PoolInv
<1>1. Sent(r) = {} /\ Sent(r)' = {}
  <2>1. CASE Produce
    BY <1>t, <2>1 DEF Produce, Sent, SrcType
  <2>2. CASE Exhausted
    <3>1. src'.at # "put" /\ src.at = "strip"
      BY <1>t, <2>2 DEF Exhausted, SendRest, ItemShape, SrcType
    <3> QED
      BY <3>1 DEF Sent
  <2>3. CASE Abort
    <3>1. src'.slot = NoSlot /\ src.at = "write"
      BY <1>t, <2>3 DEF Abort, SrcType
    <3> QED
      BY <3>1 DEF Sent
  <2>4. ASSUME NEW s \in Slots, Acquire(s) PROVE Sent(r) = {} /\ Sent(r)' = {}
    <3>1. src'.at = "write" /\ src.at = "strip"
      BY <1>t, <2>4 DEF Acquire, SrcType
    <3> QED
      BY <3>1 DEF Sent
  <2> QED
    BY <2>1, <2>2, <2>3, <2>4
<1>2. /\ UNCHANGED <<dataq, views, tickets, inbox, status, refcount, released, ring>>
      /\ (gen' = gen /\ pixels' = pixels) \/ Abort
  BY DEF Produce, Exhausted, Abort, Acquire, reader, memory, ledger
<1>3. \A s \in Load(r) : gen'[0][s] = gen[0][s] /\ pixels'[0][s] = pixels[0][s]
  <2>1. CASE Abort
    <3>1. src.slot \in Slots /\ src.slot \notin Load(r)
      BY <2>1, WriterSlotFree DEF Abort
    <3>2. /\ gen \in [Rings -> [Slots -> Nat]]
          /\ pixels \in [Rings -> [Slots -> Frames]]
      BY <1>t DEF TypeOK
    <3>3. Load(r) \subseteq Slots /\ 0 \in Rings
      BY SlotFacts DEF KeepsLoans, Lent
    <3>4. /\ gen' = [gen EXCEPT ![0][src.slot] = @ + 1]
          /\ pixels' = [pixels EXCEPT ![0][src.slot] = 0]
      BY <2>1 DEF Abort
    <3> QED
      BY ONLY <3>1, <3>2, <3>3, <3>4
  <2> QED
    BY <1>2, <2>1
<1>4. /\ OnceEach(r)' /\ Faithful(r)' /\ status'[r] = "up"
      /\ Queued(r)' = Queued(r) /\ Viewed(r)' = Viewed(r)
      /\ Batched(r)' = Batched(r) /\ Mailed(r)' = Mailed(r)
  BY <1>t, <1>2, <1>3, QuietPlaces
<1>5. Load(r)' = Load(r)
  BY <1>1, <1>4 DEF Load
<1>6. Apart(r)'
  BY <1>1, <1>4 DEF Apart, KeepsLoans
<1>7. Lent(r)'
  BY <1>2, <1>5 DEF Lent, KeepsLoans
<1> QED
  BY <1>4, <1>5, <1>6, <1>7 DEF KeepsLoans

\* Commit lends the slot to everyone the item is for.
LEMMA WriterCommits ==
    ASSUME PoolInv, ItemShape, ring = 0, raced' = {}, NEW r \in Readers,
           KeepsLoans(r), Commit
    PROVE  KeepsLoans(r)' /\ Load(r)' = Load(r) \union Sent(r)'
<1>t. TypeOK /\ SrcType /\ LedgerType
  BY TypeParts DEF PoolInv
<1>1. src.slot \in Slots /\ src.slot \notin Load(r) /\ released[src.slot] = {}
  BY WriterSlotFree DEF Commit, PoolInv, SrcShape, LedgerConsistent
<1>2. Sent(r) = {} /\ Sent(r)' \subseteq {src.slot}
  <2>1. src.at = "write" /\ src'.slot = src.slot
    BY <1>t DEF Commit, SrcType
  <2> QED
    BY <2>1 DEF Sent
<1>3. UNCHANGED <<dataq, views, tickets, inbox, status, released, ring>>
  BY DEF Commit, reader
<1>4. \A s \in Load(r) : gen'[0][s] = gen[0][s] /\ pixels'[0][s] = pixels[0][s]
  <2>1. /\ gen \in [Rings -> [Slots -> Nat]]
        /\ pixels \in [Rings -> [Slots -> Frames]]
    BY <1>t DEF TypeOK
  <2>2. Load(r) \subseteq Slots /\ 0 \in Rings
    BY SlotFacts DEF KeepsLoans, Lent
  <2>3. /\ gen' = [gen EXCEPT ![0][src.slot] = @ + 1]
        /\ pixels' = [pixels EXCEPT ![0][src.slot] = src.frame]
    BY DEF Commit
  <2> QED
    BY ONLY <1>1, <2>1, <2>2, <2>3
<1>5. /\ OnceEach(r)' /\ Faithful(r)' /\ status'[r] = "up"
      /\ Queued(r)' = Queued(r) /\ Viewed(r)' = Viewed(r)
      /\ Batched(r)' = Batched(r) /\ Mailed(r)' = Mailed(r)
  BY <1>t, <1>3, <1>4, QuietPlaces
<1>6. Load(r)' = Load(r) \union Sent(r)'
  BY <1>2, <1>5 DEF Load
<1>7. Apart(r)'
  BY <1>1, <1>2, <1>5 DEF Apart, KeepsLoans, Load
<1>8. Lent(r)'
  <2>1. Cardinality(Readers) > 0
    BY PoolAssumption, ReadersCount, FS_EmptySet
  <2>2. refcount' = [refcount EXCEPT ![src.slot] = Cardinality(Readers)]
    BY DEF Commit
  <2>3. refcount'[src.slot] > 0 /\ \A s \in Slots \ {src.slot} : refcount'[s] = refcount[s]
    BY <1>t, <1>1, <2>1, <2>2 DEF LedgerType
  <2>4. \A s \in Load(r) : s \in Slots /\ refcount[s] > 0 /\ r \notin released[s]
    BY DEF KeepsLoans, Lent
  <2> QED
    BY <1>1, <1>2, <1>3, <1>6, <2>3, <2>4 DEF Lent
<1> QED
  BY <1>5, <1>6, <1>7, <1>8 DEF KeepsLoans

-----------------------------------------------------------------------------
(* Mail that arrives at the owner.                                         *)

\* Mail that adds no loan twice, and speaks of r's current loans.
LEMMA MailGrows ==
    ASSUME TypeOK, NEW r \in Readers, OnceEach(r), MailFaithful(r),
           NEW batch \in Seq(Ticket), Once(batch, MailKey(r)),
           Held(batch, MailKey(r)) \cap Mailed(r) = {},
           \A i \in DOMAIN batch :
               batch[i].reader = r => batch[i].kind # "reclaim" /\ Current(batch[i]),
           inbox' = inbox \o batch, gen' = gen
    PROVE  /\ Once(inbox, MailKey(r))'
           /\ Mailed(r)' = Mailed(r) \union Held(batch, MailKey(r))
           /\ MailFaithful(r)'
<1>1. inbox \in Seq(Ticket)
  BY DEF TypeOK
<1>2. /\ Once(inbox \o batch, MailKey(r))
      /\ Held(inbox \o batch, MailKey(r)) = Held(inbox, MailKey(r))
                                               \union Held(batch, MailKey(r))
  BY <1>1, HeldConcat DEF OnceEach, Mailed
<1>3. MailFaithful(r)'
  <2> SUFFICES ASSUME NEW i \in DOMAIN inbox', inbox'[i].reader = r
               PROVE  inbox'[i].kind # "reclaim" /\ Current(inbox'[i])
    BY DEF MailFaithful, Current
  <2>1. \/ i \in DOMAIN inbox /\ inbox'[i] = inbox[i]
        \/ i - Len(inbox) \in DOMAIN batch /\ inbox'[i] = batch[i - Len(inbox)]
    BY <1>1, ConcatElements
  <2> QED
    BY <2>1 DEF MailFaithful
<1> QED
  BY <1>2, <1>3 DEF Mailed

LEMMA NotMine ==
    ASSUME NEW r \in Readers, NEW batch \in Seq(Ticket),
           \A i \in DOMAIN batch : batch[i].reader # r
    PROVE  Once(batch, MailKey(r)) /\ Held(batch, MailKey(r)) = {}
<1>1. \A i \in DOMAIN batch : batch[i] \in Ticket
  OBVIOUS
<1>2. \A i \in DOMAIN batch : MailKey(r)[batch[i]] = NoSlot
  BY <1>1, KeyFacts
<1> QED
  BY <1>2 DEF Once, Held

\* A step of somebody else that at most sends mail.
LEMMA OthersStep ==
    ASSUME PoolInv, NEW r \in Readers, KeepsLoans(r),
           UNCHANGED <<dataq[r], views[r], tickets[r], status[r]>>,
           UNCHANGED <<refcount, released, gen, pixels>>,
           Sent(r)' = Sent(r), NEW batch \in Seq(Ticket),
           \A i \in DOMAIN batch : batch[i].reader # r,
           inbox' = inbox \/ inbox' = inbox \o batch
    PROVE  KeepsLoans(r)' /\ Load(r)' = Load(r)
<1>k. OnceEach(r) /\ Apart(r) /\ Lent(r) /\ status[r] = "up" /\ TypeOK
      /\ DataFaithful(r) /\ ViewsFaithful(r) /\ BatchFaithful(r) /\ MailFaithful(r)
  BY DEF KeepsLoans, PoolInv, Faithful
<1>1. Once(inbox, MailKey(r))' /\ Mailed(r)' = Mailed(r) /\ MailFaithful(r)'
  <2>1. CASE inbox' = inbox
    BY <1>k, <2>1 DEF OnceEach, Mailed, MailFaithful, Current
  <2>2. CASE inbox' = inbox \o batch
    <3>1. Once(batch, MailKey(r)) /\ Held(batch, MailKey(r)) = {}
      BY NotMine
    <3>2. /\ Once(inbox, MailKey(r))'
          /\ Mailed(r)' = Mailed(r) \union Held(batch, MailKey(r))
          /\ MailFaithful(r)'
      BY <1>k, <2>2, <3>1, MailGrows
    <3> QED
      BY <3>1, <3>2
  <2> QED
    BY <2>1, <2>2
<1>2. Queued(r)' = Queued(r) /\ Viewed(r)' = Viewed(r) /\ Batched(r)' = Batched(r)
  BY DEF Queued, Viewed, Batched
<1>3. OnceEach(r)'
  BY <1>k, <1>1 DEF OnceEach
<1>4. Faithful(r)'
  BY <1>k, <1>1 DEF Faithful, DataFaithful, ViewsFaithful, BatchFaithful, Announced,
     Seen, Current
<1>5. Load(r)' = Load(r)
  BY <1>1, <1>2 DEF Load
<1>6. Apart(r)'
  BY <1>k, <1>1, <1>2 DEF Apart
<1>7. Lent(r)'
  BY <1>k, <1>5 DEF Lent
<1> QED
  BY <1>k, <1>3, <1>4, <1>5, <1>6, <1>7 DEF KeepsLoans

-----------------------------------------------------------------------------
(* The delivery of the item to the next target.                            *)

LEMMA SentMovesOn ==
    ASSUME PoolInv, ItemShape, Deliver, NEW r \in Readers
    PROVE  Sent(r)' = IF r = Head(src.todo) THEN {} ELSE Sent(r)
<1>t. SrcType /\ src.todo # <<>> /\ src.at = "put" /\ src.todo \in Seq(Readers)
  BY TypeParts DEF PoolInv, SrcShape, SrcType, Deliver
<1> DEFINE q == src.todo
<1>1. /\ Len(q) \in Nat \ {0} /\ DOMAIN q = 1 .. Len(q)
      /\ Head(q) = q[1]
      /\ DOMAIN Tail(q) = 1 .. (Len(q) - 1)
      /\ \A i \in DOMAIN Tail(q) : i + 1 \in DOMAIN q /\ Tail(q)[i] = q[i + 1]
  BY <1>t, TailElements
<1>2. /\ src'.todo = Tail(q) /\ src'.slot = src.slot
      /\ src'.at = IF Len(q) = 1 THEN "idle"
                   ELSE IF src.slot = NoSlot THEN "strip" ELSE "put"
  BY <1>t DEF Deliver, SendRest, SrcType
<1>3. \A i, j \in DOMAIN q : q[i] = q[j] => i = j
  BY DEF ItemShape
<1> HIDE DEF q
<1>4. CASE r = Head(q)
  <2>1. \A i \in DOMAIN Tail(q) : Tail(q)[i] # r
    <3> SUFFICES ASSUME NEW i \in DOMAIN Tail(q), Tail(q)[i] = r PROVE FALSE
      OBVIOUS
    <3>1. i + 1 \in DOMAIN q /\ 1 \in DOMAIN q /\ q[i + 1] = q[1] /\ i \in Nat \ {0}
      BY <1>1, <1>4
    <3>2. i + 1 = 1
      BY <1>3, <3>1
    <3> QED
      BY <3>1, <3>2
  <2> QED
    BY <1>2, <1>4, <2>1 DEF Sent, q
<1>5. CASE r # Head(q)
  <2>1. (\E i \in DOMAIN q : q[i] = r) <=> (\E i \in DOMAIN Tail(q) : Tail(q)[i] = r)
    <3>1. ASSUME NEW i \in DOMAIN q, q[i] = r
          PROVE  \E j \in DOMAIN Tail(q) : Tail(q)[j] = r
      <4>1. i # 1
        BY <1>1, <1>5, <3>1
      <4>2. i - 1 \in DOMAIN Tail(q) /\ Tail(q)[i - 1] = q[i]
        BY <1>1, <4>1
      <4> QED
        BY <3>1, <4>2
    <3> QED
      BY <1>1, <3>1
  <2>2. Len(q) = 1 => ~ \E i \in DOMAIN Tail(q) : Tail(q)[i] = r
    BY <1>1
  <2>3. Sent(r) = IF \E i \in DOMAIN q : q[i] = r THEN {src.slot} \ {NoSlot} ELSE {}
    BY <1>t DEF Sent, q
  <2>4. CASE Len(q) # 1 /\ src.slot # NoSlot
    <3>1. Sent(r)' = IF \E i \in DOMAIN Tail(q) : Tail(q)[i] = r
                     THEN {src.slot} \ {NoSlot} ELSE {}
      BY <1>2, <2>4 DEF Sent
    <3> QED
      BY <1>5, <2>1, <2>3, <3>1 DEF q
  <2>5. CASE Len(q) = 1 \/ src.slot = NoSlot
    <3>1. Sent(r)' = {}
      BY <1>2, <2>5 DEF Sent
    <3>2. Sent(r) = {}
      BY <2>1, <2>2, <2>3, <2>5
    <3> QED
      BY <1>5, <3>1, <3>2 DEF q
  <2> QED
    BY <2>4, <2>5
<1> QED
  BY <1>4, <1>5 DEF q

\* What is sent to another target does not concern r.
LEMMA DeliverElsewhere ==
    ASSUME PoolInv, ItemShape, Deliver, NEW r \in Readers, KeepsLoans(r),
           r # Head(src.todo)
    PROVE  KeepsLoans(r)' /\ Load(r)' = Load(r)
<1> DEFINE t == Head(src.todo)
           lost == Eviction(Head(dataq[t]), t)
<1>1. t \in Readers /\ TypeOK
  <2>1. src.todo \in Seq(Readers) /\ src.todo # <<>>
    BY TypeParts DEF PoolInv, SrcShape, SrcType, Deliver
  <2> QED
    BY <2>1, HeadOfSeq DEF PoolInv
<1>2. UNCHANGED <<dataq[r], views[r], tickets[r], status[r]>>
  BY <1>1 DEF Deliver, TypeOK
<1>3. UNCHANGED <<refcount, released, gen, pixels>>
  BY DEF Deliver, ledger, memory
<1>4. Sent(r)' = Sent(r)
  BY SentMovesOn
<1>5. \E batch \in Seq(Ticket) :
         /\ \A i \in DOMAIN batch : batch[i].reader # r
         /\ inbox' = inbox \/ inbox' = inbox \o batch
  <2>1. CASE inbox' = inbox
    <3>1. <<>> \in Seq(Ticket) /\ \A i \in DOMAIN <<>> : <<>>[i].reader # r
      OBVIOUS
    <3> QED
      BY <2>1, <3>1
  <2>2. CASE inbox' # inbox
    <3>1. /\ inbox' = inbox \o <<lost>> /\ Head(dataq[t]).slot # NoSlot
          /\ Len(dataq[t]) >= QueueCap
      BY <2>2 DEF Deliver, SendMail
    <3>2. dataq[t] \in Seq(Coords)
      BY <1>1, PlaceTypes
    <3>3. dataq[t] # <<>>
      BY <3>1, <3>2, PoolAssumption
    <3>4. Head(dataq[t]) \in Coords
      BY <3>2, <3>3, HeadOfSeq
    <3>5. lost \in Ticket /\ lost.reader = t
      BY <1>1, <3>1, <3>4 DEF Eviction, Ticket, Coords
    <3> HIDE DEF lost, t
    <3>6. <<lost>> \in Seq(Ticket) /\ DOMAIN <<lost>> = {1} /\ <<lost>>[1] = lost
      BY <3>5
    <3>7. \A i \in DOMAIN <<lost>> : <<lost>>[i].reader # r
      BY <3>5, <3>6 DEF t
    <3> QED
      BY <3>1, <3>6, <3>7
  <2> QED
    BY <2>1, <2>2
<1> QED
  BY <1>2, <1>3, <1>4, <1>5, OthersStep

\* To its target the item's slot moves from the writer's hands into the queue;
\* an evicted message's slot moves into the mail, or its loan is lost.
LEMMA DeliverHere ==
    ASSUME PoolInv, ItemShape, ring = 0, Deliver, NEW r \in Readers, KeepsLoans(r),
           r = Head(src.todo)
    PROVE  /\ KeepsLoans(r)' /\ Load(r)' \subseteq Load(r)
           /\ ~ Lossy => Load(r)' = Load(r)
<1> DEFINE q    == dataq[r]
           msg  == [frame |-> src.frame, slot |-> src.slot, ring |-> ring]
           lost == Eviction(Head(q), r)
<1>t. /\ TypeOK /\ SrcType /\ src.at = "put" /\ src.todo # <<>>
      /\ src.todo \in Seq(Readers)
  BY TypeParts DEF PoolInv, SrcShape, SrcType, Deliver
<1>k. OnceEach(r) /\ Apart(r) /\ Lent(r) /\ status[r] = "up"
      /\ DataFaithful(r) /\ ViewsFaithful(r) /\ BatchFaithful(r) /\ MailFaithful(r)
  BY DEF KeepsLoans, Faithful
<1>n. NoSlot \notin Slots
  BY SlotFacts
<1>1. Sent(r)' = {} /\ Sent(r) = {src.slot} \ {NoSlot}
  <2>1. 1 \in DOMAIN src.todo /\ src.todo[1] = r
    BY <1>t, TailElements
  <2> QED
    BY <1>t, <2>1, SentMovesOn DEF Sent
<1>2. q \in Seq(Coords) /\ msg \in Coords /\ CoordsKey[msg] = src.slot
  <2>1. msg \in Coords
    BY <1>t DEF TypeOK, SrcType, Coords
  <2> QED
    BY <1>t, <2>1, PlaceTypes, KeyFacts
<1>3. Announced(msg)
  <2>1. src.frame > 0 /\ (src.slot # NoSlot => pixels[0][src.slot] = src.frame)
    BY <1>t DEF ItemShape
  <2> QED
    BY <2>1 DEF Announced
<1>4. /\ UNCHANGED <<refcount, released, gen, pixels, views, tickets, status>>
      /\ \/ dataq' = [dataq EXCEPT ![r] = Append(q, msg)] /\ inbox' = inbox
         \/ /\ dataq' = [dataq EXCEPT ![r] = Append(Tail(q), msg)] /\ q # <<>>
            /\ \/ Head(q).slot = NoSlot /\ inbox' = inbox
               \/ Head(q).slot # NoSlot /\ Lossy /\ inbox' = inbox
               \/ Head(q).slot # NoSlot /\ inbox' = inbox \o <<lost>>
         \/ Lossy /\ dataq' = dataq /\ inbox' = inbox
  <2>1. Len(q) >= QueueCap => q # <<>>
    BY <1>2, PoolAssumption
  <2> QED
    BY <2>1 DEF Deliver, SendMail, ledger, memory
<1>5. dataq \in [Readers -> Seq(Coords)]
  BY <1>t DEF TypeOK
<1>6. Viewed(r)' = Viewed(r) /\ Batched(r)' = Batched(r)
      /\ ViewsFaithful(r)' /\ BatchFaithful(r)' /\ status'[r] = "up"
      /\ Once(views[r], ViewKey)' /\ Once(tickets[r], MailKey(r))'
  BY <1>4, <1>k DEF Viewed, Batched, ViewsFaithful, BatchFaithful, Seen, Current, OnceEach
<1>7. inbox' = inbox => /\ Mailed(r)' = Mailed(r) /\ MailFaithful(r)'
                        /\ Once(inbox, MailKey(r))'
  BY <1>4, <1>k DEF Mailed, MailFaithful, Current, OnceEach
<1>8. src.slot \notin Queued(r) \union Viewed(r) \union Batched(r) \union Mailed(r)
      \/ src.slot = NoSlot
  BY <1>k, <1>1 DEF Apart
<1>9. NoSlot \notin Queued(r)
  BY DEF Queued, Held
<1>d. (\A i \in DOMAIN dataq'[r] : Announced(dataq'[r][i])) => DataFaithful(r)'
  BY <1>4 DEF DataFaithful, Announced
<1>10. CASE dataq' = [dataq EXCEPT ![r] = Append(q, msg)] /\ inbox' = inbox
  <2>1. dataq'[r] = Append(q, msg)
    BY <1>5, <1>10
  <2>2. CoordsKey[msg] \notin Held(q, CoordsKey)
    BY <1>2, <1>8, <1>9 DEF Queued
  <2>3. Once(q, CoordsKey)
    BY <1>k DEF OnceEach
  <2> HIDE DEF q, msg
  <2>4. /\ Once(dataq'[r], CoordsKey)
        /\ Held(dataq'[r], CoordsKey) = Held(q, CoordsKey) \union ({src.slot} \ {NoSlot})
    BY <1>2, <2>1, <2>2, <2>3, HeldAppend
  <2>5. Queued(r)' = Queued(r) \union Sent(r)
    BY <1>1, <2>4 DEF Queued, q
  <2>6. DataFaithful(r)'
    <3>1. \A i \in DOMAIN Append(q, msg) :
              \/ Append(q, msg)[i] = msg
              \/ i \in DOMAIN q /\ Append(q, msg)[i] = q[i]
      BY <1>2, AppendElements
    <3>2. \A i \in DOMAIN q : Announced(q[i])
      BY <1>k DEF DataFaithful, q
    <3> QED
      BY <1>3, <1>d, <2>1, <3>1, <3>2
  <2>7. OnceEach(r)' /\ Faithful(r)'
    BY <1>6, <1>7, <1>10, <2>4, <2>6 DEF OnceEach, Faithful
  <2>8. Load(r)' = Load(r)
    BY <1>1, <1>6, <1>7, <1>10, <2>5 DEF Load
  <2>9. Apart(r)'
    BY <1>1, <1>k, <1>6, <1>7, <1>10, <2>5 DEF Apart
  <2>10. Lent(r)'
    BY <1>4, <1>k, <2>8 DEF Lent
  <2> QED
    BY <1>6, <2>7, <2>8, <2>9, <2>10 DEF KeepsLoans
<1>11. CASE /\ dataq' = [dataq EXCEPT ![r] = Append(Tail(q), msg)] /\ q # <<>>
            /\ \/ Head(q).slot = NoSlot /\ inbox' = inbox
               \/ Head(q).slot # NoSlot /\ Lossy /\ inbox' = inbox
               \/ Head(q).slot # NoSlot /\ inbox' = inbox \o <<lost>>
  <2> DEFINE h == Head(q).slot
  <2>1. dataq'[r] = Append(Tail(q), msg)
    BY <1>5, <1>11
  <2>2. Head(q) \in Coords /\ Tail(q) \in Seq(Coords) /\ CoordsKey[Head(q)] = h
    BY <1>2, <1>11, HeadOfSeq, KeyFacts
  <2>3. Once(q, CoordsKey)
    BY <1>k DEF OnceEach
  <2>4. /\ Once(Tail(q), CoordsKey)
        /\ Held(Tail(q), CoordsKey) = Held(q, CoordsKey) \ {h}
        /\ h # NoSlot => h \in Held(q, CoordsKey)
    <3>1. /\ Once(Tail(q), CoordsKey)
          /\ Held(Tail(q), CoordsKey) = Held(q, CoordsKey) \ {CoordsKey[Head(q)]}
          /\ CoordsKey[Head(q)] # NoSlot => CoordsKey[Head(q)] \in Held(q, CoordsKey)
      <4>1. q \in Seq(Coords) /\ q # <<>>
        BY <1>2, <1>11
      <4> HIDE DEF q
      <4> QED
        BY <2>3, <4>1, HeldTail
    <3> HIDE DEF q
    <3> QED
      BY ONLY <2>2, <3>1
  <2>5. CoordsKey[msg] \notin Held(Tail(q), CoordsKey)
    BY <1>2, <1>8, <1>9, <2>4 DEF Queued
  <2>6. /\ Once(dataq'[r], CoordsKey)
        /\ Held(dataq'[r], CoordsKey) = Held(Tail(q), CoordsKey)
                                          \union ({src.slot} \ {NoSlot})
    <3> DEFINE tl == Tail(q)
    <3>1. /\ tl \in Seq(Coords) /\ msg \in Coords /\ Once(tl, CoordsKey)
          /\ CoordsKey[msg] \notin Held(tl, CoordsKey)
      BY <1>2, <2>2, <2>4, <2>5
    <3> HIDE DEF msg, tl
    <3>2. /\ Once(Append(tl, msg), CoordsKey)
          /\ Held(Append(tl, msg), CoordsKey)
                 = Held(tl, CoordsKey) \union ({CoordsKey[msg]} \ {NoSlot})
      BY <3>1, HeldAppend
    <3> QED
      BY <1>2, <2>1, <3>2 DEF tl
  <2>7. Queued(r)' = (Queued(r) \ {h}) \union Sent(r) /\ (h # NoSlot => h \in Queued(r))
    BY <1>1, <2>4, <2>6 DEF Queued
  <2>8. DataFaithful(r)'
    <3> DEFINE tl == Tail(q)
    <3>1. tl \in Seq(Coords)
      BY <2>2
    <3>2. \A i \in DOMAIN q : Announced(q[i])
      BY <1>k DEF DataFaithful
    <3>3. \A j \in DOMAIN tl : j + 1 \in DOMAIN q /\ tl[j] = q[j + 1]
      BY <1>2, <1>11, TailElements
    <3>4. \A i \in DOMAIN Append(tl, msg) :
              \/ Append(tl, msg)[i] = msg
              \/ i \in DOMAIN tl /\ Append(tl, msg)[i] = tl[i]
      <4> HIDE DEF tl, msg
      <4> QED
        BY <1>2, <3>1, AppendElements
    <3> HIDE DEF q, msg
    <3>5. \A j \in DOMAIN tl : Announced(tl[j])
      <4> HIDE DEF tl
      <4> QED
        BY <3>2, <3>3
    <3>6. dataq'[r] = Append(tl, msg)
      BY <2>1
    <3> HIDE DEF tl
    <3> QED
      BY <1>3, <1>d, <3>4, <3>5, <3>6
  <2>9. /\ \/ Mailed(r)' = Mailed(r) /\ (Lossy \/ h = NoSlot)
           \/ Mailed(r)' = Mailed(r) \union {h} /\ h # NoSlot
        /\ MailFaithful(r)' /\ Once(inbox, MailKey(r))'
    <3>1. CASE inbox' = inbox /\ (Lossy \/ h = NoSlot)
      <4>1. Mailed(r)' = Mailed(r) /\ MailFaithful(r)' /\ Once(inbox, MailKey(r))'
        BY <1>7, <3>1
      <4> HIDE DEF h
      <4> QED
        BY <3>1, <4>1
    <3>2. CASE h # NoSlot /\ inbox' = inbox \o <<lost>>
      <4>1. lost \in Ticket /\ lost.reader = r /\ lost.kind = "evicted" /\ lost.slot = h
        BY <2>2, <3>2 DEF Eviction, Ticket, Coords
      <4>2. MailKey(r)[lost] = h
        BY <4>1, KeyFacts
      <4> DEFINE b == <<lost>>
      <4>3. b \in Seq(Ticket) /\ DOMAIN b = {1} /\ b[1] = lost
        BY <4>1
      <4>4. Once(b, MailKey(r)) /\ Held(b, MailKey(r)) = {h}
        BY <3>2, <4>2, HeldOne
      <4>5. \A i \in DOMAIN b : b[i].reader = r => b[i].kind # "reclaim" /\ Current(b[i])
        BY <4>1, <4>3 DEF Current
      <4>6. h \notin Mailed(r)
        BY <1>k, <2>7, <3>2 DEF Apart
      <4>7. inbox' = inbox \o b /\ gen' = gen
        BY <1>4, <3>2
      <4> HIDE DEF b, h
      <4>8. Held(b, MailKey(r)) \cap Mailed(r) = {}
        BY <4>4, <4>6
      <4>9. /\ Once(inbox, MailKey(r))'
            /\ Mailed(r)' = Mailed(r) \union Held(b, MailKey(r))
            /\ MailFaithful(r)'
        BY <1>t, <1>k, <4>3, <4>4, <4>5, <4>7, <4>8, MailGrows
      <4> QED
        BY <3>2, <4>4, <4>9
    <3> QED
      BY <1>11, <3>1, <3>2
  <2> HIDE DEF h
  <2>10. OnceEach(r)' /\ Faithful(r)'
    BY <1>6, <2>6, <2>8, <2>9 DEF OnceEach, Faithful
  <2>11. Load(r)' \subseteq Load(r) /\ (~ Lossy => Load(r)' = Load(r))
    BY <1>1, <1>6, <1>9, <2>7, <2>9 DEF Load
  <2>12. Apart(r)'
    BY <1>1, <1>k, <1>6, <2>7, <2>9 DEF Apart
  <2>13. Lent(r)'
    BY <1>4, <1>k, <2>11 DEF Lent
  <2> QED
    BY <1>6, <2>10, <2>11, <2>12, <2>13 DEF KeepsLoans
<1>12. CASE Lossy /\ dataq' = dataq /\ inbox' = inbox
  <2>1. Queued(r)' = Queued(r) /\ DataFaithful(r)' /\ Once(dataq[r], CoordsKey)'
    BY <1>4, <1>12, <1>k DEF Queued, DataFaithful, Announced, OnceEach, Deliver, memory
  <2>2. OnceEach(r)' /\ Faithful(r)'
    BY <1>6, <1>7, <1>12, <2>1 DEF OnceEach, Faithful
  <2>3. Load(r)' \subseteq Load(r)
    BY <1>1, <1>6, <1>7, <1>12, <2>1 DEF Load
  <2>4. Apart(r)'
    BY <1>1, <1>k, <1>6, <1>7, <1>12, <2>1 DEF Apart
  <2>5. Lent(r)'
    BY <1>4, <1>k, <2>3 DEF Lent
  <2> QED
    BY <1>6, <1>12, <2>2, <2>3, <2>4, <2>5 DEF KeepsLoans
<1> QED
  BY <1>4, <1>10, <1>11, <1>12

-----------------------------------------------------------------------------
(* The owner.                                                              *)

\* Two readers that have not returned a loan count for two.
LEMMA TwoOwe ==
    ASSUME LedgerType, LedgerConsistent, NEW s \in Slots \ raced, refcount[s] > 0,
           NEW r \in Readers, r \notin released[s],
           NEW p \in Readers, p \notin released[s], p # r
    PROVE  refcount[s] > 1
<1> DEFINE R == released[s]
<1>1. R \in SUBSET Readers /\ R \union {p} \in SUBSET Readers
      /\ (R \union {p}) \union {r} \in SUBSET Readers
  BY DEF LedgerType
<1>2. /\ Cardinality(R) \in Nat /\ Cardinality(R \union {p}) = Cardinality(R) + 1
  BY <1>1, CountFacts
<1>3. Cardinality((R \union {p}) \union {r}) = Cardinality(R \union {p}) + 1
  BY <1>1, CountFacts
<1>4. Cardinality((R \union {p}) \union {r}) <= Cardinality(Readers)
  BY <1>1, PoolAssumption, FS_Subset
<1>5. refcount[s] + Cardinality(R) = Cardinality(Readers) /\ refcount[s] \in Nat
      /\ Cardinality(Readers) \in Nat
  BY ReadersCount DEF LedgerType, LedgerConsistent
<1> HIDE DEF R
<1> QED
  BY <1>2, <1>3, <1>4, <1>5

\* The owner takes one message; r still holds its loans, apart from the one the
\* message gives back.
LEMMA OwnerKeeps ==
    ASSUME PoolInv, ring = 0, raced = {}, OwnerHandle, NEW r \in Readers,
           KeepsLoans(r)
    PROVE  /\ KeepsLoans(r)'
           /\ \A s \in Load(r) : refcount'[s] > 0 /\ r \notin released'[s] => s \in Load(r)'
<1> DEFINE m == Head(inbox)
<1>t. TypeOK /\ LedgerType /\ LedgerConsistent
  BY TypeParts DEF PoolInv
<1>k. OnceEach(r) /\ Apart(r) /\ Lent(r) /\ status[r] = "up"
      /\ DataFaithful(r) /\ ViewsFaithful(r) /\ BatchFaithful(r) /\ MailFaithful(r)
  BY DEF KeepsLoans, Faithful
<1>n. NoSlot \notin Slots
  BY SlotFacts
<1>1. /\ inbox \in Seq(Ticket) /\ inbox # <<>> /\ inbox' = Tail(inbox)
      /\ m \in Ticket /\ m.reader \in Readers
  <2>1. inbox \in Seq(Ticket) /\ inbox # <<>> /\ inbox' = Tail(inbox)
    BY <1>t DEF TypeOK, OwnerHandle
  <2>2. m \in Ticket
    BY <2>1, HeadOfSeq
  <2>3. m.reader \in Readers
    BY <2>2 DEF Ticket
  <2> QED
    BY <2>1, <2>2, <2>3
<1>2. UNCHANGED <<gen, pixels, ring, src, dataq, views, tickets, status>>
  BY DEF OwnerHandle, memory, reader
<1>3. /\ Once(inbox, MailKey(r))' /\ Mailed(r)' = Mailed(r) \ {MailKey(r)[m]}
      /\ MailKey(r)[m] # NoSlot => MailKey(r)[m] \in Mailed(r)
  BY <1>1, <1>k, HeldTail DEF OnceEach, Mailed
<1>4. m.reader = r => /\ m.kind # "reclaim" /\ Current(m)
                      /\ MailKey(r)[m] = m.slot /\ m.slot \in Slots
  <2>1. 1 \in DOMAIN inbox /\ inbox[1] = m
    BY <1>1, TailElements
  <2>2. m.reader = r => m.kind # "reclaim" /\ Current(m)
    BY <1>k, <2>1 DEF MailFaithful
  <2> QED
    BY <1>1, <2>2, KeyFacts
<1>5. m.reader # r => MailKey(r)[m] = NoSlot
  BY <1>1, KeyFacts
<1>6. MailFaithful(r)'
  <2> DEFINE tl == Tail(inbox)
  <2>1. \A i \in DOMAIN tl : i + 1 \in DOMAIN inbox /\ tl[i] = inbox[i + 1]
    BY <1>1, TailElements
  <2> HIDE DEF tl
  <2>2. \A i \in DOMAIN tl : tl[i].reader = r => tl[i].kind # "reclaim" /\ Current(tl[i])
    BY <1>k, <2>1 DEF MailFaithful
  <2>3. inbox' = tl
    BY <1>1 DEF tl
  <2> QED
    BY <1>2, <2>2, <2>3 DEF MailFaithful, Current
<1>7. /\ Queued(r)' = Queued(r) /\ Viewed(r)' = Viewed(r) /\ Batched(r)' = Batched(r)
      /\ Sent(r)' = Sent(r)
  BY <1>2 DEF Queued, Viewed, Batched, Sent
<1>8. OnceEach(r)' /\ Faithful(r)' /\ status'[r] = "up"
  BY <1>2, <1>3, <1>6, <1>k DEF OnceEach, Faithful, DataFaithful, ViewsFaithful,
     BatchFaithful, Announced, Seen, Current
<1>9. Load(r)' = Load(r) \ {MailKey(r)[m]}
  <2>1. NoSlot \notin Load(r)
    BY <1>n, <1>k DEF Lent
  <2>2. MailKey(r)[m] # NoSlot => MailKey(r)[m] \notin Queued(r) \union Viewed(r)
                                       \union Batched(r) \union Sent(r)
    BY <1>3, <1>k DEF Apart
  <2> QED
    BY <1>3, <1>7, <2>1, <2>2 DEF Load
<1>10. Apart(r)'
  BY <1>3, <1>7, <1>k DEF Apart
\* A slot that r holds elsewhere stays lent, whatever the message is.
<1>11. ASSUME NEW s \in Load(r), m.reader = r => s # m.slot
       PROVE  refcount'[s] > 0 /\ r \notin released'[s]
  <2>1. s \in Slots /\ refcount[s] > 0 /\ r \notin released[s] /\ refcount[s] \in Nat
    BY <1>k, <1>t DEF Lent, LedgerType
  <2>2. CASE Counts(m)
    <3>1. Return(m.slot, m.reader) /\ m.slot \in Slots /\ m.reader \notin released[m.slot]
      BY <1>1, <2>2 DEF OwnerHandle, Counts, Ticket
    <3>2. m.slot = s => m.reader # r /\ refcount[s] > 1
      <4>1. m.slot = s => m.reader # r
        BY <1>11
      <4> QED
        BY <1>t, <1>1, <2>1, <3>1, <4>1, TwoOwe
    <3>3. refcount \in [Slots -> 0 .. Cardinality(Readers)]
          /\ released \in [Slots -> SUBSET Readers]
      BY <1>t DEF LedgerType
    <3> HIDE DEF m
    <3>4. CASE m.slot = s
      <4>1. refcount'[s] = refcount[s] - 1 /\ released'[s] = released[s] \union {m.reader}
        BY <2>1, <3>1, <3>3, <3>4 DEF Return
      <4> QED
        BY <2>1, <3>2, <3>4, <4>1
    <3>5. CASE m.slot # s
      BY <2>1, <3>1, <3>3, <3>5 DEF Return
    <3> QED
      BY <3>4, <3>5
  <2>3. CASE ~ Counts(m)
    BY <2>1, <2>3 DEF OwnerHandle
  <2> QED
    BY <2>2, <2>3
<1>12. Lent(r)'
  <2> SUFFICES ASSUME NEW s \in Load(r)'
               PROVE  s \in Slots /\ refcount'[s] > 0 /\ r \notin released'[s]
    BY DEF Lent
  <2>1. s \in Load(r) /\ (m.reader = r => s # m.slot)
    BY <1>4, <1>9
  <2> QED
    BY <1>k, <1>11, <2>1 DEF Lent
\* The loan that r's own message is about is given back.
<1>13. ASSUME m.reader = r
       PROVE  ~ (refcount'[m.slot] > 0 /\ r \notin released'[m.slot])
  <2>1. m.slot \in Load(r) /\ m.slot \in Slots /\ m.kind # "reclaim" /\ Current(m)
    BY <1>3, <1>4, <1>13, <1>n DEF Load
  <2>2. refcount[m.slot] > 0 /\ r \notin released[m.slot]
    BY <1>k, <2>1 DEF Lent
  <2>3. Counts(m)
    BY <1>13, <2>1, <2>2 DEF Counts, Current
  <2>4. Return(m.slot, r)
    BY <1>13, <2>1, <2>3 DEF OwnerHandle
  <2>5. refcount \in [Slots -> 0 .. Cardinality(Readers)]
        /\ released \in [Slots -> SUBSET Readers] /\ Cardinality(Readers) \in Nat
    BY <1>t, ReadersCount DEF LedgerType
  <2> HIDE DEF m
  <2>6. released'[m.slot] = released[m.slot] \union {r}
    BY <2>1, <2>4, <2>5 DEF Return
  <2> QED
    BY <2>6
<1>14. \A s \in Load(r) : refcount'[s] > 0 /\ r \notin released'[s] => s \in Load(r)'
  <2> SUFFICES ASSUME NEW s \in Load(r), refcount'[s] > 0, r \notin released'[s]
               PROVE  s # MailKey(r)[m]
    BY <1>9
  <2>1. CASE m.reader = r
    BY <1>4, <1>13, <2>1
  <2>2. CASE m.reader # r
    BY <1>5, <1>n, <1>k, <2>2 DEF Lent
  <2> QED
    BY <2>1, <2>2
<1> QED
  BY <1>8, <1>10, <1>12, <1>14 DEF KeepsLoans

\* A settlement that no commit has raced concerns no slot that r holds.
LEMMA SettleKeeps ==
    ASSUME PoolInv, raced = {}, Settle, NEW r \in Readers, KeepsLoans(r)
    PROVE  KeepsLoans(r)' /\ Load(r)' = Load(r) /\ refcount' = refcount
<1>t. TypeOK /\ LedgerType
  BY TypeParts DEF PoolInv
<1>1. settling \in Slots /\ refcount[settling] = 0
  BY <1>t DEF Settle, LedgerType, PoolInv, SettlingShape
<1>2. UNCHANGED <<src, dataq, views, tickets, inbox, status, gen, pixels>>
  BY DEF Settle, memory, reader
<1>3. refcount' = refcount /\ \A s \in Slots \ {settling} : released'[s] = released[s]
  BY <1>t, <1>1 DEF Settle, LedgerType
<1>4. Load(r)' = Load(r) /\ Apart(r)'
  BY <1>2 DEF Load, Sent, Queued, Viewed, Batched, Mailed, Apart, KeepsLoans
<1>5. Lent(r)'
  <2>1. settling \notin Load(r)
    BY <1>1 DEF KeepsLoans, Lent
  <2> QED
    BY <1>3, <1>4, <2>1 DEF Lent, KeepsLoans
<1>6. OnceEach(r)' /\ status'[r] = "up"
  BY <1>2 DEF OnceEach, KeepsLoans
<1>7. Faithful(r)'
  BY <1>2 DEF KeepsLoans, Faithful, DataFaithful, ViewsFaithful, BatchFaithful,
     MailFaithful, Announced, Seen, Current
<1> QED
  BY <1>3, <1>4, <1>5, <1>6, <1>7 DEF KeepsLoans

-----------------------------------------------------------------------------
(* The readers.                                                            *)

LEMMA OwnBatch ==
    ASSUME TypeOK, OwnTickets, NEW p \in Readers, Finish(p)
    PROVE  LET batch == Append(tickets[p], [kind |-> "release",
                                            slot |-> Head(views[p]).slot,
                                            gen |-> Head(views[p]).gen, reader |-> p])
           IN /\ batch \in Seq(Ticket)
              /\ \A i \in DOMAIN batch :
                     batch[i].kind = "release" /\ batch[i].reader = p
<1> DEFINE ticket == [kind |-> "release", slot |-> Head(views[p]).slot,
                      gen |-> Head(views[p]).gen, reader |-> p]
<1>1. tickets[p] \in Seq(Ticket) /\ views[p] \in Seq(View) /\ views[p] # <<>>
  BY PlaceTypes DEF Finish
<1>2. Head(views[p]) \in View
  BY <1>1, HeadOfSeq
<1>3. ticket \in Ticket
  BY <1>2 DEF View, Ticket
<1>4. ticket.kind = "release" /\ ticket.reader = p
  OBVIOUS
<1> HIDE DEF ticket
<1>5. \A i \in DOMAIN Append(tickets[p], ticket) :
          \/ Append(tickets[p], ticket)[i] = ticket
          \/ i \in DOMAIN tickets[p] /\ Append(tickets[p], ticket)[i] = tickets[p][i]
  BY <1>1, <1>3, AppendElements
<1>6. Append(tickets[p], ticket) \in Seq(Ticket)
  <2> HIDE DEF Ticket
  <2> QED
    BY <1>1, <1>3
<1>8. \A i \in DOMAIN Append(tickets[p], ticket) :
          /\ Append(tickets[p], ticket)[i].kind = "release"
          /\ Append(tickets[p], ticket)[i].reader = p
  BY <1>4, <1>5 DEF OwnTickets
<1> QED
  BY <1>6, <1>8 DEF ticket

LEMMA TicketsStayOwn ==
    ASSUME PoolInv, OwnTickets, [Next]_vars PROVE OwnTickets'
<1>t. TypeOK /\ tickets \in [Readers -> Seq(Ticket)]
  BY DEF PoolInv, TypeOK
<1>1. CASE tickets' = tickets
  BY <1>1 DEF OwnTickets
<1>2. ASSUME NEW p \in Readers, tickets' = [tickets EXCEPT ![p] = <<>>]
      PROVE  OwnTickets'
  BY <1>t, <1>2 DEF OwnTickets
<1>3. ASSUME NEW p \in Readers, Finish(p) PROVE OwnTickets'
  <2> DEFINE batch == Append(tickets[p], [kind |-> "release",
                                          slot |-> Head(views[p]).slot,
                                          gen |-> Head(views[p]).gen, reader |-> p])
  <2>1. \A i \in DOMAIN batch : batch[i].kind = "release" /\ batch[i].reader = p
    BY <1>t, <1>3, OwnBatch
  <2>2. \/ tickets' = [tickets EXCEPT ![p] = <<>>]
        \/ tickets' = [tickets EXCEPT ![p] = batch]
    BY <1>3 DEF Finish
  <2> HIDE DEF batch
  <2>3. CASE tickets' = [tickets EXCEPT ![p] = batch]
    BY <1>t, <2>1, <2>3 DEF OwnTickets
  <2> QED
    BY <1>2, <2>2, <2>3
<1>4. \/ tickets' = tickets
      \/ \E p \in Readers : Finish(p) \/ tickets' = [tickets EXCEPT ![p] = <<>>]
  <2>1. CASE Source
    BY <2>1 DEF Source, Produce, Exhausted, Reallocate, Commit, Abort, Deliver,
       Acquire, reader
  <2>2. CASE Owner
    BY <2>2 DEF Owner, OwnerHandle, Settle, reader
  <2>3. ASSUME NEW p \in Readers, Reader(p)
        PROVE  Finish(p) \/ tickets' = tickets \/ tickets' = [tickets EXCEPT ![p] = <<>>]
    BY <2>3 DEF Reader, Works, Take, TakeNoView, IdleFlush, Crash, Notice, Restart,
       Replace
  <2>4. CASE UNCHANGED vars
    BY <2>4 DEF vars, reader
  <2> QED
    BY <2>1, <2>2, <2>3, <2>4 DEF Next
<1> QED
  BY <1>1, <1>2, <1>3, <1>4

\* What another reader does does not concern r.
LEMMA ReaderElsewhere ==
    ASSUME PoolInv, OwnTickets, NEW r \in Readers, KeepsLoans(r),
           NEW p \in Readers, p # r, Reader(p)
    PROVE  KeepsLoans(r)' /\ Load(r)' = Load(r)
<1>t. TypeOK /\ dataq \in [Readers -> Seq(Coords)] /\ views \in [Readers -> Seq(View)]
      /\ tickets \in [Readers -> Seq(Ticket)]
      /\ status \in [Readers -> {"up", "dead", "noticed"}]
  BY DEF PoolInv, TypeOK
<1>1. UNCHANGED <<dataq[r], views[r], tickets[r], status[r]>>
  <2>1. CASE Works(p)
    BY <1>t, <2>1 DEF Works, Take, TakeNoView, Finish, IdleFlush
  <2>2. CASE Crash(p) \/ Notice(p) \/ Restart(p) \/ Replace(p)
    BY <1>t, <2>2 DEF Crash, Notice, Restart, Replace
  <2> QED
    BY <2>1, <2>2 DEF Reader
<1>2. UNCHANGED <<refcount, released, gen, pixels, src>>
  BY DEF Reader, Works, Take, TakeNoView, Finish, IdleFlush, Crash, Notice, Restart,
     Replace, ledger, memory
<1>3. Sent(r)' = Sent(r)
  BY <1>2 DEF Sent
<1>4. \E batch \in Seq(Ticket) :
         /\ \A i \in DOMAIN batch : batch[i].reader # r
         /\ inbox' = inbox \/ inbox' = inbox \o batch
  <2>1. CASE inbox' = inbox
    <3>1. <<>> \in Seq(Ticket) /\ \A i \in DOMAIN <<>> : <<>>[i].reader # r
      OBVIOUS
    <3> QED
      BY <2>1, <3>1
  <2>2. CASE Finish(p)
    <3> DEFINE batch == Append(tickets[p], [kind |-> "release",
                                            slot |-> Head(views[p]).slot,
                                            gen |-> Head(views[p]).gen, reader |-> p])
    <3>1. /\ batch \in Seq(Ticket)
          /\ \A i \in DOMAIN batch : batch[i].kind = "release" /\ batch[i].reader = p
      BY <1>t, <2>2, OwnBatch
    <3>2. inbox' = inbox \/ inbox' = inbox \o batch
      BY <2>2 DEF Finish, SendMail
    <3> HIDE DEF batch
    <3>3. \A i \in DOMAIN batch : batch[i].reader # r
      BY <3>1
    <3> QED
      BY <3>1, <3>2, <3>3
  <2>3. CASE IdleFlush(p) \/ Replace(p)
    <3>1. tickets[p] \in Seq(Ticket) /\ (inbox' = inbox \/ inbox' = inbox \o tickets[p])
      BY <1>t, <2>3, PlaceTypes DEF IdleFlush, Replace, SendMail
    <3>2. \A i \in DOMAIN tickets[p] : tickets[p][i].reader # r
      BY DEF OwnTickets
    <3> QED
      BY <3>1, <3>2
  <2>4. CASE Notice(p)
    <3>1. /\ Reclaim(p) \in Seq(Ticket)
          /\ \A i \in DOMAIN Reclaim(p) : Reclaim(p)[i].reader = p
      BY ReclaimType
    <3>2. inbox' = inbox \/ inbox' = inbox \o Reclaim(p)
      BY <2>4 DEF Notice, SendMail
    <3>3. \A i \in DOMAIN Reclaim(p) : Reclaim(p)[i].reader # r
      BY <3>1
    <3> QED
      BY <3>1, <3>2, <3>3
  <2>5. inbox' = inbox \/ Finish(p) \/ IdleFlush(p) \/ Replace(p) \/ Notice(p)
    BY DEF Reader, Works, Take, TakeNoView, Crash, Restart
  <2> QED
    BY <2>1, <2>2, <2>3, <2>4, <2>5
<1> QED
  BY <1>1, <1>2, <1>3, <1>4, OthersStep

\* The reader takes a frame: its slot moves from the queue into a view.
LEMMA TakeKeeps ==
    ASSUME PoolInv, ring = 0, NEW r \in Readers, KeepsLoans(r), Take(r)
    PROVE  KeepsLoans(r)' /\ Load(r)' = Load(r)
<1> DEFINE q == dataq[r]
           m == Head(q)
           view == [frame |-> m.frame, slot |-> m.slot, ring |-> m.ring,
                    gen |-> gen[m.ring][m.slot], pixels |-> pixels[m.ring][m.slot]]
<1>t. /\ TypeOK /\ dataq \in [Readers -> Seq(Coords)] /\ views \in [Readers -> Seq(View)]
      /\ gen \in [Rings -> [Slots -> Nat]] /\ pixels \in [Rings -> [Slots -> Frames]]
  BY DEF PoolInv, TypeOK
<1>k. OnceEach(r) /\ Apart(r) /\ Lent(r) /\ status[r] = "up"
      /\ DataFaithful(r) /\ ViewsFaithful(r) /\ BatchFaithful(r) /\ MailFaithful(r)
  BY DEF KeepsLoans, Faithful
<1>1. /\ q \in Seq(Coords) /\ q # <<>> /\ views[r] \in Seq(View)
      /\ m \in Coords /\ Tail(q) \in Seq(Coords) /\ m.slot # NoSlot
  BY <1>t, HeadOfSeq DEF Take, Readable
<1>2. Announced(m)
  <2>1. 1 \in DOMAIN q /\ q[1] = m
    BY <1>1, TailElements
  <2> QED
    BY <1>k, <2>1 DEF DataFaithful
<1>3. view \in View /\ Seen(view) /\ ViewKey[view] = m.slot /\ CoordsKey[m] = m.slot
  <2>1. m.frame \in Frames /\ m.slot \in Slots /\ m.ring \in Rings
    BY <1>1 DEF Coords
  <2>2. view \in View
    BY <1>t, <2>1 DEF View
  <2>3. Seen(view)
    BY <1>1, <1>2 DEF Seen, Announced
  <2> QED
    BY <1>1, <2>2, <2>3, KeyFacts
<1>4. /\ dataq' = [dataq EXCEPT ![r] = Tail(q)]
      /\ views' = [views EXCEPT ![r] = Append(views[r], view)]
      /\ UNCHANGED <<refcount, released, gen, pixels, src, inbox, tickets, status>>
  BY DEF Take, ledger, memory
<1>5. dataq'[r] = Tail(q) /\ views'[r] = Append(views[r], view)
  BY <1>t, <1>4
<1>6. /\ Once(Tail(q), CoordsKey) /\ Held(Tail(q), CoordsKey) = Queued(r) \ {m.slot}
      /\ m.slot \in Queued(r)
  BY <1>1, <1>3, <1>k, HeldTail DEF OnceEach, Queued
<1>7. m.slot \notin Viewed(r)
  BY <1>6, <1>k DEF Apart
<1>8. /\ Once(Append(views[r], view), ViewKey)
      /\ Held(Append(views[r], view), ViewKey) = Viewed(r) \union {m.slot}
  <2>1. Once(views[r], ViewKey) /\ ViewKey[view] \notin Held(views[r], ViewKey)
    BY <1>3, <1>7, <1>k DEF OnceEach, Viewed
  <2>2. view \in View /\ ViewKey[view] = m.slot
    BY <1>3
  <2> HIDE DEF view
  <2> QED
    BY <1>1, <2>1, <2>2, HeldAppend DEF Viewed
<1>9. \A i \in DOMAIN Tail(q) : Announced(Tail(q)[i])
  <2> DEFINE tl == Tail(q)
  <2>1. \A i \in DOMAIN tl : i + 1 \in DOMAIN q /\ tl[i] = q[i + 1]
    BY <1>1, TailElements
  <2>2. \A i \in DOMAIN q : Announced(q[i])
    BY <1>k DEF DataFaithful
  <2> HIDE DEF tl, q
  <2> QED
    BY <2>1, <2>2 DEF tl
<1>10. \A i \in DOMAIN Append(views[r], view) : Seen(Append(views[r], view)[i])
  <2>1. \A i \in DOMAIN views[r] : Seen(views[r][i])
    BY <1>k DEF ViewsFaithful
  <2>2. view \in View /\ Seen(view)
    BY <1>3
  <2> HIDE DEF view
  <2>3. \A i \in DOMAIN Append(views[r], view) :
            \/ Append(views[r], view)[i] = view
            \/ i \in DOMAIN views[r] /\ Append(views[r], view)[i] = views[r][i]
    BY <1>1, <2>2, AppendElements
  <2> QED
    BY <2>1, <2>2, <2>3
<1> HIDE DEF q, m, view
<1>11. DataFaithful(r)'
  BY <1>4, <1>5, <1>9 DEF DataFaithful, Announced
<1>12. ViewsFaithful(r)'
  BY <1>4, <1>5, <1>10 DEF ViewsFaithful, Seen
<1>13. OnceEach(r)' /\ Faithful(r)' /\ status'[r] = "up"
  BY <1>4, <1>5, <1>6, <1>8, <1>11, <1>12, <1>k
     DEF OnceEach, Faithful, BatchFaithful, MailFaithful, Current
<1>14. /\ Queued(r)' = Queued(r) \ {m.slot} /\ Viewed(r)' = Viewed(r) \union {m.slot}
       /\ Batched(r)' = Batched(r) /\ Mailed(r)' = Mailed(r) /\ Sent(r)' = Sent(r)
  BY <1>4, <1>5, <1>6, <1>8 DEF Queued, Viewed, Batched, Mailed, Sent
<1>15. Load(r)' = Load(r)
  BY <1>6, <1>14 DEF Load
<1>16. Apart(r)'
  BY <1>6, <1>14, <1>k DEF Apart
<1>17. Lent(r)'
  BY <1>4, <1>15, <1>k DEF Lent
<1> QED
  BY <1>13, <1>15, <1>16, <1>17 DEF KeepsLoans

\* A bystander's message that yields no view had no slot to begin with.
LEMMA TakeNoViewKeeps ==
    ASSUME PoolInv, ring = 0, NEW r \in Readers, KeepsLoans(r), TakeNoView(r)
    PROVE  KeepsLoans(r)' /\ Load(r)' = Load(r)
<1> DEFINE q == dataq[r]
           m == Head(q)
<1>t. TypeOK /\ dataq \in [Readers -> Seq(Coords)]
  BY DEF PoolInv, TypeOK
<1>k. OnceEach(r) /\ Apart(r) /\ Lent(r) /\ status[r] = "up"
      /\ DataFaithful(r) /\ ViewsFaithful(r) /\ BatchFaithful(r) /\ MailFaithful(r)
  BY DEF KeepsLoans, Faithful
<1>1. q \in Seq(Coords) /\ q # <<>> /\ m \in Coords /\ CoordsKey[m] = m.slot
  BY <1>t, HeadOfSeq, KeyFacts DEF TakeNoView
<1>2. Announced(m)
  <2>1. 1 \in DOMAIN q /\ q[1] = m
    BY <1>1, TailElements
  <2> QED
    BY <1>k, <2>1 DEF DataFaithful
<1>3. Once(Tail(q), CoordsKey) /\ Held(Tail(q), CoordsKey) = Queued(r) \ {m.slot}
      /\ (m.slot # NoSlot => m.slot \in Queued(r))
  BY <1>1, <1>k, HeldTail DEF OnceEach, Queued
<1>4. m.slot = NoSlot
  <2> SUFFICES ASSUME m.slot # NoSlot PROVE FALSE
    OBVIOUS
  <2>1. m.slot \in Load(r)
    BY <1>3 DEF Load
  <2>2. ~ Writing(m.ring, m.slot)
    BY <2>1, WriterSlotFree DEF Writing
  <2>3. m.ring = ring /\ pixels[m.ring][m.slot] # 0
    <3>1. m.frame \in Frames /\ m.frame > 0
      BY <1>1, <1>2 DEF Coords, Announced
    <3>2. m.frame # 0
      BY <3>1
    <3> QED
      BY <1>2, <3>2 DEF Announced
  <2> QED
    BY <2>2, <2>3 DEF TakeNoView, Readable
<1>5. /\ dataq' = [dataq EXCEPT ![r] = Tail(q)]
      /\ UNCHANGED <<refcount, released, gen, pixels, src, inbox, tickets, views, status>>
  BY DEF TakeNoView, ledger, memory
<1>6. dataq'[r] = Tail(q)
  BY <1>t, <1>5
<1>7. \A i \in DOMAIN Tail(q) : Announced(Tail(q)[i])
  <2> DEFINE tl == Tail(q)
  <2>1. \A i \in DOMAIN tl : i + 1 \in DOMAIN q /\ tl[i] = q[i + 1]
    BY <1>1, TailElements
  <2>2. \A i \in DOMAIN q : Announced(q[i])
    BY <1>k DEF DataFaithful
  <2> HIDE DEF tl, q
  <2> QED
    BY <2>1, <2>2 DEF tl
<1>8. NoSlot \notin Queued(r)
  BY DEF Queued, Held
<1> HIDE DEF q, m
<1>9. DataFaithful(r)'
  BY <1>5, <1>6, <1>7 DEF DataFaithful, Announced
<1>10. OnceEach(r)' /\ Faithful(r)' /\ status'[r] = "up"
  BY <1>3, <1>5, <1>6, <1>9, <1>k
     DEF OnceEach, Faithful, BatchFaithful, MailFaithful, ViewsFaithful, Seen, Current
<1>11. /\ Queued(r)' = Queued(r) /\ Viewed(r)' = Viewed(r)
       /\ Batched(r)' = Batched(r) /\ Mailed(r)' = Mailed(r) /\ Sent(r)' = Sent(r)
  BY <1>3, <1>4, <1>5, <1>6, <1>8 DEF Queued, Viewed, Batched, Mailed, Sent
<1>12. Load(r)' = Load(r) /\ Apart(r)'
  BY <1>11, <1>k DEF Load, Apart
<1>13. Lent(r)'
  BY <1>5, <1>12, <1>k DEF Lent
<1> QED
  BY <1>10, <1>12, <1>13 DEF KeepsLoans

\* The reader mails a batch of its own tickets, or the mail is lost.
LEMMA FlushKeeps ==
    ASSUME TypeOK, NEW r \in Readers, OnceEach(r), MailFaithful(r),
           NEW batch \in Seq(Ticket), Once(batch, MailKey(r)),
           Held(batch, MailKey(r)) \cap Mailed(r) = {},
           \A i \in DOMAIN batch : batch[i].kind = "release" /\ Current(batch[i]),
           SendMail(batch), gen' = gen
    PROVE  /\ Once(inbox, MailKey(r))' /\ MailFaithful(r)'
           /\ \/ Lossy /\ Mailed(r)' = Mailed(r)
              \/ Mailed(r)' = Mailed(r) \union Held(batch, MailKey(r))
<1>1. CASE inbox' = inbox \o batch
  <2>1. \A i \in DOMAIN batch :
            batch[i].reader = r => batch[i].kind # "reclaim" /\ Current(batch[i])
    OBVIOUS
  <2> QED
    BY <1>1, <2>1, MailGrows
<1>2. CASE Lossy /\ inbox' = inbox
  BY <1>2 DEF OnceEach, MailFaithful, Mailed, Current
<1> QED
  BY <1>1, <1>2 DEF SendMail

\* The reader has finished its oldest view: the slot moves into the batch.
LEMMA FinishKeeps ==
    ASSUME PoolInv, OwnTickets, NEW r \in Readers, KeepsLoans(r), Finish(r)
    PROVE  /\ KeepsLoans(r)' /\ Load(r)' \subseteq Load(r)
           /\ ~ Lossy => Load(r)' = Load(r)
<1> DEFINE q == views[r]
           v == Head(q)
           ticket == [kind |-> "release", slot |-> v.slot, gen |-> v.gen, reader |-> r]
           batch  == Append(tickets[r], ticket)
<1>t. /\ TypeOK /\ views \in [Readers -> Seq(View)]
      /\ tickets \in [Readers -> Seq(Ticket)] /\ tickets[r] \in Seq(Ticket)
  BY PlaceTypes DEF PoolInv, TypeOK
<1>k. OnceEach(r) /\ Apart(r) /\ Lent(r) /\ status[r] = "up"
      /\ DataFaithful(r) /\ ViewsFaithful(r) /\ BatchFaithful(r) /\ MailFaithful(r)
  BY DEF KeepsLoans, Faithful
<1>n. NoSlot \notin Slots
  BY SlotFacts
<1>1. q \in Seq(View) /\ q # <<>> /\ v \in View /\ Tail(q) \in Seq(View)
      /\ ViewKey[v] = v.slot /\ v.slot # NoSlot
  <2>1. q \in Seq(View) /\ q # <<>>
    BY <1>t DEF Finish
  <2>2. v \in View /\ Tail(q) \in Seq(View)
    BY <2>1, HeadOfSeq
  <2> QED
    BY <1>n, <2>1, <2>2, KeyFacts
<1>2. Seen(v)
  <2>1. 1 \in DOMAIN q /\ q[1] = v
    BY <1>1, TailElements
  <2> QED
    BY <1>k, <2>1 DEF ViewsFaithful
<1>3. ticket \in Ticket /\ MailKey(r)[ticket] = v.slot /\ Current(ticket)
      /\ ticket.kind = "release" /\ ticket.reader = r
  <2>1. ticket \in Ticket
    BY <1>1 DEF View, Ticket
  <2>2. ticket.kind = "release" /\ ticket.reader = r /\ ticket.slot = v.slot
        /\ ticket.gen = v.gen
    OBVIOUS
  <2>3. Current(ticket)
    BY <1>2, <2>2 DEF Current, Seen
  <2> HIDE DEF ticket
  <2> QED
    BY <2>1, <2>2, <2>3, KeyFacts
<1>4. /\ Once(Tail(q), ViewKey) /\ Held(Tail(q), ViewKey) = Viewed(r) \ {v.slot}
      /\ v.slot \in Viewed(r)
  BY <1>1, <1>k, HeldTail DEF OnceEach, Viewed
<1>5. v.slot \notin Batched(r) \union Mailed(r)
  BY <1>4, <1>k DEF Apart
<1>6. /\ batch \in Seq(Ticket) /\ Once(batch, MailKey(r))
      /\ Held(batch, MailKey(r)) = Batched(r) \union {v.slot}
      /\ \A i \in DOMAIN batch :
             batch[i].kind = "release" /\ batch[i].reader = r /\ Current(batch[i])
  <2>1. ticket \in Ticket /\ MailKey(r)[ticket] = v.slot /\ Current(ticket)
        /\ ticket.kind = "release" /\ ticket.reader = r
    BY <1>3
  <2> HIDE DEF ticket, v
  <2>2. batch \in Seq(Ticket)
    <3> HIDE DEF Ticket
    <3> QED
      BY <1>t, <2>1
  <2>3. Once(tickets[r], MailKey(r)) /\ MailKey(r)[ticket] \notin Held(tickets[r], MailKey(r))
    BY <1>5, <1>k, <2>1 DEF OnceEach, Batched
  <2>4. Once(batch, MailKey(r)) /\ Held(batch, MailKey(r)) = Batched(r) \union {v.slot}
    BY <1>1, <1>t, <2>1, <2>3, HeldAppend DEF Batched
  <2>5. \A i \in DOMAIN batch : \/ batch[i] = ticket
                                \/ i \in DOMAIN tickets[r] /\ batch[i] = tickets[r][i]
    BY <1>t, <2>1, AppendElements
  <2>6. \A i \in DOMAIN tickets[r] : /\ tickets[r][i].kind = "release"
                                     /\ tickets[r][i].reader = r /\ Current(tickets[r][i])
    BY <1>k DEF BatchFaithful
  <2>7. \A i \in DOMAIN batch :
            batch[i].kind = "release" /\ batch[i].reader = r /\ Current(batch[i])
    <3> HIDE DEF batch
    <3> QED
      BY <2>1, <2>5, <2>6
  <2> QED
    BY <2>2, <2>4, <2>7
<1>7. /\ views' = [views EXCEPT ![r] = Tail(q)]
      /\ \/ tickets' = [tickets EXCEPT ![r] = <<>>] /\ SendMail(batch)
         \/ tickets' = [tickets EXCEPT ![r] = batch] /\ inbox' = inbox
      /\ UNCHANGED <<refcount, released, gen, pixels, src, dataq, status>>
  BY DEF Finish, ledger, memory
<1>8. views'[r] = Tail(q)
  BY <1>t, <1>7
<1>9. \A i \in DOMAIN Tail(q) : Seen(Tail(q)[i])
  <2> DEFINE tl == Tail(q)
  <2>1. \A i \in DOMAIN tl : i + 1 \in DOMAIN q /\ tl[i] = q[i + 1]
    BY <1>1, TailElements
  <2>2. \A i \in DOMAIN q : Seen(q[i])
    BY <1>k DEF ViewsFaithful
  <2> HIDE DEF tl, q
  <2> QED
    BY <2>1, <2>2 DEF tl
<1> HIDE DEF q, v, ticket, batch
<1>10. ViewsFaithful(r)' /\ DataFaithful(r)'
  BY <1>7, <1>8, <1>9, <1>k DEF ViewsFaithful, DataFaithful, Seen, Announced
<1>11. /\ Queued(r)' = Queued(r) /\ Sent(r)' = Sent(r) /\ Viewed(r)' = Viewed(r) \ {v.slot}
       /\ Once(dataq[r], CoordsKey)' /\ Once(views[r], ViewKey)' /\ status'[r] = "up"
  BY <1>4, <1>7, <1>8, <1>k DEF Queued, Sent, Viewed, OnceEach
<1>12. CASE tickets' = [tickets EXCEPT ![r] = batch] /\ inbox' = inbox
  <2>1. tickets'[r] = batch
    BY <1>t, <1>12
  <2>2. /\ Batched(r)' = Batched(r) \union {v.slot} /\ Mailed(r)' = Mailed(r)
        /\ Once(tickets[r], MailKey(r))' /\ Once(inbox, MailKey(r))'
    BY <1>6, <1>12, <1>k, <2>1 DEF Batched, Mailed, OnceEach
  <2>3. BatchFaithful(r)' /\ MailFaithful(r)'
    BY <1>6, <1>7, <1>12, <1>k, <2>1 DEF BatchFaithful, MailFaithful, Current
  <2>4. OnceEach(r)' /\ Faithful(r)'
    BY <1>10, <1>11, <2>2, <2>3 DEF OnceEach, Faithful
  <2>5. Load(r)' = Load(r)
    BY <1>4, <1>11, <2>2 DEF Load
  <2>6. Apart(r)'
    BY <1>4, <1>11, <1>k, <2>2 DEF Apart
  <2>7. Lent(r)'
    BY <1>7, <1>k, <2>5 DEF Lent
  <2> QED
    BY <1>11, <2>4, <2>5, <2>6, <2>7 DEF KeepsLoans
<1>13. CASE tickets' = [tickets EXCEPT ![r] = <<>>] /\ SendMail(batch)
  <2>1. tickets'[r] = <<>>
    BY <1>t, <1>13
  <2>2. Batched(r)' = {} /\ Once(tickets[r], MailKey(r))' /\ BatchFaithful(r)'
    <3>1. Held(<<>>, MailKey(r)) = {} /\ Once(<<>>, MailKey(r)) /\ DOMAIN <<>> = {}
      BY HeldNone
    <3> QED
      BY <2>1, <3>1 DEF Batched, BatchFaithful
  <2>3. Held(batch, MailKey(r)) \cap Mailed(r) = {}
    BY <1>5, <1>6, <1>k DEF Apart
  <2>4. /\ Once(inbox, MailKey(r))' /\ MailFaithful(r)'
        /\ \/ Lossy /\ Mailed(r)' = Mailed(r)
           \/ Mailed(r)' = Mailed(r) \union Batched(r) \union {v.slot}
    <3>1. \A i \in DOMAIN batch : batch[i].kind = "release" /\ Current(batch[i])
      BY <1>6
    <3>2. /\ Once(inbox, MailKey(r))' /\ MailFaithful(r)'
          /\ \/ Lossy /\ Mailed(r)' = Mailed(r)
             \/ Mailed(r)' = Mailed(r) \union Held(batch, MailKey(r))
      BY <1>t, <1>6, <1>7, <1>13, <1>k, <2>3, <3>1, FlushKeeps
    <3> QED
      BY <1>6, <3>2
  <2>5. OnceEach(r)' /\ Faithful(r)'
    BY <1>10, <1>11, <2>2, <2>4 DEF OnceEach, Faithful
  <2>6. Load(r)' \subseteq Load(r) /\ (~ Lossy => Load(r)' = Load(r))
    BY <1>4, <1>11, <2>2, <2>4 DEF Load
  <2>7. Apart(r)'
    BY <1>4, <1>11, <1>k, <2>2, <2>4 DEF Apart
  <2>8. Lent(r)'
    BY <1>7, <1>k, <2>6 DEF Lent
  <2> QED
    BY <1>11, <2>5, <2>6, <2>7, <2>8 DEF KeepsLoans
<1> QED
  BY <1>7, <1>12, <1>13

LEMMA IdleFlushKeeps ==
    ASSUME PoolInv, NEW r \in Readers, KeepsLoans(r), IdleFlush(r)
    PROVE  /\ KeepsLoans(r)' /\ Load(r)' \subseteq Load(r)
           /\ ~ Lossy => Load(r)' = Load(r)
<1>t. /\ TypeOK /\ tickets \in [Readers -> Seq(Ticket)] /\ tickets[r] \in Seq(Ticket)
  BY PlaceTypes DEF PoolInv, TypeOK
<1>k. OnceEach(r) /\ Apart(r) /\ Lent(r) /\ status[r] = "up"
      /\ DataFaithful(r) /\ ViewsFaithful(r) /\ BatchFaithful(r) /\ MailFaithful(r)
  BY DEF KeepsLoans, Faithful
<1>1. /\ tickets'[r] = <<>> /\ SendMail(tickets[r])
      /\ UNCHANGED <<refcount, released, gen, pixels, src, dataq, views, status>>
  BY <1>t DEF IdleFlush, ledger, memory
<1>2. Batched(r)' = {} /\ Once(tickets[r], MailKey(r))' /\ BatchFaithful(r)'
  <2>1. Held(<<>>, MailKey(r)) = {} /\ Once(<<>>, MailKey(r)) /\ DOMAIN <<>> = {}
    BY HeldNone
  <2> QED
    BY <1>1, <2>1 DEF Batched, BatchFaithful
<1>3. /\ Once(inbox, MailKey(r))' /\ MailFaithful(r)'
      /\ \/ Lossy /\ Mailed(r)' = Mailed(r)
         \/ Mailed(r)' = Mailed(r) \union Batched(r)
  <2> DEFINE batch == tickets[r]
  <2>1. /\ batch \in Seq(Ticket) /\ Once(batch, MailKey(r))
        /\ Held(batch, MailKey(r)) = Batched(r)
        /\ Held(batch, MailKey(r)) \cap Mailed(r) = {}
        /\ \A i \in DOMAIN batch : batch[i].kind = "release" /\ Current(batch[i])
        /\ SendMail(batch) /\ gen' = gen
    BY <1>t, <1>1, <1>k DEF OnceEach, Apart, Batched, BatchFaithful
  <2> HIDE DEF batch
  <2>2. /\ Once(inbox, MailKey(r))' /\ MailFaithful(r)'
        /\ \/ Lossy /\ Mailed(r)' = Mailed(r)
           \/ Mailed(r)' = Mailed(r) \union Held(batch, MailKey(r))
    BY <1>t, <1>k, <2>1, FlushKeeps
  <2> QED
    BY <2>1, <2>2
<1>4. /\ Queued(r)' = Queued(r) /\ Sent(r)' = Sent(r) /\ Viewed(r)' = Viewed(r)
      /\ Once(dataq[r], CoordsKey)' /\ Once(views[r], ViewKey)' /\ status'[r] = "up"
  BY <1>1, <1>k DEF Queued, Sent, Viewed, OnceEach
<1>5. ViewsFaithful(r)' /\ DataFaithful(r)'
  BY <1>1, <1>k DEF ViewsFaithful, DataFaithful, Seen, Announced
<1>6. OnceEach(r)' /\ Faithful(r)'
  BY <1>2, <1>3, <1>4, <1>5 DEF OnceEach, Faithful
<1>7. Load(r)' \subseteq Load(r) /\ (~ Lossy => Load(r)' = Load(r))
  BY <1>2, <1>3, <1>4 DEF Load
<1>8. Apart(r)'
  BY <1>2, <1>3, <1>4, <1>k DEF Apart
<1>9. Lent(r)'
  BY <1>1, <1>7, <1>k DEF Lent
<1> QED
  BY <1>4, <1>6, <1>7, <1>8, <1>9 DEF KeepsLoans

-----------------------------------------------------------------------------
(* The invariant of every reader that never died.                          *)

LEMMA ItemStep ==
    ASSUME TargetsOnce, PoolInv, ItemShape, [Next]_vars PROVE ItemShape'
<1> DEFINE TodoOnce == \A i, j \in DOMAIN src.todo : src.todo[i] = src.todo[j] => i = j
<1>t. /\ SrcType /\ TypeOK
      /\ pixels \in [Rings -> [Slots -> Frames]] /\ ring \in Rings /\ 0 \in Rings
  BY TypeParts, SlotFacts DEF PoolInv, TypeOK
<1>i. /\ TodoOnce /\ (src.at # "idle" => src.frame > 0)
      /\ (src.at = "strip" => src.slot = NoSlot)
      /\ ring = 0 /\ src.at = "put" /\ src.slot # NoSlot => pixels[0][src.slot] = src.frame
  BY DEF ItemShape
<1>1. CASE Produce
  <2>1. src' = [at |-> "strip", frame |-> src.frame + 1, slot |-> NoSlot, todo |-> Targets]
    BY <1>1 DEF Produce
  <2>2. src.frame \in Nat
    BY <1>t, SlotFacts DEF SrcType
  <2> QED
    BY <2>1, <2>2 DEF ItemShape, TargetsOnce
<1>2. CASE SendRest /\ UNCHANGED <<ring, pixels>> /\ src.at # "idle" /\ src.todo # <<>>
           /\ (src.at = "put" \/ src.slot = NoSlot)
  <2> DEFINE q == src.todo
  <2>1. q \in Seq(Readers) /\ q # <<>>
    BY <1>t, <1>2 DEF SrcType
  <2>2. /\ DOMAIN q = 1 .. Len(q) /\ DOMAIN Tail(q) = 1 .. (Len(q) - 1) /\ Len(q) \in Nat
        /\ \A i \in DOMAIN Tail(q) : i + 1 \in DOMAIN q /\ Tail(q)[i] = q[i + 1]
    BY <2>1, TailElements
  <2>3. \A i, j \in DOMAIN Tail(q) : Tail(q)[i] = Tail(q)[j] => i = j
    <3> SUFFICES ASSUME NEW i \in DOMAIN Tail(q), NEW j \in DOMAIN Tail(q),
                        Tail(q)[i] = Tail(q)[j]
                 PROVE  i = j
      OBVIOUS
    <3>1. i + 1 = j + 1 /\ i \in Nat /\ j \in Nat
      <4>1. q[i + 1] = q[j + 1] /\ i + 1 \in DOMAIN q /\ j + 1 \in DOMAIN q
        BY <2>2
      <4>2. i \in Nat /\ j \in Nat
        BY <2>2
      <4> QED
        BY <1>i, <4>1, <4>2
    <3> QED
      BY <3>1
  <2>4. src' = [at |-> IF Len(src.todo) = 1 THEN "idle"
                       ELSE IF src.slot = NoSlot THEN "strip" ELSE "put",
                frame |-> src.frame, slot |-> src.slot, todo |-> Tail(src.todo)]
    BY <1>t, <1>2 DEF SendRest, SrcType
  <2>5. \A i, j \in DOMAIN src'.todo : src'.todo[i] = src'.todo[j] => i = j
    BY <2>3, <2>4
  <2>6. src'.frame > 0 /\ (src'.at = "strip" => src'.slot = NoSlot)
    BY <1>i, <1>2, <2>4
  <2>7. ring = 0 /\ src'.slot # NoSlot => pixels[0][src'.slot] = src'.frame
    BY <1>i, <1>2, <2>4
  <2> QED
    BY <1>2, <2>5, <2>6, <2>7 DEF ItemShape
<1>3. CASE Exhausted \/ Deliver
  <2>1. SendRest /\ UNCHANGED <<ring, pixels>> /\ src.at \in {"strip", "put"}
    BY <1>3 DEF Exhausted, Deliver, memory
  <2>2. src.todo # <<>>
    BY <2>1 DEF PoolInv, SrcShape
  <2> QED
    BY <1>2, <1>i, <2>1, <2>2
<1>4. CASE Reallocate
  BY <1>t, <1>i, <1>4 DEF Reallocate, SrcType, ItemShape
<1>5. CASE Commit
  <2>1. src.slot \in Slots
    BY <1>5 DEF Commit, PoolInv, SrcShape
  <2>2. src'.at = "put" /\ src'.slot = src.slot /\ src'.todo = src.todo
        /\ src'.frame = src.frame /\ src.at = "write"
    BY <1>t, <1>5 DEF Commit, SrcType
  <2>3. ring = 0 => pixels'[0][src.slot] = src.frame
    BY <1>t, <1>5, <2>1 DEF Commit
  <2>4. ring' = ring
    BY <1>5 DEF Commit
  <2> QED
    BY <1>i, <2>2, <2>3, <2>4 DEF ItemShape
<1>6. CASE Abort
  BY <1>t, <1>i, <1>6 DEF Abort, SrcType, ItemShape
<1>7. ASSUME NEW s \in Slots, Acquire(s) PROVE ItemShape'
  BY <1>t, <1>i, <1>7 DEF Acquire, SrcType, ItemShape
<1>8. CASE UNCHANGED <<src, ring, pixels>>
  BY <1>8 DEF ItemShape
<1>9. Source \/ UNCHANGED <<src, ring, pixels>>
  BY DEF Next, Owner, OwnerHandle, Settle, Reader, Works, Take, TakeNoView, Finish,
     IdleFlush, Crash, Notice, Restart, Replace, vars, memory
<1> QED
  BY <1>1, <1>3, <1>4, <1>5, <1>6, <1>7, <1>8, <1>9 DEF Source

\* One reader, one step.
LEMMA BystanderStep ==
    ASSUME PoolInv, ItemShape, OwnTickets, ring = 0, ring' = 0, raced = {}, raced' = {},
           NEW r \in Readers, r \notin crashed', KeepsLoans(r), [Next]_vars
    PROVE  /\ KeepsLoans(r)'
           /\ \/ OwnerHandle \/ Lossy \/ Load(r)' = Load(r)
              \/ Commit /\ Load(r)' = Load(r) \union Sent(r)'
<1>1. CASE Produce \/ Exhausted \/ Abort \/ \E s \in Slots : Acquire(s)
  BY <1>1, WriterSilent
<1>2. CASE Commit
  BY <1>2, WriterCommits
<1>3. CASE Deliver
  BY <1>3, DeliverElsewhere, DeliverHere
<1>4. CASE Reallocate
  BY <1>4 DEF Reallocate
<1>5. CASE Owner
  BY <1>5, OwnerKeeps, SettleKeeps DEF Owner
<1>6. ASSUME NEW p \in Readers, Reader(p), p # r
      PROVE  KeepsLoans(r)' /\ Load(r)' = Load(r)
  BY <1>6, ReaderElsewhere
<1>7. CASE Reader(r)
  <2>1. Works(r)
    <3>1. status[r] = "up"
      BY DEF KeepsLoans
    <3>2. ~ Notice(r) /\ ~ Restart(r)
      BY <3>1 DEF Notice, Restart
    <3>3. ~ Crash(r) /\ ~ Replace(r)
      BY DEF Crash, Replace
    <3> QED
      BY <1>7, <3>2, <3>3 DEF Reader
  <2> QED
    BY <2>1, TakeKeeps, TakeNoViewKeeps, FinishKeeps, IdleFlushKeeps DEF Works
<1>8. CASE UNCHANGED vars
  <2>1. UNCHANGED <<src, dataq, views, tickets, inbox, status, gen, pixels, refcount,
                    released>>
    BY <1>8 DEF vars, ledger, memory, reader
  <2>2. Load(r)' = Load(r) /\ Apart(r)'
    BY <2>1 DEF Load, Sent, Queued, Viewed, Batched, Mailed, Apart, KeepsLoans
  <2>3. OnceEach(r)' /\ Lent(r)' /\ status'[r] = "up"
    BY <2>1, <2>2 DEF OnceEach, Lent, KeepsLoans
  <2>4. Faithful(r)'
    BY <2>1 DEF KeepsLoans, Faithful, DataFaithful, ViewsFaithful, BatchFaithful,
       MailFaithful, Announced, Seen, Current
  <2> QED
    BY <2>2, <2>3, <2>4 DEF KeepsLoans
<1> QED
  BY <1>1, <1>2, <1>3, <1>4, <1>5, <1>6, <1>7, <1>8 DEF Next, Source

LEMMA HistoryGrows ==
    ASSUME PoolInv, [Next]_vars
    PROVE  /\ crashed \subseteq crashed' /\ (ring' = 0 => ring = 0)
           /\ ring' = 0 /\ raced' = {} => raced = {}
<1>1. CASE Source
  <2>1. crashed' = crashed
    BY <1>1 DEF Source, Produce, Exhausted, Reallocate, Commit, Abort, Deliver, Acquire,
       reader
  <2>2. ring \in Nat
    BY SlotFacts DEF PoolInv, TypeOK
  <2>3. (ring' = ring /\ raced \subseteq raced') \/ ring' = ring + 1
    BY <1>1 DEF Source, Produce, Exhausted, Reallocate, Commit, Abort, Deliver,
       Acquire, memory, ledger
  <2> QED
    BY <2>1, <2>2, <2>3
<1>2. CASE Owner \/ UNCHANGED vars
  BY <1>2 DEF Owner, OwnerHandle, Settle, vars, memory, reader, ledger
<1>3. ASSUME NEW p \in Readers, Reader(p)
      PROVE  crashed \subseteq crashed' /\ ring' = ring /\ raced' = raced
  BY <1>3 DEF Reader, Works, Take, TakeNoView, Finish, IdleFlush, Crash, Notice, Restart,
     Replace, memory, ledger
<1> QED
  BY <1>1, <1>2, <1>3 DEF Next

LEMMA LoanInit == ASSUME Init PROVE LoanInv
<1>1. ItemShape
  BY DEF Init, ItemShape
<1>2. OwnTickets
  BY DEF Init, OwnTickets
<1>3. ASSUME NEW r \in Readers PROVE KeepsLoans(r)
  <2>1. dataq[r] = <<>> /\ views[r] = <<>> /\ tickets[r] = <<>> /\ inbox = <<>>
        /\ src.at = "idle" /\ status[r] = "up"
    BY DEF Init
  <2>2. /\ Held(<<>>, CoordsKey) = {} /\ Held(<<>>, ViewKey) = {}
        /\ Held(<<>>, MailKey(r)) = {} /\ Once(<<>>, CoordsKey)
        /\ Once(<<>>, ViewKey) /\ Once(<<>>, MailKey(r))
    BY HeldNone
  <2>3. /\ Sent(r) = {} /\ Queued(r) = {} /\ Viewed(r) = {} /\ Batched(r) = {}
        /\ Mailed(r) = {}
    BY <2>1, <2>2 DEF Sent, Queued, Viewed, Batched, Mailed
  <2>4. OnceEach(r) /\ Apart(r) /\ Lent(r)
    BY <2>1, <2>2, <2>3 DEF OnceEach, Apart, Lent, Load
  <2>5. Faithful(r)
    BY <2>1 DEF Faithful, DataFaithful, ViewsFaithful, BatchFaithful, MailFaithful
  <2> QED
    BY <2>1, <2>4, <2>5 DEF KeepsLoans
<1> QED
  BY <1>1, <1>2, <1>3 DEF LoanInv

LEMMA LoanStep ==
    ASSUME TargetsOnce, PoolInv, LoanInv, [Next]_vars PROVE LoanInv'
<1>1. ItemShape' /\ OwnTickets'
  BY ItemStep, TicketsStayOwn DEF LoanInv
<1>2. ASSUME ring' = 0, raced' = {}, NEW r \in Readers, r \notin crashed'
      PROVE  KeepsLoans(r)'
  <2>1. ring = 0 /\ raced = {} /\ r \notin crashed
    BY <1>2, HistoryGrows
  <2> QED
    BY <1>2, <2>1, BystanderStep DEF LoanInv
<1> QED
  BY <1>1, <1>2 DEF LoanInv

LEMMA KeptFramesStay ==
    ASSUME PoolInv, LoanInv PROVE BystandersKeepFrames
<1> SUFFICES ASSUME ring = 0, raced = {}, NEW r \in Readers \ crashed
             PROVE  FrameStays(r)
  BY DEF BystandersKeepFrames
<1>k. KeepsLoans(r) /\ DataFaithful(r) /\ ViewsFaithful(r)
  BY DEF LoanInv, KeepsLoans, Faithful
<1>1. ASSUME NEW i \in DOMAIN dataq[r], dataq[r][i].slot # NoSlot
      PROVE  pixels[dataq[r][i].ring][dataq[r][i].slot] = dataq[r][i].frame
  BY <1>k, <1>1 DEF DataFaithful, Announced
<1>2. ASSUME NEW i \in DOMAIN views[r]
      PROVE  views[r][i].pixels = views[r][i].frame /\ StillValid(views[r][i])
  <2> DEFINE v == views[r][i]
  <2>1. v \in View /\ Seen(v)
    BY <1>k, PlaceTypes DEF ViewsFaithful, PoolInv
  <2>2. ViewKey[v] = v.slot /\ v.slot # NoSlot
    BY <2>1, KeyFacts, SlotFacts
  <2>3. v.slot \in Load(r)
    BY <2>2, HeldElement DEF Load, Viewed
  <2>4. ~ Writing(v.ring, v.slot)
    BY <1>k, <2>3, WriterSlotFree DEF Writing
  <2> QED
    BY <2>1, <2>4 DEF Seen, StillValid
<1> QED
  BY <1>1, <1>2 DEF FrameStays

\* No death, reclaim or restart of one reader, no lost message, eviction or late
\* ticket takes a frame from another: until the ring is reallocated or a commit
\* comes in the middle of a return, what a reader was told of is in its slot
\* until that reader gives it back.
THEOREM BystandersAreKept ==
    ASSUME TargetsOnce PROVE Spec => []BystandersKeepFrames
<1>1. Init => PoolInv /\ LoanInv
  BY PoolInit, LoanInit
<1>2. PoolInv /\ LoanInv /\ [Next]_vars => (PoolInv /\ LoanInv)'
  BY PoolNext, LoanStep
<1>3. PoolInv /\ LoanInv => BystandersKeepFrames
  BY KeptFramesStay
<1> QED
  BY <1>1, <1>2, <1>3, PTL DEF Spec

-----------------------------------------------------------------------------
(* The calm pool: one target, nothing lost, nobody dies, no reallocation.  *)

CalmPool ==
    /\ Len(Targets) = 1 /\ Readers = {Targets[1]} /\ ~ Lossy
    /\ MaxReallocs = 0 /\ MaxCrashes = 0 /\ MaxRestarts = 0

\* Every lent slot is at one of its reader's places.
CalmInv ==
    /\ crashed = {} /\ ring = 0
    /\ raced = {} => \A r \in Readers : AllHeld(r)

LEMMA CalmFacts ==
    ASSUME CalmPool
    PROVE  /\ TargetsOnce
           /\ \E r : Readers = {r} /\ Targets[1] = r
           /\ Cardinality(Readers) = 1
<1>1. \A i, j \in DOMAIN Targets : i = j
  BY PoolAssumption DEF CalmPool
<1>2. Cardinality({Targets[1]}) = 1
  BY FS_Singleton
<1> QED
  BY <1>1, <1>2 DEF CalmPool, TargetsOnce

LEMMA CalmStep ==
    ASSUME CalmPool, PoolInv, LoanInv, CalmInv, [Next]_vars PROVE CalmInv'
<1>p. PoolInv' /\ LedgerConsistent' /\ LedgerType' /\ LedgerType /\ SrcType /\ TypeOK
  BY PoolNext, TypeParts, TypePartsNext DEF PoolInv
<1>c. TargetsOnce /\ Cardinality(Readers) = 1
  BY CalmFacts
<1>1. PICK r : Readers = {r}
  BY CalmFacts
<1>k. ring = 0 /\ crashed = {} /\ ItemShape /\ OwnTickets /\ r \in Readers
  BY <1>1 DEF CalmInv, LoanInv
<1>l. ASSUME raced = {}
      PROVE  AllHeld(r) /\ KeepsLoans(r) /\ status[r] = "up"
  BY <1>k, <1>l DEF CalmInv, LoanInv, KeepsLoans
<1>2. crashed' = {} /\ ring' = 0
  <2>1. faults.crashes = 0 /\ faults.restarts = 0
    BY <1>p DEF CalmPool, TypeOK
  <2>2. CASE Source
    <3>1. ring' = ring \/ Reallocate
      BY <2>2 DEF Source, Produce, Exhausted, Commit, Abort, Deliver, Acquire, memory
    <3>2. ~ Reallocate
      BY <1>k DEF Reallocate, CalmPool
    <3>3. crashed' = crashed
      BY <2>2 DEF Source, Produce, Exhausted, Reallocate, Commit, Abort, Deliver,
         Acquire, reader
    <3> QED
      BY <1>k, <3>1, <3>2, <3>3
  <2>3. CASE Owner \/ UNCHANGED vars
    BY <1>k, <2>3 DEF Owner, OwnerHandle, Settle, vars, memory, reader
  <2>4. CASE Reader(r)
    <3>1. ~ Crash(r) /\ ~ Replace(r)
      BY <2>1 DEF Crash, Replace, CalmPool
    <3> QED
      BY <1>k, <2>4, <3>1 DEF Reader, Works, Take, TakeNoView, Finish, IdleFlush,
         Notice, Restart, memory
  <2> QED
    BY <1>1, <2>2, <2>3, <2>4 DEF Next
<1>3. r \notin crashed'
  BY <1>2
<1>4. ASSUME raced' = {} PROVE AllHeld(r)'
  <2>r. raced = {} /\ AllHeld(r) /\ KeepsLoans(r) /\ status[r] = "up"
    BY <1>2, <1>4, <1>l, HistoryGrows
  <2> SUFFICES ASSUME NEW s \in Slots, refcount'[s] > 0 PROVE s \in Load(r)'
    BY DEF AllHeld
  <2>1. CASE Commit
    <3>1. Load(r)' = Load(r) \union Sent(r)'
      BY <1>k, <1>4, <2>r, <2>1, WriterCommits
    <3>2. src.todo \in Seq(Readers) /\ src.todo # <<>> /\ src.slot \in Slots
      BY <1>p, <2>1 DEF Commit, PoolInv, SrcShape, SrcType
    <3>3. 1 \in DOMAIN src.todo /\ src.todo[1] = r
      <4>1. 1 \in DOMAIN src.todo /\ src.todo[1] = Head(src.todo)
        BY <3>2, TailElements
      <4>2. Head(src.todo) \in Readers
        BY <3>2, HeadOfSeq
      <4> QED
        BY <1>1, <4>1, <4>2
    <3>4. src'.at = "put" /\ src'.slot = src.slot /\ src'.todo = src.todo
      BY <1>p, <2>1 DEF Commit, SrcType
    <3>5. src.slot \in Sent(r)'
      BY <3>2, <3>3, <3>4, SlotFacts DEF Sent
    <3>6. s # src.slot => refcount'[s] = refcount[s]
      BY <1>p, <2>1 DEF Commit, LedgerType
    <3> QED
      BY <2>r, <3>1, <3>5, <3>6 DEF AllHeld
  <2>2. CASE OwnerHandle
    <3>1. \A t \in Load(r) : refcount'[t] > 0 /\ r \notin released'[t] => t \in Load(r)'
      BY <1>k, <2>r, <2>2, OwnerKeeps
    <3>2. refcount[s] > 0
      <4>1. CASE UNCHANGED refcount
        BY <4>1
      <4>2. CASE Return(Head(inbox).slot, Head(inbox).reader) /\ Counts(Head(inbox))
        <5>1. refcount' = [refcount EXCEPT ![Head(inbox).slot] = @ - 1]
              /\ refcount[Head(inbox).slot] > 0
          BY <4>2 DEF Return, Counts
        <5> QED
          BY <1>p, <5>1 DEF LedgerType
      <4> QED
        BY <2>2, <4>1, <4>2 DEF OwnerHandle
    <3>3. r \notin released'[s]
      <4>1. refcount'[s] + Cardinality(released'[s]) = 1 /\ refcount'[s] \in Nat
            /\ released'[s] \in SUBSET Readers
        BY <1>p, <1>c, <1>4 DEF LedgerConsistent, LedgerType
      <4>2. IsFiniteSet(released'[s]) /\ Cardinality(released'[s]) \in Nat
        BY <4>1, CountFacts
      <4>3. Cardinality(released'[s]) = 0
        BY <4>1, <4>2
      <4> QED
        BY <4>2, <4>3, FS_EmptySet
    <3> QED
      BY <2>r, <3>1, <3>2, <3>3 DEF AllHeld
  <2>3. CASE ~ Commit /\ ~ OwnerHandle
    <3>1. Load(r)' = Load(r)
      BY <1>2, <1>3, <1>4, <1>k, <2>r, <2>3, BystanderStep DEF CalmPool
    <3>2. refcount' = refcount
      <4>1. CASE Source
        <5>1. ~ Reallocate
          BY <1>k DEF Reallocate, CalmPool
        <5> QED
          BY <2>3, <4>1, <5>1 DEF Source, Produce, Exhausted, Abort, Deliver, Acquire,
             ledger
      <4>2. CASE UNCHANGED vars \/ Settle
        BY <1>k, <2>r, <4>2, SettleKeeps DEF vars, ledger
      <4>3. ASSUME NEW p \in Readers, Reader(p) PROVE refcount' = refcount
        BY <4>3 DEF Reader, Works, Take, TakeNoView, Finish, IdleFlush, Crash, Notice,
           Restart, Replace, ledger
      <4> QED
        BY <2>3, <4>1, <4>2, <4>3 DEF Next, Owner
    <3> QED
      BY <2>r, <3>1, <3>2 DEF AllHeld
  <2> QED
    BY <2>1, <2>2, <2>3
<1> QED
  BY <1>1, <1>2, <1>4 DEF CalmInv

\* What a reader owes is what it holds.
LEMMA OwesWhatItHolds ==
    ASSUME PoolInv, ring = 0, NEW r \in Readers, KeepsLoans(r), NEW s \in Slots
    PROVE  r \in Owing(s) <=> s \in Load(r)
<1>t. /\ dataq[r] \in Seq(Coords) /\ views[r] \in Seq(View)
      /\ tickets[r] \in Seq(Ticket) /\ inbox \in Seq(Ticket)
  BY PlaceTypes DEF PoolInv
<1>n. s # NoSlot
  BY SlotFacts
<1>k. DataFaithful(r) /\ ViewsFaithful(r) /\ BatchFaithful(r) /\ MailFaithful(r)
  BY DEF KeepsLoans, Faithful
<1>f. /\ \A m \in Coords : CoordsKey[m] = m.slot
      /\ \A v \in View : ViewKey[v] = v.slot
  BY KeyFacts
<1>1. (src.at = "put" /\ src.slot = s /\ \E i \in DOMAIN src.todo : src.todo[i] = r)
          <=> s \in Sent(r)
  BY <1>n DEF Sent
<1>2. (\E i \in DOMAIN dataq[r] : dataq[r][i].slot = s /\ dataq[r][i].ring = ring)
          <=> s \in Queued(r)
  <2>1. \A i \in DOMAIN dataq[r] : dataq[r][i].ring = 0
                                   /\ CoordsKey[dataq[r][i]] = dataq[r][i].slot
    BY <1>t, <1>f, <1>k DEF DataFaithful, Announced
  <2> QED
    BY <1>n, <2>1 DEF Queued, Held
<1>3. Using(r, s) <=> s \in Viewed(r)
  <2>1. \A i \in DOMAIN views[r] : views[r][i].ring = 0
                                   /\ ViewKey[views[r][i]] = views[r][i].slot
    BY <1>t, <1>f, <1>k DEF ViewsFaithful, Seen
  <2> QED
    BY <1>n, <2>1 DEF Viewed, Held, Using
<1>4. ASSUME NEW q \in Seq(Ticket),
             \A i \in DOMAIN q : q[i].reader = r => q[i].kind # "reclaim" /\ Current(q[i])
      PROVE  MailOf(q, s, r) <=> s \in Held(q, MailKey(r))
  <2>1. \A i \in DOMAIN q : MailKey(r)[q[i]] = IF q[i].kind # "reclaim" /\ q[i].reader = r
                                               THEN q[i].slot ELSE NoSlot
    BY <1>4 DEF MailKey
  <2>2. ASSUME NEW i \in DOMAIN q
        PROVE  (/\ q[i].kind # "reclaim" /\ q[i].slot = s /\ q[i].reader = r
                /\ q[i].kind = "release" => q[i].gen = gen[ring][s])
                   <=> MailKey(r)[q[i]] = s
    BY <1>4, <1>n, <2>1 DEF Current
  <2> QED
    BY <1>n, <2>2 DEF MailOf, Held
<1>5. MailOf(tickets[r], s, r) <=> s \in Batched(r)
  <2>1. \A i \in DOMAIN tickets[r] :
            tickets[r][i].kind # "reclaim" /\ Current(tickets[r][i])
    BY <1>k DEF BatchFaithful
  <2> QED
    BY <1>t, <1>4, <2>1 DEF Batched
<1>6. MailOf(inbox, s, r) <=> s \in Mailed(r)
  BY <1>t, <1>k, <1>4 DEF Mailed, MailFaithful
<1> QED
  BY <1>1, <1>2, <1>3, <1>5, <1>6 DEF Owing, Unread, Load

LEMMA CalmIsExact ==
    ASSUME CalmPool, PoolInv, LoanInv, CalmInv, raced = {} PROVE LoanExact
<1>1. PICK r : Readers = {r}
  BY CalmFacts
<1>2. Cardinality(Readers) = 1
  BY CalmFacts
<1>k. ring = 0 /\ KeepsLoans(r) /\ r \in Readers /\ AllHeld(r) /\ Lent(r)
  BY <1>1 DEF CalmInv, LoanInv, KeepsLoans
<1>3. SUFFICES ASSUME NEW s \in Slots PROVE refcount[s] = Cardinality(Owing(s))
  BY DEF LoanExact
<1>4. r \in Owing(s) <=> s \in Load(r)
  BY <1>k, OwesWhatItHolds
<1>5. s \in Load(r) <=> refcount[s] > 0
  BY <1>k DEF Lent, AllHeld
<1>6. Owing(s) = IF refcount[s] > 0 THEN {r} ELSE {}
  <2>1. Owing(s) \subseteq {r}
    BY <1>1 DEF Owing
  <2> QED
    BY <1>4, <1>5, <2>1
<1>7. refcount[s] \in 0 .. 1
  BY <1>2 DEF PoolInv, TypeOK
<1>8. Cardinality({r}) = 1 /\ Cardinality({}) = 0
  BY FS_Singleton, FS_EmptySet
<1> QED
  BY <1>6, <1>7, <1>8

\* With one target and no faults, and until a commit comes in the middle of a
\* return, the count of a slot is exact: it is lent as long as its reader still
\* has to read it, finish it or return it, so no slot is lost to the pool and
\* none is written over under the reader.
THEOREM CalmLoansAreExact ==
    ASSUME CalmPool PROVE Spec => [](raced = {} => LoanExact)
<1>1. Init => PoolInv /\ LoanInv /\ CalmInv
  <2>1. Init => CalmInv
    BY DEF Init, CalmInv, AllHeld
  <2> QED
    BY <2>1, PoolInit, LoanInit
<1>2. PoolInv /\ LoanInv /\ CalmInv /\ [Next]_vars => (PoolInv /\ LoanInv /\ CalmInv)'
  BY CalmFacts, PoolNext, LoanStep, CalmStep
<1>3. PoolInv /\ LoanInv /\ CalmInv => (raced = {} => LoanExact)
  BY CalmIsExact
<1> QED
  BY <1>1, <1>2, <1>3, PTL DEF Spec

=============================================================================
