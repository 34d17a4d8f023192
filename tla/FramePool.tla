----------------------------- MODULE FramePool ------------------------------
(***************************************************************************)
(* The ring of SharedMemory slots of one camera (or processing) process    *)
(* under the loan protocol: LoanLedger's reference counts, the send path   *)
(* that writes a frame once and delivers its coordinates to every chain    *)
(* target (FrameShmMiddleware, RouterManager, QueueRegistry), the readers  *)
(* that keep zero-copy views and return release tickets in batches         *)
(* (DataReceiver, PipelineExecutor), and the owner's message processor     *)
(* that applies the tickets.  Readers die, are noticed by the supervisor   *)
(* and restarted with their queues drained; the ring is reallocated when a *)
(* frame outgrows it.                                                      *)
(*                                                                         *)
(* A slot's generation counts its finished writes; inside one write it is  *)
(* odd and no reader takes the frame (module SeqlockSlot has the details). *)
(***************************************************************************)
EXTENDS Naturals, Sequences, FiniteSets

CONSTANTS
    Readers,      \* the loan-aware chain targets of the owner
    Targets,      \* the same processes in sending order, as a sequence
    Depth,        \* slots of the ring
    QueueCap,     \* maxsize of a reader's data queue
    ViewCap,      \* frames a reader may hold in its chain queue
    Threshold,    \* release tickets that make a batch
    Lossy,        \* a send to a full queue may fail
    NoSlot,       \* the coordinates of a frame that is not in the ring
    MaxFrames,    \* bound: frames the source produces
    MaxFaults,    \* bound: failed writes
    MaxReallocs,  \* bound: reallocations of the ring
    MaxCrashes,   \* bound: deaths of readers
    MaxRestarts   \* bound: restarts of live readers by an operator

Slots == 0 .. Depth - 1
Rings == 0 .. MaxReallocs

ASSUME PoolAssumption ==
    /\ IsFiniteSet(Readers) /\ Targets \in Seq(Readers) /\ Targets # <<>>
    /\ Depth \in Nat \ {0} /\ QueueCap \in Nat \ {0} /\ ViewCap \in Nat \ {0}
    /\ Threshold \in Nat \ {0} /\ NoSlot \notin Slots
    /\ Lossy \in BOOLEAN
    /\ {MaxFrames, MaxFaults, MaxReallocs, MaxCrashes, MaxRestarts} \subseteq Nat

VARIABLES
    refcount,  \* LoanLedger._refcount
    reserved,  \* LoanLedger._reserved
    released,  \* LoanLedger._released: readers done with the current loan
    cursor,    \* LoanLedger._cursor
    settling,  \* the slot whose last share the message processor is taking back
    raced,     \* history: slots committed while they were being settled
    ring,      \* incarnation of the ring, counted by reallocations
    gen,       \* gen[k][s]: finished writes of slot s of ring k
    pixels,    \* pixels[k][s]: the frame in that slot, 0 if none
    src,       \* the writer thread and the item it is sending
    dataq,     \* dataq[r]: the data queue of reader r
    inbox,     \* release, eviction and reclaim messages waiting for the owner
    views,     \* views[r]: zero-copy items r has read and not finished
    tickets,   \* tickets[r]: PipelineExecutor._pending_releases
    status,    \* status[r]: "up", "dead", or "noticed" by the supervisor
    faults,    \* faults so far: [writes, crashes, restarts]
    crashed    \* history: readers that have died at least once

ledger == <<refcount, reserved, released, cursor, settling, raced>>
memory == <<ring, gen, pixels>>
reader == <<dataq, views, tickets, status, crashed>>
vars   == <<ledger, memory, src, reader, inbox, faults>>

Frames == 0 .. MaxFrames
Coords == [frame : Frames, slot : Slots \union {NoSlot}, ring : Rings]
View   == [frame : Frames, slot : Slots, ring : Rings, gen : Nat, pixels : Frames]
Ticket == [kind : {"release", "evicted", "reclaim"}, slot : Slots, gen : Nat,
           reader : Readers]

TypeOK ==
    /\ refcount \in [Slots -> 0 .. Cardinality(Readers)]
    /\ reserved \in [Slots -> BOOLEAN]
    /\ released \in [Slots -> SUBSET Readers]
    /\ cursor \in Slots
    /\ settling \in Slots \union {NoSlot} /\ raced \subseteq Slots
    /\ ring \in Rings
    /\ gen \in [Rings -> [Slots -> Nat]]
    /\ pixels \in [Rings -> [Slots -> Frames]]
    /\ src \in [at : {"idle", "strip", "write", "put"}, frame : Frames,
                slot : Slots \union {NoSlot}, todo : Seq(Readers)]
    /\ dataq \in [Readers -> Seq(Coords)]
    /\ inbox \in Seq(Ticket)
    /\ views \in [Readers -> Seq(View)]
    /\ tickets \in [Readers -> Seq(Ticket)]
    /\ status \in [Readers -> {"up", "dead", "noticed"}]
    /\ faults \in [writes : 0 .. MaxFaults, crashes : 0 .. MaxCrashes,
                   restarts : 0 .. MaxRestarts]
    /\ crashed \subseteq Readers

Init ==
    /\ refcount = [s \in Slots |-> 0]
    /\ reserved = [s \in Slots |-> FALSE]
    /\ released = [s \in Slots |-> {}]
    /\ cursor = 0 /\ ring = 0
    /\ settling = NoSlot /\ raced = {}
    /\ gen = [k \in Rings |-> [s \in Slots |-> 0]]
    /\ pixels = [k \in Rings |-> [s \in Slots |-> 0]]
    /\ src = [at |-> "idle", frame |-> 0, slot |-> NoSlot, todo |-> <<>>]
    /\ dataq = [r \in Readers |-> <<>>]
    /\ inbox = <<>>
    /\ views = [r \in Readers |-> <<>>]
    /\ tickets = [r \in Readers |-> <<>>]
    /\ status = [r \in Readers |-> "up"]
    /\ faults = [writes |-> 0, crashes |-> 0, restarts |-> 0]
    /\ crashed = {}

\* Mail goes to the owner's system queue, which drops nothing that is in it: a
\* message that finds it full is lost, and its sender does not try again.
SendMail(mail) ==
    \/ inbox' = inbox \o mail
    \/ Lossy /\ inbox' = inbox

-----------------------------------------------------------------------------
(* The owner's writer thread: one item, sent to each target in turn.       *)

\* Faulty variant: the count is not looked at.
FreeUnreserved(s) == ~ reserved[s]
Free(s) == refcount[s] = 0 /\ ~ reserved[s]

\* LoanLedger.acquire searches from the cursor.
FirstFree(s) ==
    /\ Free(s)
    /\ \A t \in Slots : Free(t) =>
           (s + Depth - cursor) % Depth <= (t + Depth - cursor) % Depth

\* What the writer does next once the send to the first target is over: an
\* item whose frame is in the ring is only delivered, any other is written.
SendRest ==
    src' = [src EXCEPT !.todo = Tail(@),
                       !.at = IF Len(src.todo) = 1 THEN "idle"
                              ELSE IF src.slot = NoSlot THEN "strip" ELSE "put"]

Produce ==
    /\ src.at = "idle" /\ src.frame < MaxFrames
    /\ src' = [at |-> "strip", frame |-> src.frame + 1, slot |-> NoSlot,
               todo |-> Targets]
    /\ UNCHANGED <<ledger, memory, reader, inbox, faults>>

\* No free slot: the send to this target is dropped (strip_data_frame_on_send
\* returns None), the frame stays in the item for the next one.
Exhausted ==
    /\ src.at = "strip" /\ ~ \E s \in Slots : Free(s)
    /\ SendRest
    /\ UNCHANGED <<ledger, memory, reader, inbox, faults>>

\* _write_frame_into_slot: acquire reserves the slot, write_images starts.
Acquire(s) ==
    /\ src.at = "strip" /\ FirstFree(s)
    /\ reserved' = [reserved EXCEPT ![s] = TRUE]
    /\ cursor' = (s + 1) % Depth
    /\ src' = [src EXCEPT !.at = "write", !.slot = s]
    /\ UNCHANGED <<refcount, released, settling, raced, memory, reader, inbox, faults>>

\* The same for a frame that does not fit: _allocate_shm replaces the ring by
\* a fresh one and resets the ledger, then slot 0 is acquired.
Reallocate ==
    /\ src.at = "strip" /\ ring < MaxReallocs
    /\ ring' = ring + 1
    /\ refcount' = [s \in Slots |-> 0]
    /\ released' = [s \in Slots |-> {}]
    /\ reserved' = [s \in Slots |-> s = 0]
    /\ cursor' = 1 % Depth /\ raced' = {}
    /\ src' = [src EXCEPT !.at = "write", !.slot = 0]
    /\ UNCHANGED <<settling, gen, pixels, reader, inbox, faults>>

\* Faulty variant: a target that returns no loans is counted.
CommitForAll ==
    /\ src.at = "write"
    /\ gen' = [gen EXCEPT ![ring][src.slot] = @ + 1]
    /\ pixels' = [pixels EXCEPT ![ring][src.slot] = src.frame]
    /\ refcount' = [refcount EXCEPT ![src.slot] = Cardinality(Readers) + 1]
    /\ reserved' = [reserved EXCEPT ![src.slot] = FALSE]
    /\ raced' = IF settling = src.slot THEN raced \union {src.slot} ELSE raced
    /\ src' = [src EXCEPT !.at = "put"]
    /\ UNCHANGED <<released, cursor, settling, ring, reader, inbox, faults>>

\* The write is finished and published: commit before anyone is told.
Commit ==
    /\ src.at = "write"
    /\ gen' = [gen EXCEPT ![ring][src.slot] = @ + 1]
    /\ pixels' = [pixels EXCEPT ![ring][src.slot] = src.frame]
    /\ refcount' = [refcount EXCEPT ![src.slot] = Cardinality(Readers)]
    /\ reserved' = [reserved EXCEPT ![src.slot] = FALSE]
    /\ raced' = IF settling = src.slot THEN raced \union {src.slot} ELSE raced
    /\ src' = [src EXCEPT !.at = "put"]
    /\ UNCHANGED <<released, cursor, settling, ring, reader, inbox, faults>>

\* The write fails: the slot is wiped and the loan aborted, the frame travels
\* inside the message.
Abort ==
    /\ src.at = "write" /\ faults.writes < MaxFaults
    /\ gen' = [gen EXCEPT ![ring][src.slot] = @ + 1]
    /\ pixels' = [pixels EXCEPT ![ring][src.slot] = 0]
    /\ reserved' = [reserved EXCEPT ![src.slot] = FALSE]
    /\ src' = [src EXCEPT !.at = "put", !.slot = NoSlot]
    /\ faults' = [faults EXCEPT !.writes = @ + 1]
    /\ UNCHANGED <<refcount, released, cursor, settling, raced, ring, reader, inbox>>

\* Faulty variant: the eviction is not reported.
DeliverSilently ==
    LET r   == Head(src.todo)
        q   == dataq[r]
        msg == [frame |-> src.frame, slot |-> src.slot, ring |-> ring]
    IN /\ src.at = "put"
       /\ dataq' = [dataq EXCEPT ![r] =
                        Append(IF Len(q) < QueueCap THEN q ELSE Tail(q), msg)]
       /\ SendRest
       /\ UNCHANGED <<ledger, memory, inbox, views, tickets, status, crashed, faults>>

Eviction(coords, r) ==
    [kind |-> "evicted", slot |-> coords.slot, gen |-> 0, reader |-> r]

\* send_to_queue: a full data queue loses its oldest message, whose loan
\* _on_frame_evicted returns by mail to the owner; then the put.  When the feeder
\* has not flushed the queue there is nothing to evict, and the put fails.
Deliver ==
    LET r   == Head(src.todo)
        q   == dataq[r]
        msg == [frame |-> src.frame, slot |-> src.slot, ring |-> ring]
    IN /\ src.at = "put"
       /\ \/ /\ Len(q) < QueueCap
             /\ dataq' = [dataq EXCEPT ![r] = Append(q, msg)]
             /\ UNCHANGED inbox
          \/ /\ Len(q) >= QueueCap
             /\ dataq' = [dataq EXCEPT ![r] = Append(Tail(q), msg)]
             /\ IF Head(q).slot = NoSlot THEN UNCHANGED inbox
                ELSE SendMail(<<Eviction(Head(q), r)>>)
          \/ /\ Len(q) >= QueueCap /\ Lossy
             /\ UNCHANGED <<dataq, inbox>>
       /\ SendRest
       /\ UNCHANGED <<ledger, memory, views, tickets, status, crashed, faults>>

Source == Produce \/ Exhausted \/ Reallocate \/ Commit \/ Abort \/ Deliver
              \/ \E s \in Slots : Acquire(s)

-----------------------------------------------------------------------------
(* The owner's message processor.  Nothing locks the ledger: the writer's   *)
(* thread may run between any two of these steps.                           *)

\* Faulty variant: the first reader frees the slot.
ReturnWhole(s, r) ==
    /\ refcount' = [refcount EXCEPT ![s] = 0]
    /\ released' = [released EXCEPT ![s] = @ \union {r}]
    /\ settling' = s

\* One reader's share of the loan on slot s is given back.
Return(s, r) ==
    /\ refcount' = [refcount EXCEPT ![s] = @ - 1]
    /\ released' = [released EXCEPT ![s] = @ \union {r}]
    /\ settling' = IF refcount[s] = 1 THEN s ELSE NoSlot

\* LoanLedger.release and reclaim skip a free slot and a reader that has
\* returned this loan, release a ticket of another generation as well;
\* release_evicted and reclaim have no generation to compare.
Counts(m) ==
    /\ refcount[m.slot] > 0 /\ m.reader \notin released[m.slot]
    /\ m.kind = "release" => gen[ring][m.slot] = m.gen

\* release_slots / reclaim_reader: one ticket, or one slot of a reclaim.
OwnerHandle ==
    LET m == Head(inbox) IN
    /\ settling = NoSlot /\ inbox # <<>>
    /\ inbox' = Tail(inbox)
    /\ IF Counts(m) THEN Return(m.slot, m.reader)
       ELSE UNCHANGED <<refcount, released, settling>>
    /\ UNCHANGED <<reserved, cursor, raced, memory, src, reader, faults>>

\* Faulty variant: the readers of a settled loan are kept.
SettleCount ==
    /\ settling # NoSlot
    /\ settling' = NoSlot
    /\ UNCHANGED <<refcount, released, reserved, cursor, raced, memory, src, reader,
                   inbox, faults>>

\* The rest of a return that took the count to zero: test the count, store zero,
\* clear the readers.  The slot has been free since the count was lowered: a
\* commit before the test skips the rest, one before the store is undone by it.
Settle ==
    LET s == settling IN
    /\ s # NoSlot
    /\ settling' = NoSlot
    /\ \/ /\ refcount' = [refcount EXCEPT ![s] = 0]
          /\ released' = [released EXCEPT ![s] = {}]
       \/ /\ refcount[s] # 0
          /\ released' \in {released, [released EXCEPT ![s] = {}]}
          /\ UNCHANGED refcount
    /\ UNCHANGED <<reserved, cursor, raced, memory, src, reader, inbox, faults>>

Owner == OwnerHandle \/ Settle

-----------------------------------------------------------------------------
(* A reader.                                                               *)

Writing(k, s) == src.at = "write" /\ ring = k /\ src.slot = s

\* A slot of which a reader gets a frame: a finished write, not a wiped one.
Readable(m) ==
    m.slot # NoSlot /\ ~ Writing(m.ring, m.slot) /\ pixels[m.ring][m.slot] # 0

\* restore_frame: the message's slot as it is now, whatever it holds.
Take(r) ==
    LET m == Head(dataq[r]) IN
    /\ status[r] = "up" /\ dataq[r] # <<>> /\ Len(views[r]) < ViewCap
    /\ Readable(m)
    /\ dataq' = [dataq EXCEPT ![r] = Tail(@)]
    /\ views' = [views EXCEPT ![r] =
                    Append(@, [frame |-> m.frame, slot |-> m.slot, ring |-> m.ring,
                               gen |-> gen[m.ring][m.slot],
                               pixels |-> pixels[m.ring][m.slot]])]
    /\ UNCHANGED <<ledger, memory, src, inbox, tickets, status, faults, crashed>>

\* A frame inside the message, a torn or empty slot, a segment that is gone:
\* the message is used up and no ticket will follow.
TakeNoView(r) ==
    LET m == Head(dataq[r]) IN
    /\ status[r] = "up" /\ dataq[r] # <<>>
    /\ ~ Readable(m) \/ m.ring # ring
    /\ dataq' = [dataq EXCEPT ![r] = Tail(@)]
    /\ UNCHANGED <<ledger, memory, src, inbox, views, tickets, status, faults, crashed>>

StillValid(v) == ~ Writing(v.ring, v.slot) /\ gen[v.ring][v.slot] = v.gen

\* The chain has run over the oldest view: its ticket joins the batch, valid
\* or not, and a full batch is mailed to the owner.
Finish(r) ==
    LET v     == Head(views[r])
        batch == Append(tickets[r], [kind |-> "release", slot |-> v.slot,
                                     gen |-> v.gen, reader |-> r])
        full  == Len(batch) >= Threshold
    IN /\ status[r] = "up" /\ views[r] # <<>>
       /\ views' = [views EXCEPT ![r] = Tail(@)]
       /\ tickets' = [tickets EXCEPT ![r] = IF full THEN <<>> ELSE batch]
       /\ IF full THEN SendMail(batch) ELSE UNCHANGED inbox
       /\ UNCHANGED <<ledger, memory, src, dataq, status, faults, crashed>>

\* Faulty variant: an idle reader mails full batches only.
IdleFlushFull(r) ==
    /\ status[r] = "up" /\ views[r] = <<>> /\ Len(tickets[r]) >= Threshold
    /\ SendMail(tickets[r])
    /\ tickets' = [tickets EXCEPT ![r] = <<>>]
    /\ UNCHANGED <<ledger, memory, src, dataq, views, status, faults, crashed>>

\* The chain queue is empty: run_loop mails what it has.
IdleFlush(r) ==
    /\ status[r] = "up" /\ views[r] = <<>> /\ tickets[r] # <<>>
    /\ SendMail(tickets[r])
    /\ tickets' = [tickets EXCEPT ![r] = <<>>]
    /\ UNCHANGED <<ledger, memory, src, dataq, views, status, faults, crashed>>

\* kill -9: views and pending tickets are gone, the data queue is not.
Crash(r) ==
    /\ status[r] = "up" /\ faults.crashes < MaxCrashes
    /\ status' = [status EXCEPT ![r] = "dead"]
    /\ crashed' = crashed \union {r}
    /\ faults' = [faults EXCEPT !.crashes = @ + 1]
    /\ views' = [views EXCEPT ![r] = <<>>]
    /\ tickets' = [tickets EXCEPT ![r] = <<>>]
    /\ UNCHANGED <<ledger, memory, src, dataq, inbox>>

\* What LoanLedger.reclaim does with the message, slot by slot.
Reclaim(r) ==
    [i \in 1 .. Depth |-> [kind |-> "reclaim", slot |-> i - 1, gen |-> 0, reader |-> r]]

\* ProcessMonitor._handle_dead_process: shm_reclaim to every owner.
Notice(r) ==
    /\ status[r] = "dead"
    /\ status' = [status EXCEPT ![r] = "noticed"]
    /\ SendMail(Reclaim(r))
    /\ UNCHANGED <<ledger, memory, src, dataq, views, tickets, faults, crashed>>

\* restart_process after the backoff: the queue is reused, and drained.
Restart(r) ==
    /\ status[r] = "noticed"
    /\ status' = [status EXCEPT ![r] = "up"]
    /\ dataq' = [dataq EXCEPT ![r] = <<>>]
    /\ UNCHANGED <<ledger, memory, src, inbox, views, tickets, faults, crashed>>

\* restart_process of a live reader: the executor leaves its loop, mailing its
\* tickets; what its queues held is gone.
Replace(r) ==
    /\ status[r] = "up" /\ faults.restarts < MaxRestarts
    /\ faults' = [faults EXCEPT !.restarts = @ + 1]
    /\ crashed' = crashed \union {r}
    /\ SendMail(tickets[r])
    /\ tickets' = [tickets EXCEPT ![r] = <<>>]
    /\ views' = [views EXCEPT ![r] = <<>>]
    /\ dataq' = [dataq EXCEPT ![r] = <<>>]
    /\ UNCHANGED <<ledger, memory, src, status>>

Works(r) == Take(r) \/ TakeNoView(r) \/ Finish(r) \/ IdleFlush(r)

Reader(r) == Works(r) \/ Crash(r) \/ Notice(r) \/ Restart(r) \/ Replace(r)

Next == Source \/ Owner \/ \E r \in Readers : Reader(r)

Spec == Init /\ [][Next]_vars

\* Every thread involved is a polling loop: the writer finishes the item it is
\* sending, the message processor empties the system queue, a live reader
\* drains its queue and its chain, and the supervisor restarts a dead one.
Fairness ==
    /\ WF_vars(src.at # "idle" /\ Source)
    /\ WF_vars(Owner)
    /\ \A r \in Readers : WF_vars(Works(r)) /\ WF_vars(Notice(r)) /\ WF_vars(Restart(r))

FairSpec == Spec /\ Fairness
-----------------------------------------------------------------------------
(* Correctness.                                                            *)

MailOf(q, s, r) ==
    \E i \in DOMAIN q :
        /\ q[i].kind # "reclaim" /\ q[i].slot = s /\ q[i].reader = r
        /\ q[i].kind = "release" => q[i].gen = gen[ring][s]

\* Reader r still has to be sent, read, finish or return the frame in slot s.
Unread(r, s) ==
    \/ src.at = "put" /\ src.slot = s /\ \E i \in DOMAIN src.todo : src.todo[i] = r
    \/ \E i \in DOMAIN dataq[r] : dataq[r][i].slot = s /\ dataq[r][i].ring = ring

Using(r, s) ==
    \E i \in DOMAIN views[r] : views[r][i].slot = s /\ views[r][i].ring = ring

Owing(s) == {r \in Readers : \/ Unread(r, s) \/ Using(r, s)
                             \/ MailOf(tickets[r], s, r) \/ MailOf(inbox, s, r)}

\* A frame announced to a reader is in its slot until the reader returns it:
\* no message and no view points at a slot that has been written over.
FrameStays(r) ==
    /\ \A i \in DOMAIN dataq[r] :
           LET m == dataq[r][i] IN m.slot # NoSlot => pixels[m.ring][m.slot] = m.frame
    /\ \A i \in DOMAIN views[r] :
           LET v == views[r][i] IN v.pixels = v.frame /\ StillValid(v)

\* Until the ring is reallocated or a commit races a settlement, a reader that
\* never died is not harmed by the death, the reclaim and the restart of another.
BystandersKeepFrames ==
    ring = 0 /\ raced = {} => \A r \in Readers \ crashed : FrameStays(r)

\* The ledger never loses count: a lent slot waits for exactly the readers that
\* have not returned it, whatever was lost, repeated, late or reset.  The one
\* exception is a slot that was committed while it was being settled.
LedgerConsistent ==
    \A s \in Slots \ raced :
        IF refcount[s] = 0 THEN released[s] = {} \/ settling = s
        ELSE refcount[s] + Cardinality(released[s]) = Cardinality(Readers)

\* The count of a slot is exact: as many readers owe it as its count says, no
\* fewer (the slot would never be free again) and no more (it would be written
\* over under a reader); but for a slot committed while it was being settled.
LoanExact == \A s \in Slots \ raced : refcount[s] = Cardinality(Owing(s))

\* A lent slot becomes free again, unless its commit raced its settlement: the
\* ring never runs dry for good.
LoansReturn == \A s \in Slots : refcount[s] > 0 ~> refcount[s] = 0 \/ s \in raced
-----------------------------------------------------------------------------
(* What the source says of itself and the code does not keep.              *)

\* A free slot is nobody's but the writer's: the message processor works on
\* committed slots only, so the ledger needs no lock (loan_ledger.py:77).
NeedsNoLock == raced = {}

\* Reader r is dead and its loan of slot s is still to be reclaimed.
Reclaimable(r, s) ==
    \/ status[r] = "dead"
    \/ \E i \in DOMAIN inbox :
           inbox[i].kind = "reclaim" /\ inbox[i].slot = s /\ inbox[i].reader = r

\* A lent slot is backed by readers that owe it, also when a reader dies: the
\* pool recovers, no slot stays lent for good (process_monitor.py:877).
LoanBacked ==
    \A s \in Slots \ raced :
        refcount[s] <= Cardinality(Owing(s) \union {r \in Readers : Reclaimable(r, s)})

\* The result of a batch that passed the re-check was computed on the pixels
\* of the frame its message announced: an early release costs a dropped batch,
\* never a wrong one (loan_ledger.py:20).
AcceptedAsAnnounced ==
    [][\A r \in Readers :
           Finish(r) /\ StillValid(Head(views[r])) =>
               Head(views[r]).pixels = Head(views[r]).frame]_vars
=============================================================================
