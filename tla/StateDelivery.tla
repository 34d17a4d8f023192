--------------------------- MODULE StateDelivery ----------------------------
(***************************************************************************)
(* The state tree of ProcessManager and one subscriber's copy of it:       *)
(* TreeStore and StateStoreManager on the server, DeltaDispatcher with its *)
(* coalescing flusher (FW_STATE_COALESCE, the default), the bounded        *)
(* drop_oldest queue of class "state", and StateProxy at the subscriber,   *)
(* which applies state.changed envelopes, watches the revision and asks    *)
(* for a resync when it finds a gap.                                       *)
(*                                                                         *)
(* Threads: the server's mutators (the message processor, which also       *)
(* serves subscriptions, and the monitor, which calls handle_state_set     *)
(* itself), the flusher, and the subscriber's only receiving thread.       *)
(* Changing the tree and buffering the deltas are two critical sections    *)
(* of two locks, hence two steps.                                          *)
(*                                                                         *)
(* A leaf's value is the revision that wrote it, 0 for a value the store   *)
(* was created with; writing an equal value changes nothing and is no step.*)
(***************************************************************************)
EXTENDS Integers, Sequences, FiniteSets, Functions

CONSTANTS
    Leaves,      \* paths that hold values
    Nodes,       \* inner nodes that state.delete may be given
    Below,       \* Below[n]: the leaves under node n
    NoPattern,   \* no subscription is being served
    Patterns,    \* patterns the subscriber subscribes to
    Covers,      \* Covers[s]: the paths, leaves and nodes, pattern s matches
    Threads,     \* threads that change the tree
    Commands,    \* the one of them that is the message processor
    QueueCap,    \* capacity of the subscriber's state queue
    MaxRevision  \* bound: changes of the tree

Paths     == Leaves \union Nodes
Absent    == -1
Revisions == 0 .. MaxRevision
Values    == Revisions \union {Absent}
NoBase    == -1      \* _last_revision is None

ASSUME DeliveryAssumption ==
    /\ IsFiniteSet(Paths) /\ Leaves \intersect Nodes = {}
    /\ Below \in [Nodes -> SUBSET Leaves]
    /\ Covers \in [Patterns -> SUBSET Paths]
    /\ NoPattern \notin Patterns
    /\ Commands \in Threads
    /\ QueueCap \in Nat \ {0} /\ MaxRevision \in Nat

VARIABLES
    store,      \* store[p]: the value of leaf p in the tree
    revision,   \* TreeStore._revision
    subs,       \* patterns the server has a subscription for
    phase,      \* phase[t]: what thread t has still to do
    held,       \* held[t]: the deltas thread t has in hand
    pattern,    \* the pattern whose snapshot the message processor takes
    buffer,     \* DeltaDispatcher._buffer of the subscriber
    queue,      \* the subscriber's state queue: envelopes
    batch,      \* envelopes receive() has drained and not yet handled
    cache,      \* StateProxy._cache
    last,       \* StateProxy._last_revision
    blocked,    \* the receiving thread waits inside request() for a resync
    requests,   \* state.get_subtree tickets the server has still to answer
    answers,    \* answers in the subscriber's system queue
    noticed,    \* history: the subscriber has detected a gap
    baseLost,   \* history: an envelope was lost before any that could set the base
    refused,    \* history: the revision of the last envelope refused as the newest
    known,      \* history: the greatest revision buffered for the subscriber
    late,       \* history: deltas were buffered too late, see Late
    pruned      \* history: watched leaves last changed through a node above them

server  == <<store, revision, subs, phase, held, pattern>>
client  == <<batch, cache, last, blocked, noticed>>
tickets == <<requests, answers>>
order   == <<known, late>>
losses  == <<baseLost, refused>>
vars    == <<server, buffer, queue, client, tickets, order, losses, pruned>>

Delta    == [value : Values, revision : Revisions]
Deltas   == UNION {[S -> Delta] : S \in SUBSET Paths}
Envelope == [deltas : Seq(Deltas), first : Revisions, revision : Revisions]
Nothing  == [p \in {} |-> [value |-> Absent, revision |-> 0]]

TypeOK ==
    /\ store \in [Leaves -> Values]
    /\ revision \in Revisions
    /\ subs \subseteq Patterns
    /\ phase \in [Threads -> {"idle", "dispatch", "pairs", "revision", "replay"}]
    /\ held \in [Threads -> Deltas]
    /\ pattern \in Patterns \union {NoPattern}
    /\ buffer \in Seq(Deltas)
    /\ queue \in Seq(Envelope) /\ Len(queue) <= QueueCap
    /\ batch \in Seq(Envelope)
    /\ cache \in [Leaves -> Values]
    /\ last \in Revisions \union {NoBase}
    /\ blocked \in BOOLEAN
    /\ requests \in Nat /\ answers \in Nat
    /\ noticed \in BOOLEAN /\ baseLost \in BOOLEAN
    /\ refused \in Revisions \union {NoBase}
    /\ known \in Revisions \union {NoBase} /\ late \in BOOLEAN
    /\ pruned \subseteq Leaves

\* The store may be created with values; the proxy starts empty.
Init ==
    /\ store \in [Leaves -> {Absent, 0}]
    /\ revision = 0 /\ subs = {}
    /\ phase = [t \in Threads |-> "idle"]
    /\ held = [t \in Threads |-> Nothing]
    /\ pattern = NoPattern
    /\ buffer = <<>> /\ queue = <<>> /\ batch = <<>>
    /\ cache = [p \in Leaves |-> Absent] /\ last = NoBase
    /\ blocked = FALSE /\ requests = 0 /\ answers = 0
    /\ noticed = FALSE /\ baseLost = FALSE /\ refused = NoBase
    /\ known = NoBase /\ late = FALSE /\ pruned = {}

-----------------------------------------------------------------------------
(* The server.                                                             *)

Watched == UNION {Covers[s] : s \in subs}

\* handle_state_set (one path) and handle_state_merge (several): under the
\* store's lock every changed path takes the next revision, in the order the
\* merged dict is walked.  A dict put at a node is one delta at the node's
\* path: the leaves below that the dict has are written with it, those it has
\* not are gone.
Grafted(changed) == UNION {Below[n] : n \in changed \intersect Nodes}

Change(t, changed, kept) ==
    /\ phase[t] = "idle"
    /\ revision + Cardinality(changed) <= MaxRevision
    /\ changed \intersect Grafted(changed) = {}
    /\ \A n \in changed \intersect Nodes : kept \intersect Below[n] # {}
    /\ \E rev \in Bijection(changed, revision + 1 .. revision + Cardinality(changed)) :
          /\ store' = [p \in Leaves |->
                IF p \in changed THEN rev[p]
                ELSE IF p \notin Grafted(changed) THEN store[p]
                ELSE IF p \notin kept THEN Absent
                ELSE rev[CHOOSE n \in changed \intersect Nodes : p \in Below[n]]]
          /\ held' = [held EXCEPT ![t] =
                [p \in changed |-> [value |-> rev[p], revision |-> rev[p]]]]
    /\ revision' = revision + Cardinality(changed)
    /\ phase' = [phase EXCEPT ![t] = "dispatch"]
    /\ pruned' = (pruned \ changed) \union (Grafted(changed) \intersect Watched)
    /\ UNCHANGED <<subs, pattern, buffer, queue, client, tickets, order, losses>>

Gone(path) == IF path \in Nodes THEN Below[path] ELSE {path}

\* handle_state_delete: one delta, at the path that was given, for whatever
\* was below it.
Delete(t, path) ==
    /\ phase[t] = "idle" /\ revision < MaxRevision
    /\ \E p \in Gone(path) : store[p] # Absent
    /\ store' = [p \in Leaves |-> IF p \in Gone(path) THEN Absent ELSE store[p]]
    /\ revision' = revision + 1
    /\ held' = [held EXCEPT ![t] =
          [p \in {path} |-> [value |-> Absent, revision |-> revision + 1]]]
    /\ phase' = [phase EXCEPT ![t] = "dispatch"]
    /\ pruned' = IF path \in Nodes THEN pruned \union (Gone(path) \intersect Watched)
                 ELSE pruned \ {path}
    /\ UNCHANGED <<subs, pattern, buffer, queue, client, tickets, order, losses>>

RevisionsOf(d)  == {d[p].revision : p \in DOMAIN d}
RevisionsIn(ds) == UNION {RevisionsOf(ds[i]) : i \in DOMAIN ds}

\* A delta of revision n comes too late for the buffer: younger ones have been
\* buffered before it, or one as young has already left.
Behind(n) == n < known \/ (n = known /\ buffer = <<>>)

\* Leaf p has changed since its delta d was made and no thread is still to
\* dispatch the change: that was done before the subscription counted, or
\* before the snapshot d belongs to was stamped.
Overtaken(p, d) ==
    /\ d.value # store[p] /\ p \notin pruned
    /\ \A t \in Threads : phase[t] = "dispatch" /\ p \in DOMAIN held[t] =>
          held[t][p].value # store[p] \/ held[t][p].revision <= d.revision

\* The deltas d are buffered too late.
Late(d) ==
    \/ \E n \in RevisionsOf(d) : Behind(n)
    \/ \E p \in DOMAIN d \intersect Leaves : Overtaken(p, d[p])

\* Thread t puts those of its deltas that are at paths ps into the buffer.
Buffered(t, ps) ==
    LET d    == Restrict(held[t], DOMAIN held[t] \intersect ps)
        ever == RevisionsOf(d) \union {known}
    IN  /\ buffer' = IF DOMAIN d = {} THEN buffer ELSE Append(buffer, d)
        /\ late' = (late \/ Late(d))
        /\ \E n \in ever : (\A m \in ever : m <= n) /\ known' = n

\* DeltaDispatcher.dispatch: the deltas some subscription matches now join the
\* buffer, each once however many subscriptions match it.
Dispatch(t) ==
    /\ phase[t] = "dispatch"
    /\ Buffered(t, Watched)
    /\ held' = [held EXCEPT ![t] = Nothing]
    /\ phase' = [phase EXCEPT ![t] = "idle"]
    /\ UNCHANGED <<store, revision, subs, pattern, queue, client, tickets, losses, pruned>>

\* handle_state_subscribe: the subscription counts from here on; the snapshot
\* of what the pattern matches is taken, stamped and buffered after that.
Subscribe(s) ==
    /\ phase[Commands] = "idle" /\ s \notin subs
    /\ subs' = subs \union {s} /\ pattern' = s
    /\ phase' = [phase EXCEPT ![Commands] = "pairs"]
    /\ UNCHANGED <<store, revision, held, buffer, queue, client, tickets, order, losses, pruned>>

Present(s) == {p \in Covers[s] \intersect Leaves : store[p] # Absent}

\* _replay_initial_state reads the matching leaves, ...
ReplayPairs ==
    /\ phase[Commands] = "pairs"
    /\ held' = [held EXCEPT ![Commands] =
          [p \in Present(pattern) |-> [value |-> store[p], revision |-> 0]]]
    /\ phase' = [phase EXCEPT ![Commands] = "revision"]
    /\ pattern' = NoPattern
    /\ UNCHANGED <<store, revision, subs, buffer, queue, client, tickets, order, losses, pruned>>

\* ... then the revision, under the lock taken anew, ...
ReplayRevision ==
    /\ phase[Commands] = "revision"
    /\ held' = [held EXCEPT ![Commands] =
          [p \in DOMAIN @ |-> [value |-> @[p].value, revision |-> revision]]]
    /\ phase' = [phase EXCEPT ![Commands] = "replay"]
    /\ UNCHANGED <<store, revision, subs, pattern, buffer, queue, client, tickets, order, losses, pruned>>

\* ... and DeltaDispatcher.enqueue_replay puts them behind what is buffered.
EnqueueReplay ==
    /\ phase[Commands] = "replay"
    /\ Buffered(Commands, Paths)
    /\ held' = [held EXCEPT ![Commands] = Nothing]
    /\ phase' = [phase EXCEPT ![Commands] = "idle"]
    /\ UNCHANGED <<store, revision, subs, pattern, queue, client, tickets, losses, pruned>>

\* handle_state_get_subtree answers a resync: it changes nothing at the server.
Answer ==
    /\ phase[Commands] = "idle" /\ requests > 0
    /\ requests' = requests - 1 /\ answers' = answers + 1
    /\ UNCHANGED <<server, buffer, queue, client, order, losses, pruned>>

-----------------------------------------------------------------------------
(* The flusher and the queue.                                              *)

\* Faulty variant: nothing is evicted.
AcceptGrows(envelope) ==
    queue' = Append(queue, envelope) /\ UNCHANGED <<baseLost, refused>>

\* A put into a full drop_oldest queue evicts the oldest envelope first; with
\* last = NoBase and none drained it was the one to set the base.
Accept(envelope) ==
    /\ queue' = Append(IF Len(queue) < QueueCap THEN queue ELSE Tail(queue), envelope)
    /\ baseLost' = (baseLost \/ (Len(queue) = QueueCap /\ last = NoBase /\ batch = <<>>))
    /\ UNCHANGED refused

\* The newest envelope is lost, and nobody retries: the bounded AsyncSender is
\* full, or the eviction finds nothing to take (get_nowait raises Empty) and
\* put_nowait raises Full.
Refuse(envelope) ==
    /\ refused' = envelope.revision
    /\ baseLost' = (baseLost \/ (queue = <<>> /\ last = NoBase /\ batch = <<>>))
    /\ UNCHANGED queue

\* RouterManager.send_async and, behind it, QueueRegistry.send_to_queue.
Put(envelope) == Accept(envelope) \/ Refuse(envelope)

\* Faulty variant: the buffer is sent and kept.
FlushKeeps ==
    /\ buffer # <<>>
    /\ \E lo, hi \in RevisionsIn(buffer) :
          /\ \A n \in RevisionsIn(buffer) : lo <= n /\ n <= hi
          /\ Put([deltas |-> buffer, first |-> lo, revision |-> hi])
    /\ UNCHANGED <<server, client, tickets, order, buffer, pruned>>

\* DeltaDispatcher._flush_once and _send_state_changed: the whole buffer goes
\* out as one envelope that carries the least and the greatest revision.
Flush ==
    /\ buffer # <<>>
    /\ \E lo, hi \in RevisionsIn(buffer) :
          /\ \A n \in RevisionsIn(buffer) : lo <= n /\ n <= hi
          /\ Put([deltas |-> buffer, first |-> lo, revision |-> hi])
    /\ buffer' = <<>>
    /\ UNCHANGED <<server, client, tickets, order, pruned>>

-----------------------------------------------------------------------------
(* The subscriber.                                                         *)

\* The message processor drains its system and state queues in one receive().
\* An answer to a resync finds no pending slot: request() has removed it.
Poll ==
    /\ ~blocked /\ batch = <<>>
    /\ queue # <<>> \/ answers > 0
    /\ batch' = queue /\ queue' = <<>> /\ answers' = 0
    /\ UNCHANGED <<server, buffer, cache, last, blocked, requests, noticed, order, losses, pruned>>

\* Faulty variant: the first delta at a path wins over the later ones.
AppliedFirst(deltas, p, before) ==
    LET touched == {i \in DOMAIN deltas : p \in DOMAIN deltas[i]}
    IN  IF touched = {} THEN before
        ELSE LET i == CHOOSE i \in touched : \A j \in touched : i <= j
             IN  deltas[i][p].value

\* The leaf's value after the deltas of an envelope, applied in order.
Applied(deltas, p, before) ==
    LET touched == {i \in DOMAIN deltas : p \in DOMAIN deltas[i]}
    IN  IF touched = {} THEN before
        ELSE LET i == CHOOSE i \in touched : \A j \in touched : j <= i
             IN  deltas[i][p].value

\* Faulty variant: one missing revision passes for none.
GapLate(e) == last # NoBase /\ e.first > last + 2

\* _advance_revision_and_maybe_resync: the first envelope sets the base.
Gap(e) == last # NoBase /\ e.first > last + 1

\* _is_stale_envelope
Stale(e) == last # NoBase /\ e.revision <= last

\* on_state_changed: a stale envelope is ignored whole; any other is applied,
\* moves _last_revision, and on a gap the thread goes on to _resync, where it
\* waits inside RouterManager.request.
OnStateChanged ==
    /\ ~blocked /\ batch # <<>>
    /\ batch' = Tail(batch)
    /\ LET e == Head(batch)
       IN  IF Stale(e)
           THEN UNCHANGED <<cache, last, blocked, requests, noticed>>
           ELSE /\ cache' = [p \in Leaves |-> Applied(e.deltas, p, cache[p])]
                /\ last' = e.revision
                /\ blocked' = Gap(e)
                /\ noticed' = (noticed \/ Gap(e))
                /\ requests' = IF Gap(e) THEN requests + 1 ELSE requests
    /\ UNCHANGED <<server, buffer, queue, answers, order, losses, pruned>>

\* request() gives up after five seconds: the thread that would have taken the
\* answer out of the queue is the one that waits.
ResyncTimeout ==
    /\ blocked /\ blocked' = FALSE
    /\ UNCHANGED <<server, buffer, queue, batch, cache, last, tickets, noticed, order, losses, pruned>>

-----------------------------------------------------------------------------
Next ==
    \/ \E t \in Threads :
          \/ \E changed \in (SUBSET Paths) \ {{}} :
                \E kept \in SUBSET Grafted(changed) : Change(t, changed, kept)
          \/ \E path \in Paths : Delete(t, path)
          \/ Dispatch(t)
    \/ \E s \in Patterns : Subscribe(s)
    \/ ReplayPairs \/ ReplayRevision \/ EnqueueReplay \/ Answer
    \/ Flush \/ Poll \/ OnStateChanged \/ ResyncTimeout

Spec == Init /\ [][Next]_vars

\* Threads that have work go on with it; nobody has to change the tree.
Fairness ==
    /\ \A t \in Threads : WF_vars(Dispatch(t))
    /\ WF_vars(ReplayPairs) /\ WF_vars(ReplayRevision) /\ WF_vars(EnqueueReplay)
    /\ WF_vars(Answer) /\ WF_vars(Flush) /\ WF_vars(Poll)
    /\ WF_vars(OnStateChanged) /\ WF_vars(ResyncTimeout)

FairSpec == Spec /\ Fairness

-----------------------------------------------------------------------------
(* Properties.                                                             *)

\* Nothing is on its way to the subscriber.
Quiet ==
    /\ \A t \in Threads : phase[t] = "idle"
    /\ buffer = <<>> /\ queue = <<>> /\ batch = <<>> /\ ~blocked

\* The subscriber's copy of leaf p is the tree's.
Current(p) == cache[p] = store[p]

\* No deltas of watched paths were, or are about to be, buffered too late.
InOrder ==
    /\ ~late
    /\ \A t \in Threads : phase[t] = "dispatch" =>
          \A p \in DOMAIN held[t] \intersect Watched : ~Behind(held[t][p].revision)

\* No divergence goes unnoticed: with nothing under way, every subscribed leaf
\* is current unless the subscriber has found a gap, the envelope that would
\* have set its base was lost, deltas were buffered too late, the last
\* envelopes sent were refused and none has followed, or the leaf was last
\* changed through a node above it.
NoSilentDivergence ==
    Quiet /\ ~noticed /\ ~baseLost /\ ~late /\ ~(refused > last) =>
        \A p \in (Watched \intersect Leaves) \ pruned : Current(p)

\* _last_revision is an honest claim at every moment, traffic under way or not
\* and envelopes refused or not: a cached leaf last written at or before that
\* revision is current, unless a gap was found, the base was lost, deltas are
\* buffered too late or the leaf was last changed through a node above it.
RevisionIsHonest ==
    ~noticed /\ ~baseLost /\ InOrder =>
        \A p \in Leaves \ pruned :
            cache[p] # Absent /\ store[p] # Absent /\ store[p] <= last => Current(p)

\* Once the tree is left alone the subscriber has handled everything and is
\* current, or one of the causes of NoSilentDivergence has come up.
SettlesCurrent ==
    <>[](/\ Quiet
         /\ \/ noticed \/ baseLost \/ late \/ refused > last
            \/ \A p \in (Watched \intersect Leaves) \ pruned : Current(p))

\* What the documentation says of the resync: it repairs what was lost, so a
\* subscriber that noticed a gap ends current.
ResyncRepairs ==
    Quiet /\ requests = 0 /\ answers = 0 /\ noticed /\ ~baseLost /\ ~late /\ ~(refused > last) =>
        \A p \in (Watched \intersect Leaves) \ pruned : Current(p)
=============================================================================
