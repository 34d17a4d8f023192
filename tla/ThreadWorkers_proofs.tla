------------------------ MODULE ThreadWorkers_proofs ------------------------
(***************************************************************************)
(* What ThreadWorkers promises, for every number of entries and threads.   *)
(*                                                                         *)
(* The invariant has two halves.  Typed holds always: the types, the       *)
(* script each command follows, and that whoever is about to write the     *)
(* fields of an entry holds one.  Clean holds until a command and an       *)
(* internal restart overlap: the registry knows the one thread that is in  *)
(* the worker's target, whoever installs a thread is alone with it, and    *)
(* the status, the events and the answers say what the threads do.         *)
(***************************************************************************)
EXTENDS ThreadWorkers, TLAPS

-----------------------------------------------------------------------------
(* The types.                                                              *)

\* What a thread does from the start of its target to the assignment of its
\* successor: the steps in which its entry knows it.
Bound == Working \union {"leave", "final", "raised", "sleep", "assign"}

\* The steps of an install that has assigned the new thread.
Installing == Install \ {"assign"}

\* The steps of stop_worker, and those in which its entry is in hand.
Stopping == {"stop", "signal", "take", "join"}
Grasping == Install \union {"signal", "take", "join", "await"}

ThreadLabels == {"new", "raised", "leave", "final", "dying", "dead"}
                    \union Waiting \union Working

\* Where a command is in its plan: the stages left fit the stage it is at.
Scripted(c) ==
    \/ pc[c] \in {"idle", "reply"} /\ todo[c] = <<>>
    \/ /\ pc[c] \in {"pause", "resume"} /\ op[c] \in {"pause", "resume"}
       /\ todo[c] = <<>>
    \/ /\ pc[c] = "create" /\ op[c] \in {"create", "update"}
       /\ todo[c] = <<"start">>
    \/ /\ pc[c] \in {"start"} \union Install
       /\ op[c] \in {"create", "start", "restart", "update"} /\ todo[c] = <<>>
    \/ pc[c] = "restart" /\ op[c] = "restart" /\ todo[c] = <<"start">>
    \/ /\ pc[c] \in Stopping
       /\ \/ op[c] \in {"stop", "stop_all"} /\ todo[c] = <<>>
          \/ op[c] = "restart" /\ todo[c] = <<"start">>
          \/ op[c] \in {"remove", "drain_and_remove"} /\ todo[c] = <<"unregister">>
          \/ op[c] = "update" /\ todo[c] = <<"unregister", "create", "start">>
    \/ /\ pc[c] = "unregister"
       /\ \/ op[c] \in {"remove", "drain_and_remove"} /\ todo[c] = <<>>
          \/ op[c] = "update" /\ todo[c] = <<"create", "start">>
    \/ /\ pc[c] \in {"drain", "await"}
       /\ \/ op[c] = "drain" /\ todo[c] = <<>>
          \/ op[c] = "drain_and_remove" /\ todo[c] = <<"stop", "unregister">>

\* The steps of threads and of commands are never confused, and the main
\* thread only ever stops.
Labelled ==
    /\ \A t \in Threads : pc[t] \in ThreadLabels
    /\ \A c \in Controllers : Scripted(c)
    /\ op[Main] = "stop_all"
    /\ pc[Commands] # "idle" => op[Commands] # "stop_all"

\* Whoever writes the fields of an entry holds one; a thread has a target.
Held ==
    /\ \A x \in Actors : pc[x] \in Grasping => hold[x] \in Entries
    /\ \A t \in Threads : pc[t] # "dead" => runs[t] \in Entries

Typed == TypeOK /\ Labelled /\ Held

\* The actors are told apart.
LEMMA Cast ==
    /\ Commands \in Controllers /\ Main \in Controllers /\ Commands # Main
    /\ Commands \in Actors /\ Main \in Actors
    /\ \A c \in Controllers : c \in Actors /\ c \notin Threads
    /\ \A t \in Threads : t \in Actors /\ t \notin Controllers /\ t \in Handles
                          /\ t # Commands /\ t # Main
    /\ \A x \in Actors : x \in Threads \/ x \in Controllers
    /\ \A c \in Controllers : c = Commands \/ c = Main
    /\ Unstarted \in Handles /\ NoEntry \notin Entries /\ Unstarted \notin Threads
BY WorkerAssumption DEF Controllers, Actors, Handles

Labels == {"idle", "reply", "new", "raised", "leave", "final", "dying", "dead"}
              \union Stages \union Waiting \union Working

\* update_status writes a status into an entry and nothing else.
LEMMA StatusTyped ==
    ASSUME dict \in [Entries -> Fields], entry \in Entries \union {NoEntry},
           NEW status \in Statuses, SetStatus(status)
    PROVE  /\ dict' \in [Entries -> Fields]
           /\ \A e \in Entries :
                 /\ dict'[e].thread = dict[e].thread /\ dict'[e].stop = dict[e].stop
                 /\ dict'[e].pause = dict[e].pause
                 /\ dict'[e].status = IF e = entry THEN status ELSE dict[e].status
<1> USE WorkerAssumption
<1>1. CASE entry = NoEntry
  BY <1>1 DEF SetStatus
<1>2. CASE entry # NoEntry
  <2>1. entry \in Entries /\ dict' = [dict EXCEPT ![entry].status = status]
    BY <1>2 DEF SetStatus
  <2>2. ASSUME NEW e \in Entries
        PROVE  /\ dict'[e] \in Fields
               /\ dict'[e].thread = dict[e].thread /\ dict'[e].stop = dict[e].stop
               /\ dict'[e].pause = dict[e].pause
               /\ dict'[e].status = IF e = entry THEN status ELSE dict[e].status
    <3>1. dict[e] \in Fields
      OBVIOUS
    <3>2. CASE e = entry
      <4>1. dict'[e] = [dict[e] EXCEPT !.status = status]
        BY <2>1, <3>2
      <4> QED BY <3>1, <3>2, <4>1 DEF Fields
    <3>3. CASE e # entry
      BY <2>1, <3>1, <3>3
    <3> QED BY <3>2, <3>3
  <2> QED BY <2>1, <2>2
<1> QED BY <1>1, <1>2

\* A step of one actor to a label of its own kind.
LEMMA GotoTyped ==
    ASSUME Typed, NEW x \in Actors, NEW label \in Labels, Goto(x, label)
    PROVE  /\ pc' \in [Actors -> Labels] /\ pc'[x] = label
           /\ \A y \in Actors : y # x => pc'[y] = pc[y]
BY DEF Typed, TypeOK, Labels, Goto

\* A stage that succeeds leads to the next stage of the plan.
LEMMA PassTyped ==
    ASSUME Typed, NEW c \in Controllers, Pass(c), op' = op,
           pc[c] \in {"create", "start", "join", "unregister", "pause", "resume", "await"}
    PROVE  /\ pc' \in [Actors -> Labels] /\ todo' \in [Controllers -> Seq(Stages)]
           /\ Labelled' /\ pc'[c] \notin Grasping
           /\ pc'[c] \in {"reply", "start", "unregister", "create", "stop"}
           /\ pc[c] \in {"start", "pause", "resume"} => pc'[c] = "reply"
           /\ pc[c] = "await" => \/ pc'[c] = "reply" /\ op[c] = "drain"
                                 \/ pc'[c] = "stop"
           /\ pc[c] = "create" => pc'[c] = "start"
           /\ pc'[c] = "unregister" => pc[c] = "join"
           /\ pc[c] \in {"join", "unregister"} /\ pc'[c] = "reply"
                 => op[c] \in {"stop", "stop_all", "remove", "drain_and_remove"}
           /\ \A y \in Actors : y # c => pc'[y] = pc[y]
<1> USE Cast
<1>1. Scripted(c) /\ pc \in [Actors -> Labels] /\ todo \in [Controllers -> Seq(Stages)]
  BY DEF Typed, Labelled, TypeOK, Labels
<1>2. \/ pc[c] \in {"start", "pause", "resume"} /\ todo[c] = <<>>
      \/ pc[c] = "create" /\ todo[c] = <<"start">> /\ op[c] \in {"create", "update"}
      \/ pc[c] = "join" /\ todo[c] = <<>> /\ op[c] \in {"stop", "stop_all"}
      \/ pc[c] = "join" /\ todo[c] = <<"start">> /\ op[c] = "restart"
      \/ pc[c] = "join" /\ todo[c] = <<"unregister">> /\ op[c] \in {"remove", "drain_and_remove"}
      \/ pc[c] = "join" /\ todo[c] = <<"unregister", "create", "start">> /\ op[c] = "update"
      \/ pc[c] = "unregister" /\ todo[c] = <<>> /\ op[c] \in {"remove", "drain_and_remove"}
      \/ pc[c] = "unregister" /\ todo[c] = <<"create", "start">> /\ op[c] = "update"
      \/ pc[c] = "await" /\ todo[c] = <<>> /\ op[c] = "drain"
      \/ pc[c] = "await" /\ todo[c] = <<"stop", "unregister">> /\ op[c] = "drain_and_remove"
  BY <1>1 DEF Scripted, Stopping, Install
<1>3. /\ pc' = [pc EXCEPT ![c] = IF todo[c] = <<>> THEN "reply" ELSE Head(todo[c])]
      /\ todo' = [todo EXCEPT ![c] = IF todo[c] = <<>> THEN todo[c] ELSE Tail(todo[c])]
  BY DEF Pass, Goto
<1>4. /\ Head(<<"start">>) = "start" /\ Tail(<<"start">>) = <<>> /\ <<"start">> # <<>>
      /\ Head(<<"unregister">>) = "unregister" /\ Tail(<<"unregister">>) = <<>>
      /\ <<"unregister">> # <<>>
      /\ Head(<<"create", "start">>) = "create" /\ Tail(<<"create", "start">>) = <<"start">>
      /\ <<"create", "start">> # <<>>
      /\ Head(<<"stop", "unregister">>) = "stop"
      /\ Tail(<<"stop", "unregister">>) = <<"unregister">> /\ <<"stop", "unregister">> # <<>>
      /\ Head(<<"unregister", "create", "start">>) = "unregister"
      /\ Tail(<<"unregister", "create", "start">>) = <<"create", "start">>
      /\ <<"unregister", "create", "start">> # <<>>
  OBVIOUS
<1>5. /\ pc'[c] = IF todo[c] = <<>> THEN "reply" ELSE Head(todo[c])
      /\ todo'[c] = IF todo[c] = <<>> THEN todo[c] ELSE Tail(todo[c])
  BY <1>1, <1>3
<1>6. \/ pc'[c] = "reply" /\ todo'[c] = <<>>
      \/ pc'[c] = "start" /\ todo'[c] = <<>> /\ op[c] \in {"create", "update", "restart"}
      \/ pc'[c] = "unregister" /\ todo'[c] = <<>> /\ op[c] \in {"remove", "drain_and_remove"}
      \/ pc'[c] = "unregister" /\ todo'[c] = <<"create", "start">> /\ op[c] = "update"
      \/ pc'[c] = "create" /\ todo'[c] = <<"start">> /\ op[c] = "update"
      \/ pc'[c] = "stop" /\ todo'[c] = <<"unregister">> /\ op[c] = "drain_and_remove"
  BY ONLY <1>4, <1>2, <1>5
<1>7. /\ pc[c] \in {"start", "pause", "resume"} => pc'[c] = "reply"
      /\ pc[c] = "await" => \/ pc'[c] = "reply" /\ op[c] = "drain"
                            \/ pc'[c] = "stop"
      /\ pc[c] = "create" => pc'[c] = "start"
      /\ pc'[c] = "unregister" => pc[c] = "join"
      /\ pc[c] \in {"join", "unregister"} /\ pc'[c] = "reply"
            => op[c] \in {"stop", "stop_all", "remove", "drain_and_remove"}
  BY ONLY <1>4, <1>2, <1>5
<1>8. pc' \in [Actors -> Labels] /\ \A y \in Actors : y # c => pc'[y] = pc[y]
  BY <1>1, <1>3, <1>6 DEF Labels, Stages
<1>9. /\ todo' \in [Controllers -> Seq(Stages)]
      /\ \A d \in Controllers : d # c => todo'[d] = todo[d]
  BY <1>1, <1>3, <1>6 DEF Stages
<1>10. Scripted(c)'
  BY <1>6 DEF Scripted, Stopping
<1>11. \A d \in Controllers : Scripted(d)'
  BY <1>8, <1>9, <1>10 DEF Typed, Labelled, Scripted
<1>12. Labelled'
  BY <1>2, <1>8, <1>11 DEF Typed, Labelled
<1> QED BY <1>6, <1>8, <1>9, <1>12, <1>7 DEF Grasping, Install

\* A stage that fails leads to the answer, or to the stage that comes next
\* whatever this one did.
LEMMA FailTyped ==
    ASSUME Typed, NEW c \in Controllers, Fail(c), op' = op,
           pc[c] \in {"create", "start", "restart", "stop", "join", "unregister", "pause",
                      "resume", "drain", "await"}
    PROVE  /\ pc' \in [Actors -> Labels] /\ todo' \in [Controllers -> Seq(Stages)]
           /\ ok' \in [Controllers -> BOOLEAN] /\ ~ok'[c]
           /\ Labelled' /\ pc'[c] \notin Grasping
           /\ pc'[c] \in {"reply", "create", "stop"}
           /\ \A y \in Actors : y # c => pc'[y] = pc[y]
<1> USE Cast
<1>1. /\ pc \in [Actors -> Labels] /\ todo \in [Controllers -> Seq(Stages)]
      /\ ok \in [Controllers -> BOOLEAN]
  BY DEF Typed, Labelled, TypeOK, Labels
<1>2. \/ /\ pc' = [pc EXCEPT ![c] = "reply"] /\ todo' = [todo EXCEPT ![c] = <<>>]
      \/ /\ pc' = [pc EXCEPT ![c] = "create"] /\ todo' = [todo EXCEPT ![c] = <<"start">>]
         /\ op[c] = "update"
      \/ /\ pc' = [pc EXCEPT ![c] = "stop"] /\ todo' = [todo EXCEPT ![c] = <<"unregister">>]
         /\ op[c] = "drain_and_remove"
  BY DEF Fail, Goto
<1>3. <<>> \in Seq(Stages) /\ <<"start">> \in Seq(Stages) /\ <<"unregister">> \in Seq(Stages)
  BY DEF Stages
<1>4. /\ \/ pc'[c] = "reply" /\ todo'[c] = <<>>
         \/ pc'[c] = "create" /\ todo'[c] = <<"start">> /\ op[c] = "update"
         \/ pc'[c] = "stop" /\ todo'[c] = <<"unregister">> /\ op[c] = "drain_and_remove"
      /\ todo' \in [Controllers -> Seq(Stages)]
  <2>1. CASE pc' = [pc EXCEPT ![c] = "reply"] /\ todo' = [todo EXCEPT ![c] = <<>>]
    BY <1>3, <1>1, <2>1
  <2>2. CASE /\ pc' = [pc EXCEPT ![c] = "create"] /\ todo' = [todo EXCEPT ![c] = <<"start">>]
             /\ op[c] = "update"
    BY <1>3, <1>1, <2>2
  <2>3. CASE /\ pc' = [pc EXCEPT ![c] = "stop"] /\ todo' = [todo EXCEPT ![c] = <<"unregister">>]
             /\ op[c] = "drain_and_remove"
    BY <1>3, <1>1, <2>3
  <2> QED BY <1>2, <2>1, <2>2, <2>3
<1>5. pc' \in [Actors -> Labels] /\ \A y \in Actors : y # c => pc'[y] = pc[y]
  <2>1. {"reply", "create", "stop"} \subseteq Labels
    BY DEF Labels, Stages
  <2>2. \E label \in {"reply", "create", "stop"} : pc' = [pc EXCEPT ![c] = label]
    BY <1>2
  <2> QED BY <1>1, <2>1, <2>2
<1>6. \A d \in Controllers : d # c => todo'[d] = todo[d]
  BY <1>1, <1>2
<1>7. Scripted(c)'
  BY <1>4 DEF Scripted, Stopping
<1>8. \A d \in Controllers : Scripted(d)'
  BY <1>5, <1>6, <1>7 DEF Typed, Labelled, Scripted
<1>9. Labelled'
  BY <1>5, <1>8 DEF Typed, Labelled
<1>10. ok' \in [Controllers -> BOOLEAN] /\ ~ok'[c]
  BY <1>1 DEF Fail
<1> QED BY <1>4, <1>5, <1>9, <1>10 DEF Grasping, Install

\* A step of a thread touches nobody's script.
LEMMA ThreadGoto ==
    ASSUME Typed, NEW t \in Threads, NEW label \in ThreadLabels, Goto(t, label),
           UNCHANGED <<todo, op>>
    PROVE  /\ pc' \in [Actors -> Labels] /\ pc'[t] = label
           /\ \A y \in Actors : y # t => pc'[y] = pc[y]
           /\ Labelled'
<1> USE Cast
<1>1. label \in Labels
  BY DEF ThreadLabels, Labels
<1>2. /\ pc' \in [Actors -> Labels] /\ pc'[t] = label
      /\ \A y \in Actors : y # t => pc'[y] = pc[y]
  BY <1>1, GotoTyped
<1>3. \A c \in Controllers : Scripted(c)'
  BY <1>2 DEF Typed, Labelled, Scripted
<1> QED BY <1>2, <1>3 DEF Typed, Labelled

\* A step of a command to a label its script allows.
LEMMA CommandGoto ==
    ASSUME Typed, NEW c \in Controllers, NEW label \in Labels, Goto(c, label),
           UNCHANGED op, pc[c] # "idle",
           \A d \in Controllers : d # c => todo'[d] = todo[d],
           pc'[c] = label => Scripted(c)'
    PROVE  /\ pc' \in [Actors -> Labels] /\ pc'[c] = label
           /\ \A y \in Actors : y # c => pc'[y] = pc[y]
           /\ Labelled'
<1> USE Cast
<1>2. /\ pc' \in [Actors -> Labels] /\ pc'[c] = label
      /\ \A y \in Actors : y # c => pc'[y] = pc[y]
  BY GotoTyped
<1>3. \A d \in Controllers : Scripted(d)'
  BY <1>2 DEF Typed, Labelled, Scripted
<1> QED BY <1>2, <1>3 DEF Typed, Labelled

\* Who has not moved and still holds what it held writes what it may.
LEMMA HeldStays ==
    ASSUME Typed, NEW x \in Actors,
           \A y \in Actors : y # x => pc'[y] = pc[y] /\ hold'[y] = hold[y],
           pc'[x] \in Grasping => hold'[x] \in Entries,
           x \in Threads => pc[x] # "dead",
           UNCHANGED runs
    PROVE  Held'
BY Cast DEF Typed, Held

\* A new thread takes the place of the old one: the types are kept.
LEMMA AssignTyped ==
    ASSUME Typed, NEW x \in Actors, Assign(x), crossed' \in BOOLEAN
    PROVE  Typed'
<1> USE Cast, WorkerAssumption
<1>1. PICK u \in Threads :
          /\ u # x /\ ~IsAlive(u)
          /\ new' = [new EXCEPT ![x] = u] /\ runs' = [runs EXCEPT ![u] = hold[x]]
          /\ pc' = [pc EXCEPT ![u] = "new", ![x] = "events"]
          /\ stop' = stop \ {u} /\ pause' = pause \ {u}
          /\ dict' = [dict EXCEPT ![hold[x]].thread = u]
  <2>1. \E u \in Threads : u # x /\ Unused(u)
    BY DEF Assign
  <2> DEFINE u == CHOOSE v \in Threads : v # x /\ Unused(v)
  <2>2. u \in Threads /\ u # x /\ Unused(u)
    BY <2>1
  <2> QED BY <2>2 DEF Assign, Unused
<1>2. pc[x] = "assign" /\ hold[x] \in Entries /\ dict[hold[x]] \in Fields
  BY DEF Assign, Typed, TypeOK, Held, Grasping, Install
<1>3. pc' \in [Actors -> Labels] /\ pc'[u] = "new" /\ pc'[x] = "events"
      /\ \A y \in Actors : y # u /\ y # x => pc'[y] = pc[y]
  BY <1>1 DEF Typed, TypeOK, Labels, Waiting, Install
<1>4. dict' \in [Entries -> Fields]
  <2>1. [dict[hold[x]] EXCEPT !.thread = u] \in Fields
    BY <1>2 DEF Fields
  <2>2. dict \in [Entries -> Fields]
    BY DEF Typed, TypeOK
  <2> QED BY <1>1, <1>2, <2>1, <2>2
<1>5. TypeOK'
  <2>1. /\ new' \in [Actors -> Handles] /\ runs' \in [Threads -> Entries \union {NoEntry}]
        /\ stop' \subseteq Handles /\ pause' \subseteq Handles
    BY <1>1, <1>2 DEF Typed, TypeOK
  <2>2. pc' \in [Actors -> {"idle", "reply", "new", "raised", "leave", "final", "dying",
                           "dead"} \union Stages \union Waiting \union Working]
    BY <1>3 DEF Labels
  <2>3. /\ UNCHANGED <<mode, entry, hold, joined, todo, asked, op, ok, busy, slipped, outlived>>
        /\ drained' = FALSE
    BY DEF Assign
  <2> QED BY <1>4, <2>1, <2>2, <2>3 DEF Typed, TypeOK
<1>6. Labelled'
  <2>1. todo' = todo /\ op' = op
    BY DEF Assign
  <2>2. \A t \in Threads : pc'[t] \in ThreadLabels
    BY <1>3 DEF Typed, Labelled, ThreadLabels, Waiting, Install
  <2>3. ASSUME NEW c \in Controllers PROVE Scripted(c)'
    <3>1. Scripted(c)
      BY DEF Typed, Labelled
    <3>2. CASE c = x
      BY <1>2, <1>3, <2>1, <3>1, <3>2 DEF Scripted, Install, Stopping
    <3>3. CASE c # x
      BY <1>3, <2>1, <3>1, <3>3 DEF Scripted
    <3> QED BY <3>2, <3>3
  <2> QED BY <1>2, <1>3, <2>1, <2>2, <2>3 DEF Typed, Labelled
<1>7. Held'
  <2>1. hold' = hold
    BY DEF Assign
  <2>2. \A y \in Actors : pc'[y] \in Grasping => hold'[y] \in Entries
    BY <1>2, <1>3, <2>1 DEF Typed, Held, Grasping, Install
  <2>3. runs \in [Threads -> Entries \union {NoEntry}]
    BY DEF Typed, TypeOK
  <2>4. \A t \in Threads : pc'[t] # "dead" => runs'[t] \in Entries
    BY <1>1, <1>2, <1>3, <2>3 DEF Typed, Held
  <2> QED BY <2>2, <2>4 DEF Held
<1> QED BY <1>5, <1>6, <1>7 DEF Typed

\* The new thread gets events of its own: the types are kept.
LEMMA EventsTyped ==
    ASSUME Typed, NEW x \in Actors, Events(x), crossed' \in BOOLEAN
    PROVE  Typed'
<1> USE Cast, WorkerAssumption
<1>1. pc[x] = "events" /\ hold[x] \in Entries /\ dict[hold[x]] \in Fields /\ new[x] \in Handles
  BY DEF Events, Typed, TypeOK, Held, Grasping, Install
<1>2. PICK n \in 0 .. MaxRestarts :
          dict' = [dict EXCEPT ![hold[x]] = [dict[hold[x]] EXCEPT
                      !.stop = new[x], !.pause = new[x], !.started = TRUE, !.count = n]]
  <2>1. dict[hold[x]].count \in 0 .. MaxRestarts /\ Count(dict[hold[x]]) \in 0 .. MaxRestarts
    BY <1>1 DEF Fields, Count
  <2> QED BY <2>1 DEF Events
<1>3. dict' \in [Entries -> Fields]
  <2>1. [dict[hold[x]] EXCEPT !.stop = new[x], !.pause = new[x], !.started = TRUE,
                              !.count = n] \in Fields
    BY <1>1 DEF Fields
  <2>2. dict \in [Entries -> Fields]
    BY DEF Typed, TypeOK
  <2> QED BY <1>1, <1>2, <2>1, <2>2
<1>4. /\ pc' \in [Actors -> Labels] /\ pc'[x] = "clear"
      /\ \A y \in Actors : y # x => pc'[y] = pc[y]
  BY GotoTyped DEF Events, Labels, Waiting, Install
<1>5. TypeOK'
  BY <1>3, <1>4 DEF Typed, TypeOK, Events, Labels, events, history
<1>6. Labelled'
  BY <1>1, <1>4 DEF Events, Typed, Labelled, Scripted, Stopping, ThreadLabels, Waiting, Install
<1>7. Held'
  BY <1>1, <1>4, HeldStays DEF Events
<1> QED BY <1>5, <1>6, <1>7 DEF Typed

\* The fresh events are cleared: the types are kept.
LEMMA ClearTyped ==
    ASSUME Typed, NEW x \in Actors, Clear(x), crossed' \in BOOLEAN
    PROVE  Typed'
<1> USE Cast, WorkerAssumption
<1>1. pc[x] = "clear" /\ hold[x] \in Entries
  BY DEF Clear, Typed, Held, Grasping, Install
<1>4. /\ pc' \in [Actors -> Labels] /\ pc'[x] = "mark"
      /\ \A y \in Actors : y # x => pc'[y] = pc[y]
  BY GotoTyped DEF Clear, Labels, Waiting, Install
<1>5. TypeOK'
  BY <1>4 DEF Typed, TypeOK, Clear, Labels, memory, history
<1>6. Labelled'
  BY <1>1, <1>4 DEF Clear, Typed, Labelled, Scripted, Stopping, ThreadLabels, Waiting, Install
<1>7. Held'
  BY <1>1, <1>4, HeldStays DEF Clear
<1> QED BY <1>5, <1>6, <1>7 DEF Typed

\* The worker is marked RUNNING: the types are kept.
LEMMA MarkTyped ==
    ASSUME Typed, NEW x \in Actors, Mark(x), crossed' \in BOOLEAN
    PROVE  Typed'
<1> USE Cast, WorkerAssumption
<1>1. pc[x] = "mark" /\ hold[x] \in Entries
  BY DEF Mark, Typed, Held, Grasping, Install
<1>3. dict' \in [Entries -> Fields]
  BY StatusTyped DEF Mark, Typed, TypeOK, Statuses
<1>4. /\ pc' \in [Actors -> Labels] /\ pc'[x] = "launch"
      /\ \A y \in Actors : y # x => pc'[y] = pc[y]
  BY GotoTyped DEF Mark, Labels, Waiting, Install
<1>5. TypeOK'
  BY <1>3, <1>4 DEF Typed, TypeOK, Mark, Labels, events, history
<1>6. Labelled'
  BY <1>1, <1>4 DEF Mark, Typed, Labelled, Scripted, Stopping, ThreadLabels, Waiting, Install
<1>7. Held'
  BY <1>1, <1>4, HeldStays DEF Mark
<1> QED BY <1>5, <1>6, <1>7 DEF Typed

\* The new thread is started: the types are kept.
LEMMA LaunchTyped ==
    ASSUME Typed, NEW x \in Actors, Launch(x), crossed' \in BOOLEAN
    PROVE  Typed'
<1> USE Cast, WorkerAssumption
<1> DEFINE h == dict[hold[x]].thread
           fresh == h \in Threads /\ pc[h] = "new"
<1>1. /\ pc[x] = "launch" /\ hold[x] \in Entries
      /\ pc' = [y \in Actors |-> IF y = x THEN IF x \in Threads THEN "dying" ELSE "reply"
                                 ELSE IF fresh /\ y = h THEN "started" ELSE pc[y]]
      /\ ok' = IF x \in Threads THEN ok ELSE [ok EXCEPT ![x] = fresh]
  BY DEF Launch, Typed, Held, Grasping, Install
<1>2. fresh => h \in Threads /\ pc[h] = "new"
  OBVIOUS
<1> HIDE DEF h, fresh
<1>3. fresh \in BOOLEAN
  BY DEF fresh
<1>4. /\ pc' \in [Actors -> Labels]
      /\ pc'[x] = IF x \in Threads THEN "dying" ELSE "reply"
      /\ \A y \in Actors : y # x /\ y \notin Threads => pc'[y] = pc[y]
      /\ \A t \in Threads : t # x => pc'[t] = pc[t] \/ (pc[t] = "new" /\ pc'[t] = "started")
  <2>1. pc \in [Actors -> Labels] /\ {"dying", "reply", "started"} \subseteq Labels
    BY DEF Typed, TypeOK, Labels, Working
  <2> QED BY <1>1, <1>2, <2>1
<1>5. TypeOK'
  BY <1>1, <1>3, <1>4 DEF Typed, TypeOK, Launch, Labels, memory, events, history
<1>6. Labelled'
  <2>1. todo' = todo /\ op' = op
    BY DEF Launch
  <2>2. \A t \in Threads : pc'[t] \in ThreadLabels
    BY <1>4 DEF Typed, Labelled, ThreadLabels, Working
  <2>3. ASSUME NEW c \in Controllers PROVE Scripted(c)'
    <3>1. Scripted(c)
      BY DEF Typed, Labelled
    <3>2. CASE c = x
      BY <1>1, <1>4, <2>1, <3>1, <3>2 DEF Scripted, Install, Stopping
    <3>3. CASE c # x
      BY <1>4, <2>1, <3>1, <3>3 DEF Scripted
    <3> QED BY <3>2, <3>3
  <2>4. pc'[Commands] # "idle" => op[Commands] # "stop_all"
    BY <1>1, <1>4 DEF Typed, Labelled
  <2> QED BY <2>1, <2>2, <2>3, <2>4 DEF Typed, Labelled
<1>7. Held'
  BY <1>4 DEF Launch, Typed, Held, Grasping, Install, Working
<1> QED BY <1>5, <1>6, <1>7 DEF Typed

-----------------------------------------------------------------------------
(* The steps of the worker's thread keep the types.                        *)

\* The thread fetches its entry: the types are kept.
LEMMA EnterTyped ==
    ASSUME Typed, NEW t \in Threads, Enter(t), crossed' \in BOOLEAN
    PROVE  Typed'
<1> USE Cast, WorkerAssumption
<1>1. pc[t] = "started" /\ hold' = [hold EXCEPT ![t] = entry]
  BY DEF Enter, Keep
<1>2. /\ pc' \in [Actors -> Labels] /\ pc'[t] \in {"dying", "entered"} /\ Labelled'
      /\ \A y \in Actors : y # t => pc'[y] = pc[y]
  BY ThreadGoto DEF Enter, ThreadLabels, Working
<1>3. TypeOK'
  BY <1>1, <1>2 DEF Typed, TypeOK, Enter, Labels, memory, events, history
<1>4. Held'
  BY <1>1, <1>2, HeldStays DEF Enter, Typed, TypeOK, Grasping, Install
<1> QED BY <1>2, <1>3, <1>4 DEF Typed

\* The target begins: the types are kept.
LEMMA RunTyped ==
    ASSUME Typed, NEW t \in Threads, Run(t), crossed' \in BOOLEAN
    PROVE  Typed'
<1> USE Cast, WorkerAssumption
<1>1. pc[t] = "entered" /\ UNCHANGED <<hold, runs>>
  BY DEF Run
<1>2. /\ pc' \in [Actors -> Labels] /\ pc'[t] \in {"admitted", "check"} /\ Labelled'
      /\ \A y \in Actors : y # t => pc'[y] = pc[y]
  BY ThreadGoto DEF Run, Admit, ThreadLabels, Working
<1>3. dict' \in [Entries -> Fields]
  BY StatusTyped DEF Run, Typed, TypeOK, Statuses
<1>4. TypeOK'
  BY <1>2, <1>3 DEF Typed, TypeOK, Run, Admit, Labels, events, history
<1>5. Held'
  BY <1>1, <1>2, HeldStays DEF Grasping, Install
<1> QED BY <1>2, <1>4, <1>5 DEF Typed

\* The loop looks at its events: the types are kept.
LEMMA CheckTyped ==
    ASSUME Typed, NEW t \in Threads, Check(t), crossed' \in BOOLEAN
    PROVE  Typed'
<1> USE Cast, WorkerAssumption
<1>1. pc[t] = "check" /\ UNCHANGED <<hold, runs>>
  BY DEF Check
<1>2. /\ pc' \in [Actors -> Labels] /\ pc'[t] \in {"admitted", "leave"} /\ Labelled'
      /\ \A y \in Actors : y # t => pc'[y] = pc[y]
  BY ThreadGoto DEF Check, Admit, ThreadLabels, Working
<1>3. TypeOK'
  BY <1>2 DEF Typed, TypeOK, Check, Admit, Labels, memory, events, history
<1>4. Held'
  BY <1>1, <1>2, HeldStays DEF Grasping, Install
<1> QED BY <1>2, <1>3, <1>4 DEF Typed

\* A frame begins: the types are kept.
LEMMA BeginFrameTyped ==
    ASSUME Typed, NEW t \in Threads, BeginFrame(t), crossed' \in BOOLEAN
    PROVE  Typed'
<1> USE Cast, WorkerAssumption
<1>1. pc[t] = "admitted" /\ runs[t] \in Entries /\ UNCHANGED <<hold, runs>>
  BY DEF BeginFrame, Typed, Held
<1>2. /\ pc' \in [Actors -> Labels] /\ pc'[t] = "frame" /\ Labelled'
      /\ \A y \in Actors : y # t => pc'[y] = pc[y]
  BY ThreadGoto DEF BeginFrame, ThreadLabels, Working
<1>3. TypeOK'
  BY <1>1, <1>2 DEF Typed, TypeOK, BeginFrame, Labels, memory
<1>4. Held'
  BY <1>1, <1>2, HeldStays DEF Grasping, Install
<1> QED BY <1>2, <1>3, <1>4 DEF Typed

\* A frame ends: the types are kept.
LEMMA EndFrameTyped ==
    ASSUME Typed, NEW t \in Threads, EndFrame(t), crossed' \in BOOLEAN
    PROVE  Typed'
<1> USE Cast, WorkerAssumption
<1>1. pc[t] = "frame" /\ UNCHANGED <<hold, runs>>
  BY DEF EndFrame
<1>2. \E label \in {"leave", "check", "raised"} : Goto(t, label)
  BY DEF EndFrame
<1>3. /\ pc' \in [Actors -> Labels] /\ pc'[t] \in {"leave", "check", "raised"} /\ Labelled'
      /\ \A y \in Actors : y # t => pc'[y] = pc[y]
  BY <1>2, ThreadGoto DEF EndFrame, ThreadLabels, Working
<1>4. TypeOK'
  BY <1>3 DEF Typed, TypeOK, EndFrame, Labels, memory, history
<1>5. Held'
  BY <1>1, <1>3, HeldStays DEF Grasping, Install
<1> QED BY <1>3, <1>4, <1>5 DEF Typed

\* The target returns: the types are kept.
LEMMA LeaveTyped ==
    ASSUME Typed, NEW t \in Threads, Leave(t), crossed' \in BOOLEAN
    PROVE  Typed'
<1> USE Cast, WorkerAssumption
<1>1. pc[t] = "leave" /\ UNCHANGED <<hold, runs>>
  BY DEF Leave
<1>2. /\ pc' \in [Actors -> Labels] /\ pc'[t] = "final" /\ Labelled'
      /\ \A y \in Actors : y # t => pc'[y] = pc[y]
  BY ThreadGoto DEF Leave, ThreadLabels
<1>3. dict' \in [Entries -> Fields]
  <2>1. dict' = dict \/ SetStatus("completed")
    BY DEF Leave
  <2> QED BY <2>1, StatusTyped DEF Typed, TypeOK, Statuses
<1>4. TypeOK'
  BY <1>2, <1>3 DEF Typed, TypeOK, Leave, Labels, events, history
<1>5. Held'
  BY <1>1, <1>2, HeldStays DEF Grasping, Install
<1> QED BY <1>2, <1>4, <1>5 DEF Typed

\* The target has raised: the types are kept.
LEMMA RaisedTyped ==
    ASSUME Typed, NEW t \in Threads, Raised(t), crossed' \in BOOLEAN
    PROVE  Typed'
<1> USE Cast, WorkerAssumption
<1>1. pc[t] = "raised" /\ UNCHANGED <<hold, runs>>
  BY DEF Raised
<1>2. \E label \in {"sleep", "final"} : Goto(t, label)
  BY DEF Raised
<1>3. /\ pc' \in [Actors -> Labels] /\ pc'[t] \in {"sleep", "final"} /\ Labelled'
      /\ \A y \in Actors : y # t => pc'[y] = pc[y]
  BY <1>2, ThreadGoto DEF Raised, ThreadLabels, Waiting
<1> DEFINE failed == IF entry = NoEntry THEN dict ELSE [dict EXCEPT ![entry].status = "error"]
<1>4. failed \in [Entries -> Fields] /\ \A e \in Entries : failed[e].count = dict[e].count
  <2>1. dict \in [Entries -> Fields] /\ entry \in Entries \union {NoEntry}
    BY DEF Typed, TypeOK
  <2>2. CASE entry = NoEntry
    BY <2>1, <2>2
  <2>3. CASE entry # NoEntry
    <3>1. failed = [dict EXCEPT ![entry] = [dict[entry] EXCEPT !.status = "error"]]
      BY <2>3
    <3>2. dict[entry] \in Fields /\ entry \in Entries
      BY <2>1, <2>3
    <3>3. /\ [dict[entry] EXCEPT !.status = "error"] \in Fields
          /\ [dict[entry] EXCEPT !.status = "error"].count = dict[entry].count
      BY <3>2 DEF Fields, Statuses
    <3> QED BY <2>1, <3>1, <3>2, <3>3
  <2> QED BY <2>2, <2>3
<1>5. \/ dict' = failed
      \/ dict[hold[t]].count < MaxRestarts /\ dict' = [failed EXCEPT ![hold[t]].count = @ + 1]
  BY DEF Raised, MayRestart
<1> HIDE DEF failed
<1>6. dict' \in [Entries -> Fields]
  <2>1. CASE hold[t] \in Entries /\ dict[hold[t]].count < MaxRestarts
             /\ dict' = [failed EXCEPT ![hold[t]].count = @ + 1]
    <3>1. failed[hold[t]] \in Fields /\ failed[hold[t]].count < MaxRestarts
      BY <1>4, <2>1
    <3>2. [failed[hold[t]] EXCEPT !.count = failed[hold[t]].count + 1] \in Fields
      BY <3>1 DEF Fields
    <3> QED BY <1>4, <2>1, <3>2
  <2>2. CASE hold[t] \notin Entries /\ dict' = [failed EXCEPT ![hold[t]].count = @ + 1]
    BY <1>4, <2>2
  <2> QED BY <1>4, <1>5, <2>1, <2>2
<1>7. TypeOK'
  BY <1>3, <1>6 DEF Typed, TypeOK, Raised, Labels, events, history
<1>8. Held'
  BY <1>1, <1>3, HeldStays DEF Grasping, Install
<1> QED BY <1>3, <1>7, <1>8 DEF Typed

\* The restart fetches the entry by name: the types are kept.
LEMMA WakeTyped ==
    ASSUME Typed, NEW t \in Threads, Wake(t), crossed' \in BOOLEAN
    PROVE  Typed'
<1> USE Cast, WorkerAssumption
<1>1. /\ pc[t] = "sleep" /\ hold' = [hold EXCEPT ![t] = entry] /\ UNCHANGED runs
      /\ Goto(t, IF entry = NoEntry THEN "dying" ELSE "assign")
  BY DEF Wake, Keep
<1>2. /\ pc' \in [Actors -> Labels] /\ Labelled'
      /\ pc'[t] = IF entry = NoEntry THEN "dying" ELSE "assign"
      /\ \A y \in Actors : y # t => pc'[y] = pc[y]
  BY ThreadGoto DEF Wake, ThreadLabels, Waiting, Install
<1>3. TypeOK'
  BY <1>1, <1>2 DEF Typed, TypeOK, Wake, Labels, memory, events, history
<1>4. Held'
  BY <1>1, <1>2, HeldStays DEF Typed, TypeOK, Grasping, Install
<1> QED BY <1>2, <1>3, <1>4 DEF Typed

\* The wrapper writes the last status: the types are kept.
LEMMA FinalTyped ==
    ASSUME Typed, NEW t \in Threads, Final(t), crossed' \in BOOLEAN
    PROVE  Typed'
<1> USE Cast, WorkerAssumption
<1>1. pc[t] = "final" /\ UNCHANGED <<hold, runs>>
  BY DEF Final
<1>2. /\ pc' \in [Actors -> Labels] /\ pc'[t] = "dying" /\ Labelled'
      /\ \A y \in Actors : y # t => pc'[y] = pc[y]
  BY ThreadGoto DEF Final, ThreadLabels
<1>3. dict' \in [Entries -> Fields]
  <2>1. dict' = dict \/ SetStatus("stopped")
    BY DEF Final
  <2> QED BY <2>1, StatusTyped DEF Typed, TypeOK, Statuses
<1>4. TypeOK'
  BY <1>2, <1>3 DEF Typed, TypeOK, Final, Labels, events, history
<1>5. Held'
  BY <1>1, <1>2, HeldStays DEF Grasping, Install
<1> QED BY <1>2, <1>4, <1>5 DEF Typed

\* The thread ends: the types are kept.
LEMMA DieTyped ==
    ASSUME Typed, NEW t \in Threads, Die(t), crossed' \in BOOLEAN
    PROVE  Typed'
<1> USE Cast, WorkerAssumption
<1>1. /\ pc[t] = "dying" /\ hold' = [hold EXCEPT ![t] = NoEntry]
      /\ runs' = [runs EXCEPT ![t] = NoEntry]
  BY DEF Die, Keep
<1>2. /\ pc' \in [Actors -> Labels] /\ pc'[t] = "dead" /\ Labelled'
      /\ \A y \in Actors : y # t => pc'[y] = pc[y]
  BY ThreadGoto DEF Die, ThreadLabels
<1>3. TypeOK'
  BY <1>1, <1>2 DEF Typed, TypeOK, Die, Labels, memory, history
<1>4. Held'
  BY <1>1, <1>2 DEF Typed, TypeOK, Held, Grasping, Install
<1> QED BY <1>2, <1>3, <1>4 DEF Typed

-----------------------------------------------------------------------------
(* The steps of the commands keep the types.                               *)

\* A plan starts at a stage whose script is the rest of the plan.
LEMMA PlanScripted ==
    ASSUME NEW c, NEW cmd \in Ops, pc'[c] = Head(Plan(cmd)), todo'[c] = Tail(Plan(cmd)),
           op'[c] = cmd
    PROVE  /\ Scripted(c)' /\ Head(Plan(cmd)) \in Stages /\ Tail(Plan(cmd)) \in Seq(Stages)
           /\ Head(Plan(cmd)) \notin Grasping /\ Head(Plan(cmd)) # "unregister"
<1>1. CASE cmd = "create"
  <2>1. /\ Plan(cmd) = <<"create", "start">> /\ Head(Plan(cmd)) = "create"
        /\ Tail(Plan(cmd)) = <<"start">> /\ Tail(Plan(cmd)) \in Seq(Stages)
    BY <1>1 DEF Plan, Stages
  <2> QED BY <1>1, <2>1 DEF Scripted, Grasping, Install, Stages
<1>2. CASE cmd \in {"start", "stop", "pause", "resume", "drain", "stop_all"}
  <2>1. /\ Head(Plan(cmd)) = (IF cmd = "stop_all" THEN "stop" ELSE cmd)
        /\ Tail(Plan(cmd)) = <<>> /\ Tail(Plan(cmd)) \in Seq(Stages)
    <3>1. Plan(cmd) = IF cmd = "stop_all" THEN <<"stop">> ELSE <<cmd>>
      BY <1>2 DEF Plan
    <3>2. cmd \in Stages \/ cmd = "stop_all"
      BY <1>2 DEF Stages
    <3>3. CASE cmd = "stop_all"
      BY <3>1, <3>3
    <3>4. CASE cmd # "stop_all"
      BY <3>1, <3>4
    <3> QED BY <3>3, <3>4
  <2> QED BY <1>2, <2>1 DEF Scripted, Stopping, Grasping, Install, Stages
<1>3. CASE cmd = "restart"
  <2>1. /\ Plan(cmd) = <<"restart", "start">> /\ Head(Plan(cmd)) = "restart"
        /\ Tail(Plan(cmd)) = <<"start">> /\ Tail(Plan(cmd)) \in Seq(Stages)
    BY <1>3 DEF Plan, Stages
  <2> QED BY <1>3, <2>1 DEF Scripted, Grasping, Install, Stages
<1>4. CASE cmd = "remove"
  <2>1. /\ Plan(cmd) = <<"stop", "unregister">> /\ Head(Plan(cmd)) = "stop"
        /\ Tail(Plan(cmd)) = <<"unregister">> /\ Tail(Plan(cmd)) \in Seq(Stages)
    BY <1>4 DEF Plan, Stages
  <2> QED BY <1>4, <2>1 DEF Scripted, Stopping, Grasping, Install, Stages
<1>5. CASE cmd = "update"
  <2>1. /\ Plan(cmd) = <<"stop", "unregister", "create", "start">> /\ Head(Plan(cmd)) = "stop"
        /\ Tail(Plan(cmd)) = <<"unregister", "create", "start">>
        /\ Tail(Plan(cmd)) \in Seq(Stages)
    BY <1>5 DEF Plan, Stages
  <2> QED BY <1>5, <2>1 DEF Scripted, Stopping, Grasping, Install, Stages
<1>6. CASE cmd = "drain_and_remove"
  <2>1. /\ Plan(cmd) = <<"drain", "stop", "unregister">> /\ Head(Plan(cmd)) = "drain"
        /\ Tail(Plan(cmd)) = <<"stop", "unregister">> /\ Tail(Plan(cmd)) \in Seq(Stages)
    BY <1>6 DEF Plan, Stages
  <2> QED BY <1>6, <2>1 DEF Scripted, Grasping, Install, Stages
<1> QED BY <1>1, <1>2, <1>3, <1>4, <1>5, <1>6 DEF Ops

\* A command begins: the types are kept.
LEMMA BeginTyped ==
    ASSUME Typed, NEW c \in Controllers, NEW cmd \in Ops, Begin(c, cmd), crossed' \in BOOLEAN
    PROVE  Typed'
<1> USE Cast, WorkerAssumption
<1>1. /\ pc[c] = "idle" /\ Goto(c, Head(Plan(cmd)))
      /\ todo' = [todo EXCEPT ![c] = Tail(Plan(cmd))]
      /\ op' = [op EXCEPT ![c] = cmd] /\ ok' = [ok EXCEPT ![c] = TRUE]
      /\ cmd = "stop_all" <=> c = Main
      /\ UNCHANGED <<hold, runs>>
  BY DEF Begin
<1>2. todo'[c] = Tail(Plan(cmd)) /\ op'[c] = cmd
  BY <1>1 DEF Typed, TypeOK
<1>3. pc'[c] = Head(Plan(cmd)) /\ \A y \in Actors : y # c => pc'[y] = pc[y]
  BY <1>1 DEF Typed, TypeOK, Goto
<1>4. /\ Scripted(c)' /\ Head(Plan(cmd)) \in Stages /\ Tail(Plan(cmd)) \in Seq(Stages)
      /\ Head(Plan(cmd)) \notin Grasping
  BY <1>2, <1>3, PlanScripted
<1>5. pc' \in [Actors -> Labels]
  BY <1>1, <1>4, GotoTyped DEF Labels
<1>6. todo' \in [Controllers -> Seq(Stages)]
  BY <1>1, <1>4 DEF Typed, TypeOK
<1>7. asked' \in 0 .. MaxCommands
  BY DEF Begin, Typed, TypeOK
<1>8. TypeOK'
  BY <1>1, <1>5, <1>6, <1>7 DEF Typed, TypeOK, Begin, Labels, memory, events, history
<1>9. \A d \in Controllers : d # c => todo'[d] = todo[d] /\ op'[d] = op[d]
  BY <1>1 DEF Typed, TypeOK
<1>10. \A d \in Controllers : Scripted(d)'
  BY <1>3, <1>4, <1>9 DEF Typed, Labelled, Scripted
<1>11. Labelled'
  BY <1>1, <1>2, <1>3, <1>9, <1>10 DEF Typed, Labelled
<1>12. Held'
  BY <1>1, <1>3, <1>4, HeldStays
<1> QED BY <1>8, <1>11, <1>12 DEF Typed

\* create_worker registers an entry: the types are kept.
LEMMA CreateTyped ==
    ASSUME Typed, NEW c \in Controllers, Create(c), crossed' \in BOOLEAN
    PROVE  Typed'
<1> USE Cast, WorkerAssumption
<1>1. /\ pc[c] = "create" /\ op' = op /\ (Pass(c) \/ Fail(c))
      /\ UNCHANGED <<mode, hold, runs, new, joined, asked, op, stop, pause, history>>
  BY DEF Create
<1>2. /\ pc' \in [Actors -> Labels] /\ todo' \in [Controllers -> Seq(Stages)]
      /\ Labelled' /\ pc'[c] \notin Grasping
      /\ \A y \in Actors : y # c => pc'[y] = pc[y]
  BY <1>1, PassTyped, FailTyped
<1>3. ok' \in [Controllers -> BOOLEAN]
  BY DEF Create, Fail, Typed, TypeOK
<1>4. /\ entry' \in Entries \union {NoEntry} /\ dict' \in [Entries -> Fields]
      /\ busy' \subseteq Entries
  <2>1. CASE UNCHANGED <<memory, busy>>
    BY <2>1 DEF memory, Typed, TypeOK
  <2>2. CASE \E e \in Entries : /\ entry' = e /\ dict' = [dict EXCEPT ![e] = Blank]
                                /\ busy' = busy \ {e}
    <3>1. Blank \in Fields
      BY DEF Blank, Fields, Handles, Statuses
    <3> QED BY <2>2, <3>1 DEF Typed, TypeOK
  <2>3. \/ UNCHANGED <<memory, busy>>
        \/ \E e \in Entries : /\ entry' = e /\ dict' = [dict EXCEPT ![e] = Blank]
                              /\ busy' = busy \ {e}
    BY DEF Create
  <2> QED BY <2>1, <2>2, <2>3
<1>5. TypeOK'
  BY <1>1, <1>2, <1>3, <1>4 DEF Typed, TypeOK, Labels, history
<1>6. Held'
  BY <1>1, <1>2, HeldStays
<1> QED BY <1>2, <1>5, <1>6 DEF Typed

\* start_worker: the types are kept.
LEMMA StartTyped ==
    ASSUME Typed, NEW c \in Controllers, Start(c), crossed' \in BOOLEAN
    PROVE  Typed'
<1> USE Cast, WorkerAssumption
<1>1. /\ pc[c] = "start" /\ op' = op
      /\ \/ Fail(c) /\ hold' = hold
         \/ Pass(c) /\ UNCHANGED <<ok, hold>>
         \/ /\ entry # NoEntry /\ Keep(c, entry) /\ Goto(c, "assign")
            /\ UNCHANGED <<todo, ok>>
      /\ UNCHANGED <<memory, runs, new, joined, asked, op, events, history>>
  BY DEF Start, Registered
<1>2. /\ pc' \in [Actors -> Labels] /\ todo' \in [Controllers -> Seq(Stages)]
      /\ ok' \in [Controllers -> BOOLEAN] /\ Labelled'
      /\ \A y \in Actors : y # c => pc'[y] = pc[y] /\ hold'[y] = hold[y]
      /\ hold' \in [Actors -> Entries \union {NoEntry}]
      /\ pc'[c] \in Grasping => hold'[c] \in Entries
  <2>1. CASE Fail(c) /\ hold' = hold
    BY <1>1, <2>1, FailTyped DEF Typed, TypeOK
  <2>2. CASE Pass(c) /\ UNCHANGED <<ok, hold>>
    BY <1>1, <2>2, PassTyped DEF Typed, TypeOK
  <2>3. CASE /\ entry # NoEntry /\ Keep(c, entry) /\ Goto(c, "assign")
             /\ UNCHANGED <<todo, ok>>
    <3>1. pc'[c] = "assign" => Scripted(c)'
      BY <1>1, <2>3 DEF Typed, Labelled, Scripted, Stopping, Install
    <3>2. /\ pc' \in [Actors -> Labels] /\ Labelled' /\ pc'[c] = "assign"
          /\ \A y \in Actors : y # c => pc'[y] = pc[y]
      BY <1>1, <2>3, <3>1, CommandGoto DEF Labels, Waiting, Install
    <3> QED BY <2>3, <3>2 DEF Typed, TypeOK, Keep
  <2> QED BY <1>1, <2>1, <2>2, <2>3
<1>3. TypeOK'
  BY <1>1, <1>2 DEF Typed, TypeOK, Labels, memory, events, history
<1>4. Held'
  BY <1>1, <1>2, HeldStays
<1> QED BY <1>2, <1>3, <1>4 DEF Typed

\* restart_worker: the types are kept.
LEMMA RestartTyped ==
    ASSUME Typed, NEW c \in Controllers, Restart(c), crossed' \in BOOLEAN
    PROVE  Typed'
<1> USE Cast, WorkerAssumption
<1>1. /\ pc[c] = "restart" /\ op' = op
      /\ \/ Fail(c)
         \/ /\ Goto(c, "stop") /\ UNCHANGED <<todo, ok>>
         \/ /\ Goto(c, "start") /\ todo' = [todo EXCEPT ![c] = <<>>] /\ ok' = ok
      /\ UNCHANGED <<memory, hold, runs, new, joined, asked, op, events, history>>
  <2>1. [todo EXCEPT ![c] = todo[c]] = todo
    BY DEF Typed, TypeOK
  <2> QED BY <2>1 DEF Restart
<1>2. /\ pc' \in [Actors -> Labels] /\ todo' \in [Controllers -> Seq(Stages)]
      /\ ok' \in [Controllers -> BOOLEAN] /\ Labelled' /\ pc'[c] \notin Grasping
      /\ \A y \in Actors : y # c => pc'[y] = pc[y]
  <2>1. CASE Fail(c)
    BY <1>1, <2>1, FailTyped
  <2>2. CASE Goto(c, "stop") /\ UNCHANGED <<todo, ok>>
    <3>1. pc'[c] = "stop" => Scripted(c)'
      BY <1>1, <2>2 DEF Typed, Labelled, Scripted, Stopping, Install
    <3> QED BY <1>1, <2>2, <3>1, CommandGoto
            DEF Labels, Stages, Typed, TypeOK, Grasping, Install
  <2>3. CASE Goto(c, "start") /\ todo' = [todo EXCEPT ![c] = <<>>] /\ ok' = ok
    <3>1. todo' \in [Controllers -> Seq(Stages)] /\ todo'[c] = <<>>
          /\ \A d \in Controllers : d # c => todo'[d] = todo[d]
      BY <2>3 DEF Typed, TypeOK
    <3>2. pc'[c] = "start" => Scripted(c)'
      BY <1>1, <3>1 DEF Typed, Labelled, Scripted, Stopping, Install
    <3> QED BY <1>1, <2>3, <3>1, <3>2, CommandGoto
            DEF Labels, Stages, Typed, TypeOK, Grasping, Install
  <2> QED BY <1>1, <2>1, <2>2, <2>3
<1>3. TypeOK'
  BY <1>1, <1>2 DEF Typed, TypeOK, Labels, memory, events, history
<1>4. Held'
  BY <1>1, <1>2, HeldStays
<1> QED BY <1>2, <1>3, <1>4 DEF Typed

\* stop_worker marks the worker STOPPING: the types are kept.
LEMMA StopTyped ==
    ASSUME Typed, NEW c \in Controllers, Stop(c), crossed' \in BOOLEAN
    PROVE  Typed'
<1> USE Cast, WorkerAssumption
<1>1. /\ pc[c] = "stop" /\ op' = op
      /\ \/ Fail(c) /\ UNCHANGED <<dict, hold>>
         \/ /\ entry # NoEntry /\ SetStatus("stopping") /\ Keep(c, entry)
            /\ Goto(c, "signal") /\ UNCHANGED <<todo, ok>>
      /\ UNCHANGED <<mode, entry, runs, new, joined, asked, op, events, history>>
  BY DEF Stop, Registered
<1>2. /\ pc' \in [Actors -> Labels] /\ todo' \in [Controllers -> Seq(Stages)]
      /\ ok' \in [Controllers -> BOOLEAN] /\ Labelled' /\ dict' \in [Entries -> Fields]
      /\ \A y \in Actors : y # c => pc'[y] = pc[y] /\ hold'[y] = hold[y]
      /\ hold' \in [Actors -> Entries \union {NoEntry}]
      /\ pc'[c] \in Grasping => hold'[c] \in Entries
  <2>1. CASE Fail(c) /\ UNCHANGED <<dict, hold>>
    BY <1>1, <2>1, FailTyped DEF Typed, TypeOK
  <2>2. CASE /\ entry # NoEntry /\ SetStatus("stopping") /\ Keep(c, entry)
             /\ Goto(c, "signal") /\ UNCHANGED <<todo, ok>>
    <3>1. pc'[c] = "signal" => Scripted(c)'
      BY <1>1, <2>2 DEF Typed, Labelled, Scripted, Stopping, Install
    <3>2. /\ pc' \in [Actors -> Labels] /\ Labelled' /\ pc'[c] = "signal"
          /\ \A y \in Actors : y # c => pc'[y] = pc[y]
      BY <1>1, <2>2, <3>1, CommandGoto DEF Labels, Stages
    <3>3. dict' \in [Entries -> Fields]
      BY <2>2, StatusTyped DEF Typed, TypeOK, Statuses
    <3> QED BY <2>2, <3>2, <3>3 DEF Typed, TypeOK, Keep
  <2> QED BY <1>1, <2>1, <2>2
<1>3. TypeOK'
  BY <1>1, <1>2 DEF Typed, TypeOK, Labels, events, history
<1>4. Held'
  BY <1>1, <1>2, HeldStays
<1> QED BY <1>2, <1>3, <1>4 DEF Typed

\* The stop event is set: the types are kept.
LEMMA SignalTyped ==
    ASSUME Typed, NEW c \in Controllers, Signal(c), crossed' \in BOOLEAN
    PROVE  Typed'
<1> USE Cast, WorkerAssumption
<1>1. pc[c] = "signal" /\ hold[c] \in Entries /\ dict[hold[c]].stop \in Handles
  BY DEF Signal, Typed, TypeOK, Held, Grasping, Fields
<1>2. pc'[c] = "take" => Scripted(c)'
  BY <1>1 DEF Signal, Typed, Labelled, Scripted, Stopping, Install
<1>3. /\ pc' \in [Actors -> Labels] /\ Labelled' /\ pc'[c] = "take"
      /\ \A y \in Actors : y # c => pc'[y] = pc[y]
  BY <1>1, <1>2, CommandGoto DEF Signal, Labels, Stages
<1>4. TypeOK'
  BY <1>1, <1>3 DEF Typed, TypeOK, Signal, Labels, memory, history
<1>5. Held'
  BY <1>1, <1>3, HeldStays DEF Signal
<1> QED BY <1>3, <1>4, <1>5 DEF Typed

\* The thread to join is fetched: the types are kept.
LEMMA TakeTyped ==
    ASSUME Typed, NEW c \in Controllers, Take(c), crossed' \in BOOLEAN
    PROVE  Typed'
<1> USE Cast, WorkerAssumption
<1>1. /\ pc[c] = "take" /\ hold[c] \in Entries
      /\ UNCHANGED <<memory, hold, runs, new, todo, asked, op, ok, events, history>>
      /\ \/ c = Main /\ Goto(c, "reply") /\ joined' = joined
         \/ /\ Goto(c, "join")
            /\ \E e \in Entries : joined' = [joined EXCEPT ![c] = dict[e].thread]
  BY DEF Take, Typed, TypeOK, Held, Grasping
<1>2. joined' \in [Controllers -> Handles]
  BY <1>1 DEF Typed, TypeOK, Fields
<1>3. /\ pc' \in [Actors -> Labels] /\ Labelled' /\ pc'[c] \in {"reply", "join"}
      /\ \A y \in Actors : y # c => pc'[y] = pc[y]
  <2>1. CASE c = Main /\ Goto(c, "reply")
    <3>1. pc'[c] = "reply" => Scripted(c)'
      BY <1>1, <2>1 DEF Typed, Labelled, Scripted, Stopping, Install
    <3> QED BY <1>1, <2>1, <3>1, CommandGoto DEF Labels
  <2>2. CASE Goto(c, "join")
    <3>1. pc'[c] = "join" => Scripted(c)'
      BY <1>1 DEF Typed, Labelled, Scripted, Stopping, Install
    <3> QED BY <1>1, <2>2, <3>1, CommandGoto DEF Labels, Stages
  <2> QED BY <1>1, <2>1, <2>2
<1>4. TypeOK'
  BY <1>1, <1>2, <1>3 DEF Typed, TypeOK, Labels, memory, events, history
<1>5. Held'
  BY <1>1, <1>3, HeldStays
<1> QED BY <1>3, <1>4, <1>5 DEF Typed

\* The join succeeded: the types are kept.
LEMMA JoinedTyped ==
    ASSUME Typed, NEW c \in Controllers, Joined(c), crossed' \in BOOLEAN
    PROVE  Typed'
<1> USE Cast, WorkerAssumption
<1>1. /\ pc[c] = "join" /\ SetStatus("stopped") /\ Pass(c)
      /\ joined' = [joined EXCEPT ![c] = Unstarted]
      /\ UNCHANGED <<mode, entry, hold, runs, new, asked, op, ok, events, history>>
  BY DEF Joined
<1>2. /\ pc' \in [Actors -> Labels] /\ todo' \in [Controllers -> Seq(Stages)]
      /\ Labelled' /\ pc'[c] \notin Grasping
      /\ \A y \in Actors : y # c => pc'[y] = pc[y]
  BY <1>1, PassTyped
<1>3. dict' \in [Entries -> Fields]
  BY <1>1, StatusTyped DEF Typed, TypeOK, Statuses
<1>4. TypeOK'
  BY <1>1, <1>2, <1>3 DEF Typed, TypeOK, Labels, events, history
<1>5. Held'
  BY <1>1, <1>2, HeldStays
<1> QED BY <1>2, <1>4, <1>5 DEF Typed

\* The join ran out: the types are kept.
LEMMA JoinTimeoutTyped ==
    ASSUME Typed, NEW c \in Controllers, JoinTimeout(c), crossed' \in BOOLEAN
    PROVE  Typed'
<1> USE Cast, WorkerAssumption
<1>1. /\ pc[c] = "join" /\ joined' = [joined EXCEPT ![c] = Unstarted]
      /\ joined[c] \in Threads /\ outlived' = outlived \union {joined[c]}
      /\ (SetStatus("stopped") /\ Pass(c) /\ ok' = ok) \/ (dict' = dict /\ Fail(c))
      /\ UNCHANGED <<mode, entry, hold, runs, new, asked, op, events, slipped, drained>>
  BY DEF JoinTimeout, IsAlive
<1>2. /\ pc' \in [Actors -> Labels] /\ todo' \in [Controllers -> Seq(Stages)]
      /\ Labelled' /\ pc'[c] \notin Grasping /\ ok' \in [Controllers -> BOOLEAN]
      /\ \A y \in Actors : y # c => pc'[y] = pc[y]
  BY <1>1, PassTyped, FailTyped DEF Typed, TypeOK
<1>3. dict' \in [Entries -> Fields]
  BY <1>1, StatusTyped DEF Typed, TypeOK, Statuses
<1>4. TypeOK'
  BY <1>1, <1>2, <1>3 DEF Typed, TypeOK, Labels, events
<1>5. Held'
  BY <1>1, <1>2, HeldStays
<1> QED BY <1>2, <1>4, <1>5 DEF Typed

\* remove_worker takes the entry out: the types are kept.
LEMMA UnregisterTyped ==
    ASSUME Typed, NEW c \in Controllers, Unregister(c), crossed' \in BOOLEAN
    PROVE  Typed'
<1> USE Cast, WorkerAssumption
<1>1. /\ pc[c] = "unregister"
      /\ \/ Fail(c) /\ UNCHANGED <<memory, hold>>
         \/ /\ entry # NoEntry /\ entry' = NoEntry /\ Keep(c, NoEntry) /\ Pass(c) /\ ok' = ok
            /\ dict' = dict \/ dict' = [dict EXCEPT ![entry] = Blank]
      /\ UNCHANGED <<mode, runs, new, joined, asked, op, events, history>>
  BY DEF Unregister, Registered
<1>2. /\ pc' \in [Actors -> Labels] /\ todo' \in [Controllers -> Seq(Stages)]
      /\ Labelled' /\ pc'[c] \notin Grasping /\ ok' \in [Controllers -> BOOLEAN]
      /\ \A y \in Actors : y # c => pc'[y] = pc[y]
  BY <1>1, PassTyped, FailTyped DEF Typed, TypeOK
<1>3. Blank \in Fields
  BY DEF Blank, Fields, Handles, Statuses
<1>4. /\ dict' \in [Entries -> Fields] /\ entry' \in Entries \union {NoEntry}
      /\ hold' \in [Actors -> Entries \union {NoEntry}]
      /\ \A y \in Actors : y # c => hold'[y] = hold[y]
  <2>1. /\ dict \in [Entries -> Fields] /\ entry \in Entries \union {NoEntry}
        /\ hold \in [Actors -> Entries \union {NoEntry}]
    BY DEF Typed, TypeOK
  <2>2. CASE UNCHANGED <<memory, hold>>
    BY <2>1, <2>2 DEF memory
  <2>3. CASE entry # NoEntry /\ entry' = NoEntry /\ Keep(c, NoEntry)
             /\ (dict' = dict \/ dict' = [dict EXCEPT ![entry] = Blank])
    <3>1. dict' \in [Entries -> Fields]
      BY <1>3, <2>1, <2>3
    <3>2. /\ hold' \in [Actors -> Entries \union {NoEntry}]
          /\ \A y \in Actors : y # c => hold'[y] = hold[y]
      BY <2>1, <2>3 DEF Keep
    <3> QED BY <2>3, <3>1, <3>2
  <2> QED BY <1>1, <2>2, <2>3
<1>5. TypeOK'
  BY <1>1, <1>2, <1>4 DEF Typed, TypeOK, Labels, events, history
<1>6. Held'
  BY <1>1, <1>2, <1>4, HeldStays
<1> QED BY <1>2, <1>5, <1>6 DEF Typed

\* pause_worker and resume_worker: the types are kept.
LEMMA PauseTyped ==
    ASSUME Typed, NEW c \in Controllers, Pause(c) \/ Resume(c), crossed' \in BOOLEAN
    PROVE  Typed'
<1> USE Cast, WorkerAssumption
<1>1. /\ pc[c] \in {"pause", "resume"} /\ (Fail(c) \/ (Pass(c) /\ ok' = ok))
      /\ UNCHANGED <<memory, hold, runs, new, joined, asked, op, stop, busy, slipped, outlived>>
      /\ drained' \in BOOLEAN
  BY DEF Pause, Resume, Typed, TypeOK, history
<1>2. /\ pc' \in [Actors -> Labels] /\ todo' \in [Controllers -> Seq(Stages)]
      /\ Labelled' /\ pc'[c] \notin Grasping /\ ok' \in [Controllers -> BOOLEAN]
      /\ \A y \in Actors : y # c => pc'[y] = pc[y]
  BY <1>1, PassTyped, FailTyped DEF Typed, TypeOK
<1>3. pause' \subseteq Handles
  BY DEF Pause, Resume, Registered, Typed, TypeOK, Fields
<1>4. TypeOK'
  BY <1>1, <1>2, <1>3 DEF Typed, TypeOK, Labels, memory
<1>5. Held'
  BY <1>1, <1>2, HeldStays
<1> QED BY <1>2, <1>4, <1>5 DEF Typed

\* drain_worker pauses the worker: the types are kept.
LEMMA DrainTyped ==
    ASSUME Typed, NEW c \in Controllers, Drain(c), crossed' \in BOOLEAN
    PROVE  Typed'
<1> USE Cast, WorkerAssumption
<1>1. /\ pc[c] = "drain"
      /\ \/ Fail(c) /\ UNCHANGED <<hold, pause>>
         \/ /\ entry # NoEntry /\ pause' = pause \union {dict[entry].pause}
            /\ Keep(c, entry) /\ Goto(c, "await") /\ UNCHANGED <<todo, ok>>
      /\ UNCHANGED <<memory, runs, new, joined, asked, op, stop, busy, history>>
  BY DEF Drain, Registered
<1>2. /\ pc' \in [Actors -> Labels] /\ todo' \in [Controllers -> Seq(Stages)]
      /\ ok' \in [Controllers -> BOOLEAN] /\ Labelled' /\ pause' \subseteq Handles
      /\ \A y \in Actors : y # c => pc'[y] = pc[y] /\ hold'[y] = hold[y]
      /\ hold' \in [Actors -> Entries \union {NoEntry}]
      /\ pc'[c] \in Grasping => hold'[c] \in Entries
  <2>1. CASE Fail(c) /\ UNCHANGED <<hold, pause>>
    BY <1>1, <2>1, FailTyped DEF Typed, TypeOK
  <2>2. CASE /\ entry # NoEntry /\ pause' = pause \union {dict[entry].pause}
             /\ Keep(c, entry) /\ Goto(c, "await") /\ UNCHANGED <<todo, ok>>
    <3>1. pc'[c] = "await" => Scripted(c)'
      BY <1>1, <2>2 DEF Typed, Labelled, Scripted, Stopping, Install
    <3>2. /\ pc' \in [Actors -> Labels] /\ Labelled' /\ pc'[c] = "await"
          /\ \A y \in Actors : y # c => pc'[y] = pc[y]
      BY <1>1, <2>2, <3>1, CommandGoto DEF Labels, Stages
    <3>3. pause' \subseteq Handles
      BY <2>2 DEF Typed, TypeOK, Fields
    <3> QED BY <2>2, <3>2, <3>3 DEF Typed, TypeOK, Keep
  <2> QED BY <1>1, <2>1, <2>2
<1>3. TypeOK'
  BY <1>1, <1>2 DEF Typed, TypeOK, Labels, memory, history
<1>4. Held'
  BY <1>1, <1>2, HeldStays
<1> QED BY <1>2, <1>3, <1>4 DEF Typed

\* drain_worker looks whether the worker is busy: the types are kept.
LEMMA AwaitTyped ==
    ASSUME Typed, NEW c \in Controllers, Await(c), crossed' \in BOOLEAN
    PROVE  Typed'
<1> USE Cast, WorkerAssumption
<1>1. /\ pc[c] = "await" /\ ((Pass(c) /\ ok' = ok) \/ Fail(c))
      /\ UNCHANGED <<memory, hold, runs, new, joined, asked, op, events, slipped, outlived>>
      /\ drained' \in BOOLEAN
  BY DEF Await, Typed, TypeOK
<1>2. /\ pc' \in [Actors -> Labels] /\ todo' \in [Controllers -> Seq(Stages)]
      /\ Labelled' /\ pc'[c] \notin Grasping /\ ok' \in [Controllers -> BOOLEAN]
      /\ \A y \in Actors : y # c => pc'[y] = pc[y]
  BY <1>1, PassTyped, FailTyped DEF Typed, TypeOK
<1>3. TypeOK'
  BY <1>1, <1>2 DEF Typed, TypeOK, Labels, memory, events
<1>4. Held'
  BY <1>1, <1>2, HeldStays
<1> QED BY <1>2, <1>3, <1>4 DEF Typed

\* The answer is out: the types are kept.
LEMMA AnsweredTyped ==
    ASSUME Typed, NEW c \in Controllers, Answered(c), crossed' \in BOOLEAN
    PROVE  Typed'
<1> USE Cast, WorkerAssumption
<1>1. /\ pc[c] = "reply" /\ c = Commands /\ todo[c] = <<>>
      /\ Goto(c, "idle") /\ Keep(c, NoEntry) /\ ok' = [ok EXCEPT ![c] = TRUE]
      /\ op' = [op EXCEPT ![c] = "stop_all"] /\ UNCHANGED <<todo, runs>>
  BY DEF Answered, Typed, Labelled, Scripted, Stopping, Install
<1>2. /\ pc' \in [Actors -> Labels] /\ pc'[c] = "idle"
      /\ \A y \in Actors : y # c => pc'[y] = pc[y]
  BY <1>1, GotoTyped DEF Labels
<1>3. /\ hold' \in [Actors -> Entries \union {NoEntry}]
      /\ op' \in [Controllers -> Ops] /\ ok' \in [Controllers -> BOOLEAN]
      /\ \A y \in Actors : y # c => hold'[y] = hold[y]
      /\ op'[Main] = op[Main]
  BY <1>1 DEF Keep, Typed, TypeOK, Ops
<1>4. TypeOK'
  BY <1>2, <1>3 DEF Typed, TypeOK, Answered, Labels, memory, events, history
<1>5. \A d \in Controllers : Scripted(d)'
  BY <1>1, <1>2, <1>3 DEF Typed, Labelled, Scripted
<1>6. Labelled'
  BY <1>1, <1>2, <1>3, <1>5 DEF Typed, Labelled
<1>7. Held'
  BY <1>1, <1>2, <1>3, HeldStays DEF Grasping, Install
<1> QED BY <1>4, <1>6, <1>7 DEF Typed

\* The main thread stops the worker or does nothing.
LEMMA MainStops ==
    ASSUME Typed
    PROVE  pc[Main] \in {"idle", "reply"} \union Stopping
BY Cast DEF Typed, Labelled, Scripted

\* A process starts well typed.
LEMMA TypedInit ==
    ASSUME Init
    PROVE  Typed
<1> USE Cast, WorkerAssumption
<1>1. TypeOK
  <2>1. Blank \in Fields /\ <<>> \in Seq(Stages)
    BY DEF Blank, Fields, Statuses, Handles
  <2>2. dict \in [Entries -> Fields] /\ todo \in [Controllers -> Seq(Stages)]
    BY <2>1 DEF Init
  <2>3. /\ pc \in [Actors -> {"idle", "reply", "new", "raised", "leave", "final", "dying",
                             "dead"} \union Stages \union Waiting \union Working]
        /\ op \in [Controllers -> Ops]
    BY DEF Init, Ops
  <2>4. /\ hold \in [Actors -> Entries \union {NoEntry}]
        /\ runs \in [Threads -> Entries \union {NoEntry}]
        /\ new \in [Actors -> Handles] /\ joined \in [Controllers -> Handles]
        /\ ok \in [Controllers -> BOOLEAN] /\ asked \in 0 .. MaxCommands
    BY DEF Init
  <2>5. /\ mode \in Modes /\ entry \in Entries \union {NoEntry}
        /\ stop \subseteq Handles /\ pause \subseteq Handles /\ busy \subseteq Entries
        /\ crossed \in BOOLEAN /\ slipped \subseteq Threads /\ outlived \subseteq Threads
        /\ drained \in BOOLEAN
    BY DEF Init
  <2> QED BY ONLY <2>2, <2>3, <2>4, <2>5 DEF TypeOK
<1>2. Labelled /\ Held
  BY DEF Init, Labelled, Held, Scripted, ThreadLabels, Grasping, Install
<1> QED BY <1>1, <1>2 DEF Typed

\* Every step keeps the types.
LEMMA TypedStep ==
    ASSUME Typed, [Next]_vars
    PROVE  Typed'
<1>1. CASE UNCHANGED vars
  BY <1>1 DEF vars, memory, flow, events, history, Typed, TypeOK, Labelled, Held, Scripted
<1>2. CASE Next
  <2>1. crossed' \in BOOLEAN
    BY <1>2 DEF Next, Typed, TypeOK, Overlap
  <2>2. ASSUME NEW x \in Actors, Installs(x) PROVE Typed'
    BY <2>1, <2>2, AssignTyped, EventsTyped, ClearTyped, MarkTyped, LaunchTyped DEF Installs
  <2>3. ASSUME NEW t \in Threads, Steps(t) PROVE Typed'
    BY <2>1, <2>2, <2>3, Cast, EnterTyped, RunTyped, CheckTyped, BeginFrameTyped,
       EndFrameTyped, LeaveTyped, RaisedTyped, WakeTyped, FinalTyped, DieTyped DEF Steps
  <2>4. ASSUME NEW c \in Controllers, Serves(c) PROVE Typed'
    BY <2>1, <2>2, <2>4, Cast, CreateTyped, StartTyped, RestartTyped, StopTyped,
       SignalTyped, TakeTyped, JoinedTyped, JoinTimeoutTyped, UnregisterTyped,
       PauseTyped, DrainTyped, AwaitTyped, AnsweredTyped DEF Serves
  <2>5. ASSUME NEW c \in Controllers, NEW cmd \in Ops, Begin(c, cmd) PROVE Typed'
    BY <2>1, <2>5, BeginTyped
  <2> QED BY <1>2, <2>3, <2>4, <2>5 DEF Next, Move
<1> QED BY <1>1, <1>2

\* The types always hold.
LEMMA TypedAlways == Spec => []Typed
<1>1. Init => Typed
  BY TypedInit
<1>2. Typed /\ [Next]_vars => Typed'
  BY TypedStep
<1> QED BY <1>1, <1>2, PTL DEF Spec

\* Every variable keeps its type, whatever overlaps.
THEOREM WorkersTypeCorrect == Spec => []TypeOK
<1>1. Typed => TypeOK
  BY DEF Typed
<1> QED BY <1>1, TypedAlways, PTL

-----------------------------------------------------------------------------
(* Until a command and an internal restart overlap.                        *)

\* The thread in its target is the registry's: its entry, its events.
Known ==
    \A t \in Threads : pc[t] \in Bound =>
        /\ Registered /\ runs[t] = entry
        /\ dict[entry].thread = t /\ dict[entry].stop = t /\ dict[entry].pause = t

\* What is in hand is the registry's entry, not one that was removed.
Fetched ==
    \A x \in Actors : x # Main /\ pc[x] \in Grasping => Registered /\ hold[x] = entry

\* Whoever installs a thread is alone.
Alone ==
    \A x \in Actors : pc[x] \in Install =>
        \A t \in Threads : t # x => pc[t] \notin Bound \union Install

\* A thread that is installed is the registry's, has not run, is told
\* nothing, and no drain vouches for it.
Fresh ==
    \A x \in Actors : pc[x] \in Installing =>
        /\ new[x] \in Threads /\ new[x] # x
        /\ dict[entry].thread = new[x] /\ pc[new[x]] = "new" /\ runs[new[x]] = entry
        /\ ~drained
        /\ pc[Main] = "idle" => new[x] \notin stop

\* The events of an entry are its thread's, but while they are replaced.
Aligned ==
    Registered /\ (\A x \in Actors : pc[x] # "events")
        => dict[entry].stop = dict[entry].thread /\ dict[entry].pause = dict[entry].thread

\* RUNNING is the status of a worker whose thread is in its target, or
\* about to be started.
Running ==
    Registered /\ dict[entry].status = "running"
        => (\E t \in Threads : pc[t] \in Bound) \/ (\E x \in Actors : pc[x] = "launch")

\* Before the new thread is marked the worker is not RUNNING.
Unmarked ==
    \A x \in Actors : pc[x] \in {"sleep", "assign", "events", "clear", "mark"}
        => dict[entry].status # "running"

\* A worker that is STOPPED is not in its target, nor about to be.
AtRest ==
    pc[Main] = "idle" /\ Registered /\ dict[entry].status = "stopped"
        => /\ \A t \in Threads : pc[t] \notin Working
           /\ \A x \in Actors : pc[x] # "launch"

\* stop_worker joins the registry's thread.
Joining == pc[Commands] = "join" => joined[Commands] = dict[entry].thread

\* Nobody has told a live thread to stop but the command that will join it,
\* or one whose join on it ran out.
NotTold ==
    pc[Main] = "idle" =>
        \A t \in Threads : IsAlive(t) /\ t \in stop =>
            \/ t \in outlived
            \/ pc[Commands] \in {"take", "join"} /\ dict[entry].thread = t

\* A stop that went well leaves no thread in its target.
Over ==
    (\/ pc[Commands] = "unregister"
     \/ /\ pc[Commands] = "reply" /\ ok[Commands]
        /\ op[Commands] \in {"stop", "remove", "drain_and_remove"})
        => \A t \in Threads : pc[t] \notin Bound

\* While a drain waits and after it, the thread is told to pause.
Paused ==
    drained \/ pc[Commands] = "await" => \A t \in Threads : pc[t] \in Bound => t \in pause

\* A thread in a frame has its worker marked busy.
Marked == \A t \in Threads : pc[t] = "frame" => entry \in busy

\* Whoever is about to begin a frame was not paused when it asked; no other
\* frame runs after a drain.
Silent ==
    /\ drained => \A t \in Threads \ slipped : pc[t] # "frame"
    /\ \A t \in Threads \ slipped : pc[t] # "admitted"

Clean ==
    /\ ~Overlap /\ Known /\ Fetched /\ Alone /\ Fresh /\ Aligned /\ Running /\ Unmarked
    /\ AtRest /\ Joining /\ NotTold /\ Over /\ Paused /\ Marked /\ Silent

WorkersInv == Typed /\ (~crossed => Clean)

\* An internal restart finds the commands at rest.
LEMMA Quiet ==
    ASSUME ~Overlap, NEW t \in Threads, pc[t] \in {"raised"} \union Waiting
    PROVE  pc[Commands] = "idle" /\ pc[Main] \in {"idle", "reply"}
BY DEF Overlap, Restarting

\* The registry knows one thread.
LEMMA OneBound ==
    ASSUME Known, NEW t \in Threads, NEW u \in Threads, pc[t] \in Bound, pc[u] \in Bound
    PROVE  t = u
BY DEF Known

\* An installer is the message processor or a thread that restarts itself.
LEMMA Installer ==
    ASSUME Typed, Clean, NEW x \in Actors, pc[x] \in Install
    PROVE  /\ x # Main /\ (x \in Threads \/ x = Commands)
           /\ Registered /\ entry \in Entries /\ hold[x] = entry
           /\ \A y \in Actors : y # x => pc[y] \notin Install \union {"sleep", "raised"}
           /\ x \in Threads => pc[Commands] = "idle" /\ pc[Main] \in {"idle", "reply"}
<1> USE Cast
<1>1. x # Main /\ (x \in Threads \/ x = Commands)
  BY MainStops DEF Stopping, Install
<1>2. Registered /\ entry \in Entries /\ hold[x] = entry
  BY <1>1 DEF Clean, Fetched, Grasping, Typed, TypeOK, Registered
<1>3. x \in Threads => pc[Commands] = "idle" /\ pc[Main] \in {"idle", "reply"}
  BY Quiet DEF Clean, Waiting
<1>4. ASSUME NEW y \in Actors, y # x
      PROVE  pc[y] \notin Install \union {"sleep", "raised"}
  <2>1. CASE y \in Threads
    BY <1>4, <2>1 DEF Clean, Alone, Bound
  <2>2. CASE y = Main
    BY <2>2, MainStops DEF Stopping, Install
  <2>3. CASE y = Commands
    BY <1>1, <1>3, <1>4, <2>3 DEF Install
  <2> QED BY <2>1, <2>2, <2>3
<1> QED BY <1>1, <1>2, <1>3, <1>4

\* While a thread is in its target nobody installs another, and no other
\* thread is between a failure and its restart.
LEMMA BoundAlone ==
    ASSUME Typed, Clean, NEW t \in Threads, pc[t] \in Bound
    PROVE  /\ \A x \in Actors : x # t => pc[x] \notin Install \union {"sleep", "raised"}
           /\ \A u \in Threads : u # t => pc[u] \notin Bound
           /\ pc[t] \notin Installing
           /\ Registered /\ entry \in Entries /\ dict[entry].thread = t
<1> USE Cast
<1>1. \A u \in Threads : u # t => pc[u] \notin Bound
  BY OneBound DEF Clean
<1>2. \A x \in Actors : x # t => pc[x] \notin Install
  BY DEF Clean, Alone
<1>3. \A c \in Controllers : pc[c] \notin {"sleep", "raised"}
  BY DEF Typed, Labelled, Scripted, Stopping, Install
<1> QED BY <1>1, <1>2, <1>3 DEF Clean, Known, Bound, Working, Installing, Install, Typed, TypeOK,
                              Registered

\* A step of a thread within its target.
LEMMA InnerStep ==
    ASSUME Typed, Typed', Clean, ~Overlap', NEW t \in Threads,
           pc[t] \in Bound, pc'[t] \in Bound,
           \A y \in Actors : y # t => pc'[y] = pc[y] /\ hold'[y] = hold[y],
           UNCHANGED <<entry, runs, new, joined, op, ok, stop, pause, outlived, drained>>,
           dict'[entry].thread = dict[entry].thread,
           dict'[entry].stop = dict[entry].stop, dict'[entry].pause = dict[entry].pause,
           pc'[t] = "assign" => hold'[t] = entry,
           pc'[t] \in {"sleep", "assign"} => dict'[entry].status # "running",
           pc'[t] \in Working => \/ dict'[entry].status # "stopped"
                                 \/ pc[t] \in Working /\ dict'[entry].status = dict[entry].status,
           pc'[t] = "frame" => runs[t] \in busy' /\ (drained => t \in slipped'),
           pc'[t] = "admitted" => t \in slipped'
    PROVE  Clean'
<1> USE Cast
<1>0. /\ \A x \in Actors : x # t => pc'[x] \notin Install \union {"sleep", "raised"}
      /\ \A u \in Threads : u # t => pc'[u] \notin Bound
      /\ Registered /\ entry \in Entries /\ dict[entry].thread = t
      /\ pc[t] \notin Installing /\ pc'[t] \notin Installing
      /\ pc'[Main] = pc[Main] /\ pc'[Commands] = pc[Commands]
  BY BoundAlone DEF Bound, Working, Installing, Install
<1>1. Known'
  BY <1>0 DEF Clean, Known, Registered
<1>2. Fetched'
  BY <1>0 DEF Clean, Fetched, Registered, Grasping, Bound, Working, Install
<1>3. Alone'
  BY <1>0 DEF Alone, Install, Bound, Working
<1>4. Fresh'
  BY <1>0 DEF Fresh, Installing
<1>5. Aligned'
  BY <1>0, <1>1 DEF Known, Aligned
<1>6. Running'
  BY DEF Running
<1>7. Unmarked'
  BY <1>0 DEF Unmarked, Install, Bound, Working
<1>8. AtRest'
  <2>1. \A u \in Threads : u # t => pc'[u] \notin Working
    BY <1>0 DEF Bound
  <2>2. \A x \in Actors : pc'[x] # "launch"
    BY <1>0 DEF Install, Installing
  <2>3. pc[Main] = "idle" /\ dict'[entry].status = "stopped" => pc'[t] \notin Working
    BY <1>0 DEF Clean, AtRest
  <2> QED BY <1>0, <2>1, <2>2, <2>3 DEF AtRest
<1>9. Joining'
  BY <1>0 DEF Clean, Joining
<1>10. NotTold'
  BY <1>0 DEF Clean, NotTold, IsAlive, Bound, Working
<1>11. Over'
  BY <1>0 DEF Clean, Over
<1>12. Paused'
  BY <1>0 DEF Clean, Paused
<1>13. Marked' /\ Silent'
  <2>1. \A u \in Threads : u # t => pc'[u] \notin {"frame", "admitted"}
    BY <1>0 DEF Bound, Working
  <2>2. runs[t] = entry
    BY DEF Clean, Known
  <2> QED BY <2>1, <2>2 DEF Marked, Silent
<1> QED BY <1>1, <1>2, <1>3, <1>4, <1>5, <1>6, <1>7, <1>8, <1>9, <1>10, <1>11, <1>12, <1>13
        DEF Clean

\* The thread fetches its entry: Clean is kept.
LEMMA EnterClean ==
    ASSUME Typed, Typed', Clean, ~Overlap', NEW t \in Threads, Enter(t)
    PROVE  Clean'
<1> USE Cast
<1>1. pc[t] = "started" /\ pc[t] \in Bound /\ pc[t] \in Working
  BY DEF Enter, Bound, Working
<1>2. Registered
  BY <1>1 DEF Clean, Known
<1>3. /\ pc'[t] = "entered" /\ pc'[t] \in Bound
      /\ \A y \in Actors : y # t => pc'[y] = pc[y] /\ hold'[y] = hold[y]
  BY <1>2 DEF Enter, Goto, Keep, Typed, TypeOK, Registered, Bound, Working
<1>4. UNCHANGED <<entry, dict, runs, new, joined, op, ok, stop, pause, outlived, drained, slipped>>
  BY DEF Enter, memory, events, history
<1> QED BY <1>1, <1>3, <1>4, InnerStep

\* The target begins: Clean is kept.
LEMMA RunClean ==
    ASSUME Typed, Typed', Clean, ~Overlap', NEW t \in Threads, Run(t)
    PROVE  Clean'
<1> USE Cast
<1>1. pc[t] = "entered" /\ pc[t] \in Bound
  BY DEF Run, Bound, Working
<1>2. Registered /\ entry \in Entries
  BY <1>1, BoundAlone
<1>3. /\ pc'[t] \in {"admitted", "check"} /\ pc'[t] \in Bound
      /\ \A y \in Actors : y # t => pc'[y] = pc[y] /\ hold'[y] = hold[y]
      /\ pc'[t] = "admitted" => t \in slipped'
  BY <1>2 DEF Run, Admit, Goto, Typed, TypeOK, Bound, Working
<1>4. UNCHANGED <<entry, runs, new, joined, op, ok, stop, pause, outlived, drained>>
  BY DEF Run, events
<1>5. /\ dict'[entry].thread = dict[entry].thread /\ dict'[entry].stop = dict[entry].stop
      /\ dict'[entry].pause = dict[entry].pause /\ dict'[entry].status = "running"
  BY <1>2, StatusTyped DEF Run, Typed, TypeOK, Statuses
<1> QED BY <1>1, <1>3, <1>4, <1>5, InnerStep

\* The loop looks at its events: Clean is kept.
LEMMA CheckClean ==
    ASSUME Typed, Typed', Clean, ~Overlap', NEW t \in Threads, Check(t)
    PROVE  Clean'
<1> USE Cast
<1>1. pc[t] = "check" /\ pc[t] \in Bound /\ pc[t] \in Working
  BY DEF Check, Bound, Working
<1>2. /\ pc'[t] \in {"admitted", "leave"} /\ pc'[t] \in Bound
      /\ \A y \in Actors : y # t => pc'[y] = pc[y]
      /\ pc'[t] = "admitted" => t \in slipped'
  BY DEF Check, Admit, Goto, Typed, TypeOK, Bound, Working
<1>3. UNCHANGED <<entry, dict, hold, runs, new, joined, op, ok, stop, pause, outlived, drained>>
  BY DEF Check, memory, events
<1> QED BY <1>1, <1>2, <1>3, InnerStep

\* A frame begins: Clean is kept.
LEMMA BeginFrameClean ==
    ASSUME Typed, Typed', Clean, ~Overlap', NEW t \in Threads, BeginFrame(t)
    PROVE  Clean'
<1> USE Cast
<1>1. pc[t] = "admitted" /\ pc[t] \in Bound /\ pc[t] \in Working
  BY DEF BeginFrame, Bound, Working
<1>2. /\ pc'[t] = "frame" /\ pc'[t] \in Bound
      /\ \A y \in Actors : y # t => pc'[y] = pc[y]
  BY DEF BeginFrame, Goto, Typed, TypeOK, Bound, Working
<1>3. /\ UNCHANGED <<entry, dict, hold, runs, new, joined, op, ok, stop, pause, outlived, drained>>
      /\ runs[t] \in busy' /\ (drained => t \in slipped')
  BY <1>1 DEF BeginFrame, Clean, Silent, memory
<1> QED BY <1>1, <1>2, <1>3, InnerStep

\* A frame ends: Clean is kept.
LEMMA EndFrameClean ==
    ASSUME Typed, Typed', Clean, ~Overlap', NEW t \in Threads, EndFrame(t)
    PROVE  Clean'
<1> USE Cast
<1>1. pc[t] = "frame" /\ pc[t] \in Bound /\ pc[t] \in Working
  BY DEF EndFrame, Bound, Working
<1>2. /\ pc'[t] \in {"leave", "check", "raised"} /\ pc'[t] \in Bound
      /\ \A y \in Actors : y # t => pc'[y] = pc[y]
  BY DEF EndFrame, Goto, Typed, TypeOK, Bound, Working
<1>3. UNCHANGED <<entry, dict, hold, runs, new, joined, op, ok, stop, pause, outlived, drained>>
  BY DEF EndFrame, memory, history
<1> QED BY <1>1, <1>2, <1>3, InnerStep

\* The target returns: Clean is kept.
LEMMA LeaveClean ==
    ASSUME Typed, Typed', Clean, ~Overlap', NEW t \in Threads, Leave(t)
    PROVE  Clean'
<1> USE Cast
<1>1. pc[t] = "leave" /\ pc[t] \in Bound
  BY DEF Leave, Bound
<1>2. entry \in Entries
  BY <1>1, BoundAlone
<1>3. /\ pc'[t] = "final" /\ pc'[t] \in Bound /\ pc'[t] \notin Working
      /\ \A y \in Actors : y # t => pc'[y] = pc[y]
  BY DEF Leave, Goto, Typed, TypeOK, Bound, Working
<1>4. UNCHANGED <<entry, hold, runs, new, joined, op, ok, stop, pause, outlived, drained, slipped>>
  BY DEF Leave, events, history
<1>5. /\ dict'[entry].thread = dict[entry].thread /\ dict'[entry].stop = dict[entry].stop
      /\ dict'[entry].pause = dict[entry].pause
  <2>1. dict' = dict \/ SetStatus("completed")
    BY DEF Leave
  <2> QED BY <1>2, <2>1, StatusTyped DEF Typed, TypeOK, Statuses
<1> QED BY <1>1, <1>3, <1>4, <1>5, InnerStep

\* The target has raised: Clean is kept.
LEMMA RaisedClean ==
    ASSUME Typed, Typed', Clean, ~Overlap', NEW t \in Threads, Raised(t)
    PROVE  Clean'
<1> USE Cast
<1>1. pc[t] = "raised" /\ pc[t] \in Bound
  BY DEF Raised, Bound
<1>2. entry \in Entries /\ entry # NoEntry /\ dict \in [Entries -> Fields] /\ dict[entry] \in Fields
  BY <1>1, BoundAlone DEF Typed, TypeOK
<1>3. /\ pc'[t] \in {"sleep", "final"} /\ pc'[t] \in Bound /\ pc'[t] \notin Working
      /\ \A y \in Actors : y # t => pc'[y] = pc[y]
  BY DEF Raised, Goto, Typed, TypeOK, Bound, Working
<1>4. UNCHANGED <<entry, hold, runs, new, joined, op, ok, stop, pause, outlived, drained, slipped>>
  BY DEF Raised, events, history
<1>5. /\ dict'[entry].thread = dict[entry].thread /\ dict'[entry].stop = dict[entry].stop
      /\ dict'[entry].pause = dict[entry].pause /\ dict'[entry].status = "error"
  <2> DEFINE failed == [dict EXCEPT ![entry].status = "error"]
  <2>1. failed \in [Entries -> Fields]
    BY <1>2 DEF Fields, Statuses
  <2>2. /\ failed[entry].thread = dict[entry].thread /\ failed[entry].stop = dict[entry].stop
        /\ failed[entry].pause = dict[entry].pause /\ failed[entry].status = "error"
    BY <1>2 DEF Fields
  <2>3. dict' = failed \/ dict' = [failed EXCEPT ![hold[t]].count = @ + 1]
    BY <1>2 DEF Raised
  <2> HIDE DEF failed
  <2>4. CASE dict' = failed
    BY <2>2, <2>4
  <2>5. CASE dict' = [failed EXCEPT ![hold[t]].count = @ + 1]
    <3>1. CASE hold[t] = entry
      BY <1>2, <2>1, <2>2, <2>5, <3>1 DEF Fields
    <3>2. CASE hold[t] # entry
      BY <1>2, <2>1, <2>2, <2>5, <3>2
    <3> QED BY <3>1, <3>2
  <2> QED BY <2>3, <2>4, <2>5
<1> QED BY <1>1, <1>3, <1>4, <1>5, InnerStep

\* The restart fetches the entry by name: Clean is kept.
LEMMA WakeClean ==
    ASSUME Typed, Typed', Clean, ~Overlap', NEW t \in Threads, Wake(t)
    PROVE  Clean'
<1> USE Cast
<1>1. pc[t] = "sleep" /\ pc[t] \in Bound
  BY DEF Wake, Bound
<1>2. Registered
  BY <1>1 DEF Clean, Known
<1>3. /\ pc'[t] = "assign" /\ pc'[t] \in Bound /\ pc'[t] \notin Working /\ hold'[t] = entry
      /\ \A y \in Actors : y # t => pc'[y] = pc[y] /\ hold'[y] = hold[y]
  BY <1>2 DEF Wake, Goto, Keep, Typed, TypeOK, Registered, Bound, Working
<1>4. UNCHANGED <<entry, dict, runs, new, joined, op, ok, stop, pause, outlived, drained, slipped>>
  BY DEF Wake, memory, events, history
<1>5. dict'[entry].status # "running"
  BY <1>1, <1>4 DEF Clean, Unmarked
<1> QED BY <1>1, <1>3, <1>4, <1>5, InnerStep

\* The wrapper writes the last status: Clean is kept.
LEMMA FinalClean ==
    ASSUME Typed, Typed', Clean, ~Overlap', NEW t \in Threads, Final(t)
    PROVE  Clean'
<1> USE Cast
<1>1. pc[t] = "final" /\ pc[t] \in Bound
  BY DEF Final, Bound
<1>2. /\ entry \in Entries /\ Registered
      /\ \A x \in Actors : x # t => pc[x] \notin Install \union {"sleep", "raised"}
      /\ \A u \in Threads : u # t => pc[u] \notin Bound
  BY <1>1, BoundAlone
<1>3. /\ pc'[t] = "dying" /\ pc'[t] \notin Bound /\ pc'[t] \notin Install
      /\ \A y \in Actors : y # t => pc'[y] = pc[y]
      /\ pc'[Main] = pc[Main] /\ pc'[Commands] = pc[Commands]
  BY DEF Final, Goto, Typed, TypeOK, Bound, Working, Install
<1>4. UNCHANGED <<entry, hold, runs, new, joined, op, ok, stop, pause, busy, outlived, drained,
                  slipped>>
  BY DEF Final, events, history
<1>5. /\ dict'[entry].thread = dict[entry].thread /\ dict'[entry].stop = dict[entry].stop
      /\ dict'[entry].pause = dict[entry].pause /\ dict'[entry].status # "running"
  <2>1. \/ SetStatus("stopped")
        \/ dict' = dict /\ dict[entry].status \in {"error", "completed"}
    BY <1>2 DEF Final, Registered
  <2> QED BY <1>2, <2>1, StatusTyped DEF Typed, TypeOK, Statuses
<1>6. /\ \A u \in Threads : pc'[u] \notin Bound
      /\ \A x \in Actors : pc'[x] \notin Install \union {"sleep"}
  BY <1>2, <1>3 DEF Bound, Install
<1>7. Known' /\ Alone' /\ Fresh' /\ Unmarked' /\ Over' /\ Paused' /\ Marked' /\ Silent'
  BY <1>6 DEF Known, Alone, Fresh, Unmarked, Over, Paused, Marked, Silent, Bound, Working,
              Install, Installing
<1>8. Fetched'
  BY <1>2, <1>3, <1>4 DEF Clean, Fetched, Grasping, Registered
<1>9. Aligned'
  BY <1>1, <1>4, <1>5 DEF Clean, Known, Aligned
<1>10. Running' /\ AtRest'
  BY <1>4, <1>5, <1>6 DEF Running, AtRest, Bound, Install
<1>11. Joining' /\ NotTold'
  BY <1>1, <1>3, <1>4, <1>5 DEF Clean, Joining, NotTold, IsAlive
<1> QED BY <1>7, <1>8, <1>9, <1>10, <1>11 DEF Clean

\* The thread ends: Clean is kept.
LEMMA DieClean ==
    ASSUME Typed, Typed', Clean, ~Overlap', NEW t \in Threads, Die(t)
    PROVE  Clean'
<1> USE Cast
<1>1. pc[t] = "dying" /\ pc[t] \notin Bound /\ pc[t] \notin Install
  BY DEF Die, Bound, Working, Install
<1>2. /\ pc'[t] = "dead" /\ pc'[t] \notin Bound /\ pc'[t] \notin Install
      /\ \A y \in Actors : y # t => pc'[y] = pc[y] /\ hold'[y] = hold[y]
      /\ \A u \in Threads : u # t => runs'[u] = runs[u]
      /\ pc'[Main] = pc[Main] /\ pc'[Commands] = pc[Commands]
  BY DEF Die, Goto, Keep, Typed, TypeOK, Bound, Working, Install
<1>3. /\ UNCHANGED <<entry, dict, new, joined, op, ok, busy, drained, slipped>>
      /\ stop' = stop \ {t} /\ pause' = pause \ {t} /\ outlived' = outlived \ {t}
  BY DEF Die, memory, history
<1>4. Known' /\ Alone' /\ Running' /\ Unmarked' /\ AtRest' /\ Over' /\ Paused' /\ Marked' /\ Silent'
  BY <1>1, <1>2, <1>3 DEF Clean, Known, Alone, Running, Unmarked, AtRest, Over, Paused, Marked,
                          Silent, Registered, Bound, Working, Install
<1>5. Fetched'
  BY <1>1, <1>2, <1>3 DEF Clean, Fetched, Grasping, Registered, Install
<1>6. Fresh'
  BY <1>1, <1>2, <1>3 DEF Clean, Fresh, Installing
<1>7. Aligned'
  BY <1>1, <1>2, <1>3 DEF Clean, Aligned, Registered
<1>8. Joining' /\ NotTold'
  BY <1>1, <1>2, <1>3 DEF Clean, Joining, NotTold, IsAlive
<1> QED BY <1>4, <1>5, <1>6, <1>7, <1>8 DEF Clean

\* A new thread takes the place of the old one: Clean is kept.
LEMMA AssignClean ==
    ASSUME Typed, Typed', Clean, ~Overlap', NEW x \in Actors, Assign(x)
    PROVE  Clean'
<1> USE Cast
<1>1. pc[x] = "assign" /\ pc[x] \in Install
  BY DEF Assign, Install
<1>2. /\ x # Main /\ (x \in Threads \/ x = Commands)
      /\ Registered /\ entry \in Entries /\ hold[x] = entry
      /\ \A y \in Actors : y # x => pc[y] \notin Install \union {"sleep", "raised"}
      /\ x \in Threads => pc[Commands] = "idle" /\ pc[Main] \in {"idle", "reply"}
  BY <1>1, Installer
<1>3. PICK u \in Threads :
          /\ u # x /\ ~IsAlive(u)
          /\ new' = [new EXCEPT ![x] = u] /\ runs' = [runs EXCEPT ![u] = hold[x]]
          /\ pc' = [pc EXCEPT ![u] = "new", ![x] = "events"]
          /\ stop' = stop \ {u} /\ pause' = pause \ {u}
          /\ dict' = [dict EXCEPT ![hold[x]].thread = u]
  <2>1. \E u \in Threads : u # x /\ Unused(u)
    BY DEF Assign
  <2> DEFINE u == CHOOSE v \in Threads : v # x /\ Unused(v)
  <2>2. u \in Threads /\ u # x /\ Unused(u)
    BY <2>1
  <2> QED BY <2>2 DEF Assign, Unused
<1>4. /\ pc'[u] = "new" /\ pc'[x] = "events"
      /\ \A y \in Actors : y # u /\ y # x => pc'[y] = pc[y]
      /\ new'[x] = u /\ runs'[u] = entry
      /\ pc'[Main] = pc[Main]
  BY <1>2, <1>3 DEF Typed, TypeOK
<1>5. /\ dict'[entry].thread = u /\ dict'[entry].status = dict[entry].status
  BY <1>2, <1>3 DEF Typed, TypeOK, Fields
<1>6. UNCHANGED <<entry, hold, joined, op, ok, busy, slipped, outlived>> /\ drained' = FALSE
  BY DEF Assign
<1>7. \A t \in Threads : pc'[t] \notin Bound /\ (t # x => pc'[t] \notin Install)
  <2>1. \A t \in Threads : t # x => pc[t] \notin Bound \union Install
    BY <1>1 DEF Clean, Alone
  <2> QED BY <1>4, <2>1 DEF Bound, Working, Install
<1>8. \A y \in Actors : y # x => pc'[y] \notin Install \union {"sleep", "raised"}
  BY <1>2, <1>4 DEF Install
<1>9. Known' /\ Alone' /\ Over' /\ Paused' /\ Marked' /\ Silent'
  BY <1>7, <1>8 DEF Known, Alone, Over, Paused, Marked, Silent, Bound, Working, Install
<1>10. Fetched'
  BY <1>2, <1>4, <1>6 DEF Clean, Fetched, Grasping, Registered, Install
<1>11. Fresh'
  BY <1>3, <1>4, <1>5, <1>6, <1>8 DEF Fresh, Installing
<1>12. Aligned'
  BY <1>4 DEF Aligned
<1>13. Running' /\ Unmarked' /\ AtRest'
  <2>1. dict'[entry].status # "running"
    BY <1>1, <1>5 DEF Clean, Unmarked
  <2>2. \A y \in Actors : pc'[y] # "launch"
    BY <1>4, <1>8 DEF Install
  <2> QED BY <1>6, <1>7, <2>1, <2>2 DEF Running, Unmarked, AtRest, Bound
<1>14. Joining'
  <2>1. pc'[Commands] # "join"
    BY <1>1, <1>2, <1>4
  <2> QED BY <2>1 DEF Joining
<1>15. NotTold'
  <2>1. \A t \in Threads : IsAlive(t)' => t # u /\ IsAlive(t)
    BY <1>1, <1>4 DEF IsAlive
  <2>2. pc[Commands] \notin {"take", "join"}
    BY <1>1, <1>2
  <2> QED BY <1>3, <1>4, <1>6, <2>1, <2>2 DEF Clean, NotTold
<1> QED BY <1>9, <1>10, <1>11, <1>12, <1>13, <1>14, <1>15 DEF Clean

\* A step within an install.
LEMMA InstallStep ==
    ASSUME Typed, Typed', Clean, ~Overlap', NEW x \in Actors,
           pc[x] \in {"events", "clear", "mark"}, pc'[x] \in {"clear", "mark", "launch"},
           \A y \in Actors : y # x => pc'[y] = pc[y],
           UNCHANGED <<entry, hold, runs, new, joined, op, ok, busy, outlived, drained, slipped>>,
           stop' \subseteq stop,
           dict'[entry].thread = dict[entry].thread,
           dict'[entry].stop = dict[entry].thread, dict'[entry].pause = dict[entry].thread,
           dict'[entry].status = "running" <=> pc'[x] = "launch"
    PROVE  Clean'
<1> USE Cast
<1>1. pc[x] \in Install /\ pc[x] \in Installing /\ pc'[x] \in Install /\ pc'[x] \in Installing
  BY DEF Install, Installing
<1>2. /\ x # Main /\ (x \in Threads \/ x = Commands)
      /\ Registered /\ entry \in Entries /\ hold[x] = entry
      /\ \A y \in Actors : y # x => pc[y] \notin Install \union {"sleep", "raised"}
  BY <1>1, Installer
<1>3. \A t \in Threads : pc'[t] \notin Bound /\ (t # x => pc'[t] \notin Install)
  <2>1. \A t \in Threads : t # x => pc[t] \notin Bound \union Install
    BY <1>1 DEF Clean, Alone
  <2> QED BY <2>1 DEF Bound, Working, Install
<1>4. \A y \in Actors : y # x => pc'[y] \notin Install \union {"sleep", "raised"}
  BY <1>2
<1>5. Known' /\ Alone' /\ Over' /\ Paused' /\ Marked' /\ Silent'
  BY <1>3, <1>4 DEF Known, Alone, Over, Paused, Marked, Silent, Bound, Working, Install
<1>6. Fetched'
  BY <1>2 DEF Clean, Fetched, Grasping, Registered, Install
<1>7. Fresh'
  <2>1. /\ new[x] \in Threads /\ new[x] # x /\ dict[entry].thread = new[x]
        /\ pc[new[x]] = "new" /\ runs[new[x]] = entry /\ ~drained
        /\ pc[Main] = "idle" => new[x] \notin stop
    BY <1>1 DEF Clean, Fresh
  <2>2. pc'[new[x]] = "new"
    BY <2>1
  <2> QED BY <1>2, <1>4, <2>1, <2>2 DEF Fresh, Installing
<1>8. Aligned'
  BY DEF Aligned
<1>9. Running' /\ Unmarked' /\ AtRest'
  <2>1. dict[entry].status # "running"
    BY DEF Clean, Unmarked
  <2>2. \A y \in Actors : y # x => pc'[y] # "launch"
    BY <1>4 DEF Install
  <2>3. \A t \in Threads : pc'[t] \notin Working
    BY <1>3 DEF Bound
  <2>4. Running'
    BY DEF Running
  <2>5. Unmarked'
    BY <1>4 DEF Unmarked, Install
  <2>6. AtRest'
    BY <2>2, <2>3 DEF AtRest
  <2> QED BY <2>4, <2>5, <2>6
<1>10. Joining'
  BY <1>1, <1>2 DEF Clean, Joining, Install
<1>11. NotTold'
  <2>1. \A t \in Threads : IsAlive(t)' => IsAlive(t)
    BY DEF IsAlive
  <2> QED BY <1>2, <2>1 DEF Clean, NotTold
<1> QED BY <1>5, <1>6, <1>7, <1>8, <1>9, <1>10, <1>11 DEF Clean

\* The new thread gets events of its own: Clean is kept.
LEMMA EventsClean ==
    ASSUME Typed, Typed', Clean, ~Overlap', NEW x \in Actors, Events(x)
    PROVE  Clean'
<1> USE Cast
<1>1. pc[x] = "events" /\ pc[x] \in Install /\ pc[x] \in Installing
  BY DEF Events, Install, Installing
<1>2. Registered /\ entry \in Entries /\ hold[x] = entry
  BY <1>1, Installer
<1>3. new[x] = dict[entry].thread
  BY <1>1 DEF Clean, Fresh
<1>4. /\ dict'[entry].thread = dict[entry].thread /\ dict'[entry].stop = dict[entry].thread
      /\ dict'[entry].pause = dict[entry].thread /\ dict'[entry].status = dict[entry].status
  BY <1>2, <1>3 DEF Events, Typed, TypeOK, Fields
<1>5. pc'[x] = "clear" /\ \A y \in Actors : y # x => pc'[y] = pc[y]
  BY DEF Events, Goto, Typed, TypeOK
<1>6. UNCHANGED <<entry, hold, runs, new, joined, op, ok, stop, busy, outlived, drained, slipped>>
  BY DEF Events, events, history
<1>7. dict[entry].status # "running"
  BY <1>1 DEF Clean, Unmarked
<1> QED BY <1>1, <1>4, <1>5, <1>6, <1>7, InstallStep

\* The fresh events are cleared: Clean is kept.
LEMMA ClearClean ==
    ASSUME Typed, Typed', Clean, ~Overlap', NEW x \in Actors, Clear(x)
    PROVE  Clean'
<1> USE Cast
<1>1. pc[x] = "clear" /\ pc[x] \in Install
  BY DEF Clear, Install
<1>2. /\ Registered /\ entry \in Entries /\ hold[x] = entry
      /\ \A y \in Actors : pc[y] # "events"
  BY <1>1, Installer DEF Install
<1>3. dict[entry].stop = dict[entry].thread /\ dict[entry].pause = dict[entry].thread
  BY <1>2 DEF Clean, Aligned
<1>4. pc'[x] = "mark" /\ \A y \in Actors : y # x => pc'[y] = pc[y]
  BY DEF Clear, Goto, Typed, TypeOK
<1>5. /\ UNCHANGED <<entry, dict, hold, runs, new, joined, op, ok, busy, outlived, drained, slipped>>
      /\ stop' \subseteq stop
  BY DEF Clear, memory, history
<1>6. dict[entry].status # "running"
  BY <1>1 DEF Clean, Unmarked
<1> QED BY <1>1, <1>3, <1>4, <1>5, <1>6, InstallStep

\* The worker is marked RUNNING: Clean is kept.
LEMMA MarkClean ==
    ASSUME Typed, Typed', Clean, ~Overlap', NEW x \in Actors, Mark(x)
    PROVE  Clean'
<1> USE Cast
<1>1. pc[x] = "mark" /\ pc[x] \in Install
  BY DEF Mark, Install
<1>2. /\ Registered /\ entry \in Entries /\ hold[x] = entry
      /\ \A y \in Actors : pc[y] # "events"
  BY <1>1, Installer DEF Install
<1>3. dict[entry].stop = dict[entry].thread /\ dict[entry].pause = dict[entry].thread
  BY <1>2 DEF Clean, Aligned
<1>4. pc'[x] = "launch" /\ \A y \in Actors : y # x => pc'[y] = pc[y]
  BY DEF Mark, Goto, Typed, TypeOK
<1>5. UNCHANGED <<entry, hold, runs, new, joined, op, ok, stop, busy, outlived, drained, slipped>>
  BY DEF Mark, events, history
<1>6. /\ dict'[entry].thread = dict[entry].thread /\ dict'[entry].stop = dict[entry].stop
      /\ dict'[entry].pause = dict[entry].pause /\ dict'[entry].status = "running"
  BY <1>2, StatusTyped DEF Mark, Typed, TypeOK, Statuses
<1> QED BY <1>1, <1>3, <1>4, <1>5, <1>6, InstallStep

\* The new thread is started: Clean is kept.
LEMMA LaunchClean ==
    ASSUME Typed, Typed', Clean, ~Overlap', NEW x \in Actors, Launch(x)
    PROVE  Clean'
<1> USE Cast
<1>1. pc[x] = "launch" /\ pc[x] \in Install /\ pc[x] \in Installing
  BY DEF Launch, Install, Installing
<1>2. /\ x # Main /\ (x \in Threads \/ x = Commands)
      /\ Registered /\ entry \in Entries /\ hold[x] = entry
      /\ \A y \in Actors : y # x => pc[y] \notin Install \union {"sleep", "raised"}
  BY <1>1, Installer
<1>3. PICK u \in Threads :
          /\ u = new[x] /\ u # x /\ dict[entry].thread = u /\ pc[u] = "new"
          /\ runs[u] = entry /\ ~drained /\ (pc[Main] = "idle" => u \notin stop)
  BY <1>1 DEF Clean, Fresh
<1>4. /\ pc'[u] = "started" /\ pc'[x] = (IF x \in Threads THEN "dying" ELSE "reply")
      /\ \A y \in Actors : y # u /\ y # x => pc'[y] = pc[y]
      /\ pc'[Main] = pc[Main]
      /\ x # Commands => pc'[Commands] = pc[Commands]
  BY <1>2, <1>3 DEF Launch
<1>5. UNCHANGED <<entry, dict, hold, runs, joined, op, stop, pause, busy, outlived, drained, slipped>>
  BY DEF Launch, memory, events, history
<1>6. dict[entry].stop = u /\ dict[entry].pause = u
  <2>1. \A y \in Actors : pc[y] # "events"
    BY <1>1, <1>2 DEF Install
  <2> QED BY <1>2, <1>3, <2>1 DEF Clean, Aligned
<1>7. \A t \in Threads : t # u => pc'[t] \notin Bound \union Install
  <2>1. \A t \in Threads : t # x => pc[t] \notin Bound \union Install
    BY <1>1 DEF Clean, Alone
  <2> QED BY <1>4, <2>1 DEF Bound, Working, Install
<1>8. \A y \in Actors : pc'[y] \notin Install \union {"sleep", "raised"}
  BY <1>2, <1>3, <1>4 DEF Install
<1>9. Known'
  BY <1>2, <1>3, <1>5, <1>6, <1>7 DEF Known, Registered
<1>10. Fetched'
  BY <1>2, <1>3, <1>4, <1>5 DEF Clean, Fetched, Grasping, Registered, Install
<1>11. Alone' /\ Fresh' /\ Unmarked'
  BY <1>4, <1>8 DEF Alone, Fresh, Unmarked, Install, Installing
<1>12. Aligned'
  BY <1>3, <1>5, <1>6 DEF Aligned
<1>13. Running'
  BY <1>4 DEF Running, Bound, Working
<1>14. AtRest'
  <2>1. pc[Main] = "idle" => dict[entry].status # "stopped"
    BY <1>1, <1>2 DEF Clean, AtRest
  <2> QED BY <1>4, <1>5, <2>1 DEF AtRest
<1>15. Joining'
  BY <1>4, <1>5 DEF Clean, Joining
<1>16. NotTold'
  <2>1. \A t \in Threads : IsAlive(t)' => t = u \/ IsAlive(t)
    BY <1>1, <1>4 DEF IsAlive
  <2>2. x = Commands => pc[Commands] \notin {"take", "join"}
    BY <1>1
  <2> QED BY <1>3, <1>4, <1>5, <2>1, <2>2 DEF Clean, NotTold
<1>17. Over'
  <2>1. CASE x = Commands
    <3>1. op[Commands] \in {"create", "start", "restart", "update"}
      BY <1>1, <2>1 DEF Typed, Labelled, Scripted, Stopping, Install
    <3> QED BY <1>4, <1>5, <2>1, <3>1 DEF Over
  <2>2. CASE x # Commands
    <3>1. pc[Commands] = "idle"
      BY <1>1, <1>2, <2>2, Installer
    <3> QED BY <1>4, <2>2, <3>1 DEF Over
  <2> QED BY <2>1, <2>2
<1>18. Paused' /\ Marked' /\ Silent'
  <2>1. pc'[Commands] # "await"
    <3>1. CASE x = Commands
      BY <1>4, <3>1
    <3>2. CASE x # Commands
      BY <1>1, <1>2, <1>4, <3>2, Installer
    <3> QED BY <3>1, <3>2
  <2>2. \A t \in Threads : pc'[t] \notin {"frame", "admitted"}
    BY <1>4, <1>7 DEF Bound, Working
  <2> QED BY <1>3, <1>5, <2>1, <2>2 DEF Paused, Marked, Silent
<1> QED BY <1>9, <1>10, <1>11, <1>12, <1>13, <1>14, <1>15, <1>16, <1>17, <1>18 DEF Clean

\* While the message processor is at a command nobody restarts, and only the
\* message processor installs.
LEMMA NoInstaller ==
    ASSUME Typed, Clean, pc[Commands] # "idle", pc[Commands] \notin Install
    PROVE  \A x \in Actors : pc[x] \notin Install \union {"sleep", "raised"}
<1> USE Cast
<1>1. \A t \in Threads : pc[t] \notin Install \union {"sleep", "raised"}
  BY Quiet DEF Clean, Waiting, Install
<1>2. \A c \in Controllers : pc[c] \notin {"sleep", "raised"}
  BY DEF Typed, Labelled, Scripted, Stopping, Install
<1>3. pc[Main] \notin Install
  BY MainStops DEF Stopping, Install
<1> QED BY <1>1, <1>2, <1>3

\* A step of a command that leaves the threads where they are.
LEMMA CommandStep ==
    ASSUME Typed, Typed', Clean, ~Overlap', NEW c \in Controllers,
           pc[c] \notin Install, pc'[c] \notin Installing,
           pc[c] # "idle" \/ pc'[c] # "idle",
           c = Main => pc'[c] # "idle" /\ drained' = drained,
           \A y \in Actors : y # c => pc'[y] = pc[y] /\ hold'[y] = hold[y],
           pc'[c] \in Grasping => c = Main \/ (Registered /\ hold'[c] = entry),
           pc'[c] = "assign" => /\ dict[entry].status # "running"
                                /\ \A t \in Threads : pc[t] \notin Bound,
           UNCHANGED <<entry, runs, new, busy, slipped>>,
           dict'[entry].thread = dict[entry].thread,
           dict'[entry].stop = dict[entry].stop, dict'[entry].pause = dict[entry].pause,
           \/ dict'[entry].status \in {dict[entry].status, "stopping"}
           \/ /\ dict'[entry].status = "stopped"
              /\ c = Main \/ \A t \in Threads : pc[t] \notin Bound,
           Joining', NotTold', Over', Paused', Silent'
    PROVE  Clean'
<1> USE Cast
<1>1. \A t \in Threads : pc'[t] = pc[t]
  OBVIOUS
<1>2. c # Main => pc'[Main] = pc[Main]
  OBVIOUS
<1>3. c = Commands => \A y \in Actors : y # c => pc[y] \notin Install \union {"sleep", "raised"}
  <2>1. CASE pc[c] # "idle"
    BY <2>1, NoInstaller
  <2>2. CASE pc'[c] # "idle" /\ c = Commands
    <3>1. \A t \in Threads : pc'[t] \notin Install \union {"sleep", "raised"}
      BY <2>2 DEF Overlap, Restarting, Waiting
    <3>2. pc[Main] \notin Install \union {"sleep", "raised"}
      BY MainStops DEF Stopping, Install
    <3> QED BY <1>1, <3>1, <3>2
  <2> QED BY <2>1, <2>2
<1>4. pc'[c] \in Install => pc'[c] = "assign"
  BY DEF Installing
<1>5. c = Main => pc'[c] \notin Install \union {"sleep"}
  <2>1. c = Main => pc'[c] \in {"idle", "reply"} \union Stopping
    <3>1. Scripted(Main)' /\ op'[Main] = "stop_all"
      BY DEF Typed, Labelled
    <3> QED BY <3>1 DEF Scripted
  <2> QED BY <2>1 DEF Stopping, Install
<1>6. Known'
  BY <1>1 DEF Clean, Known, Registered
<1>7. Fetched'
  BY DEF Clean, Fetched, Registered
<1>8. Alone'
  <2>1. ASSUME NEW x \in Actors, pc'[x] \in Install, NEW t \in Threads, t # x
        PROVE  pc'[t] \notin Bound \union Install
    <3>1. CASE x = c
      <4>1. pc'[c] = "assign" /\ c = Commands
        BY <1>4, <1>5, <2>1, <3>1
      <4> QED BY <1>1, <1>3, <4>1
    <3>2. CASE x # c
      BY <1>1, <2>1, <3>2 DEF Clean, Alone
    <3> QED BY <3>1, <3>2
  <2> QED BY <2>1 DEF Alone
<1>9. Fresh'
  <2>1. ASSUME NEW x \in Actors, pc'[x] \in Installing
        PROVE  /\ new'[x] \in Threads /\ new'[x] # x
               /\ dict'[entry'].thread = new'[x] /\ pc'[new'[x]] = "new"
               /\ runs'[new'[x]] = entry' /\ ~drained'
               /\ pc'[Main] = "idle" => new'[x] \notin stop'
    <3>1. x # c /\ pc[x] \in Installing
      BY <2>1
    <3>2. c = Main
      BY <1>3, <3>1 DEF Installing
    <3>3. /\ new[x] \in Threads /\ new[x] # x
          /\ dict[entry].thread = new[x] /\ pc[new[x]] = "new"
          /\ runs[new[x]] = entry /\ ~drained
      BY <3>1 DEF Clean, Fresh
    <3> QED BY <1>1, <3>2, <3>3
  <2> QED BY <2>1 DEF Fresh
<1>10. Aligned'
  <2>1. pc[c] # "events"
    BY DEF Install
  <2> QED BY <2>1 DEF Clean, Aligned, Registered
<1>11. Running'
  <2>1. pc[c] # "launch"
    BY DEF Install
  <2> QED BY <1>1, <2>1 DEF Clean, Running, Registered
<1>12. Unmarked'
  <2>1. ASSUME NEW x \in Actors, pc'[x] \in {"sleep", "assign", "events", "clear", "mark"}
        PROVE  dict'[entry].status # "running"
    <3>1. CASE x # c
      <4>1. dict[entry].status # "running"
        BY <2>1, <3>1 DEF Clean, Unmarked
      <4> QED BY <4>1
    <3>2. CASE x = c
      <4>1. pc'[c] # "sleep"
        BY DEF Typed, Labelled, Scripted, Stopping, Install
      <4>2. dict[entry].status # "running"
        BY <2>1, <3>2, <4>1 DEF Installing, Install
      <4> QED BY <4>2
    <3> QED BY <3>1, <3>2
  <2> QED BY <2>1 DEF Unmarked
<1>13. AtRest'
  <2>1. CASE c = Main
    BY <2>1 DEF AtRest
  <2>2. CASE c # Main
    <3>1. \A x \in Actors : pc'[x] # "launch"
      BY <1>3, <2>2 DEF Installing, Install
    <3>2. ASSUME pc[Main] = "idle", Registered, dict'[entry].status = "stopped"
          PROVE  \A t \in Threads : pc[t] \notin Working
      BY <2>2, <3>2 DEF Clean, AtRest, Bound
    <3> QED BY <1>1, <1>2, <2>2, <3>1, <3>2 DEF AtRest, Registered
  <2> QED BY <2>1, <2>2
<1>14. Marked'
  BY <1>1 DEF Clean, Marked
<1> QED BY <1>6, <1>7, <1>8, <1>9, <1>10, <1>11, <1>12, <1>13, <1>14 DEF Clean

\* A step of the message processor that neither stops, joins nor drains.
LEMMA OtherStep ==
    ASSUME Typed, Typed', Clean, ~Overlap', NEW c \in Controllers,
           pc[c] \notin Install, pc'[c] \notin Installing \union {"join", "await"},
           pc[c] # "idle" \/ pc'[c] # "idle", pc[c] \notin {"take", "join"},
           c = Main => pc'[c] # "idle",
           \A y \in Actors : y # c => pc'[y] = pc[y] /\ hold'[y] = hold[y],
           pc'[c] \in Grasping => c = Main \/ (Registered /\ hold'[c] = entry),
           pc'[c] = "assign" => /\ dict[entry].status # "running"
                                /\ \A t \in Threads : pc[t] \notin Bound,
           UNCHANGED <<entry, runs, new, joined, stop, busy, slipped, outlived>>,
           c = Main => UNCHANGED <<drained, pause>>,
           \A d \in Controllers : d # c => op'[d] = op[d] /\ ok'[d] = ok[d],
           drained' => drained /\ pause \subseteq pause',
           dict'[entry].thread = dict[entry].thread,
           dict'[entry].stop = dict[entry].stop, dict'[entry].pause = dict[entry].pause,
           dict'[entry].status \in {dict[entry].status, "stopping"},
           Over'
    PROVE  Clean'
<1> USE Cast
<1>1. \A t \in Threads : pc'[t] = pc[t]
  OBVIOUS
<1>2. Joining'
  BY DEF Clean, Joining
<1>3. NotTold'
  <2>1. CASE c = Main
    BY <2>1 DEF NotTold
  <2>2. CASE c = Commands
    BY <1>1, <2>2 DEF Clean, NotTold, IsAlive
  <2> QED BY <2>1, <2>2
<1>4. Paused' /\ Silent'
  <2>1. pc'[Commands] = "await" => pc[Commands] = "await" /\ c = Main
    OBVIOUS
  <2> QED BY <1>1, <2>1 DEF Clean, Paused, Silent
<1> QED BY <1>2, <1>3, <1>4, CommandStep

\* A command begins: Clean is kept.
LEMMA BeginClean ==
    ASSUME Typed, Typed', Clean, ~Overlap', NEW c \in Controllers, NEW cmd \in Ops, Begin(c, cmd)
    PROVE  Clean'
<1> USE Cast
<1>1. /\ pc[c] = "idle" /\ pc[c] \notin Install
      /\ pc' = [pc EXCEPT ![c] = Head(Plan(cmd))] /\ todo' = [todo EXCEPT ![c] = Tail(Plan(cmd))]
      /\ op' = [op EXCEPT ![c] = cmd] /\ ok' = [ok EXCEPT ![c] = TRUE]
      /\ UNCHANGED <<entry, dict, hold, runs, new, joined, stop, pause, busy, slipped, outlived,
                     drained>>
  BY DEF Begin, Goto, Install, memory, events, history
<1>2. pc'[c] = Head(Plan(cmd)) /\ todo'[c] = Tail(Plan(cmd)) /\ op'[c] = cmd
  BY <1>1 DEF Typed, TypeOK
<1>3. /\ pc'[c] \in Stages /\ pc'[c] \notin Grasping /\ pc'[c] # "unregister"
      /\ \A y \in Actors : y # c => pc'[y] = pc[y]
      /\ \A d \in Controllers : d # c => op'[d] = op[d] /\ ok'[d] = ok[d]
  <2>1. Head(Plan(cmd)) \in Stages /\ Head(Plan(cmd)) \notin Grasping
        /\ Head(Plan(cmd)) # "unregister"
    BY <1>2, PlanScripted
  <2>2. /\ pc \in [Actors -> Labels] /\ op \in [Controllers -> Ops]
        /\ ok \in [Controllers -> BOOLEAN]
    BY DEF Typed, TypeOK, Labels
  <2> QED BY <1>1, <1>2, <2>1, <2>2
<1>4. pc'[c] \notin {"idle", "reply", "unregister"}
  BY <1>3 DEF Stages
<1>5. Over'
  BY <1>1, <1>3, <1>4 DEF Clean, Over
<1>6. pc'[c] \notin Installing \union {"join", "await", "assign"}
  BY <1>3 DEF Grasping, Install, Installing
<1> QED BY <1>1, <1>3, <1>4, <1>5, <1>6, OtherStep

\* start_worker: Clean is kept.
LEMMA StartClean ==
    ASSUME Typed, Typed', Clean, ~Overlap', NEW c \in Controllers, Start(c)
    PROVE  Clean'
<1> USE Cast
<1>1. /\ pc[c] = "start" /\ pc[c] \notin Install /\ c = Commands
      /\ op[c] \in {"create", "start", "restart", "update"}
  <2>1. pc[c] = "start" /\ Scripted(c)
    BY DEF Start, Typed, Labelled
  <2> QED BY <2>1, MainStops DEF Install, Scripted, Stopping
<1>2. UNCHANGED <<entry, dict, runs, new, joined, op, stop, pause, busy, slipped, outlived, drained>>
  BY DEF Start, memory, events, history
<1>3. CASE Fail(c) /\ hold' = hold
  <2>1. /\ pc'[c] \in {"reply", "create", "stop"} /\ pc'[c] \notin Grasping
        /\ \A y \in Actors : y # c => pc'[y] = pc[y]
    BY <1>1, <1>2, <1>3, FailTyped
  <2>2. \A d \in Controllers : d # c => ok'[d] = ok[d]
    BY <1>3 DEF Fail, Typed, TypeOK
  <2>3. Over'
    BY <1>1, <1>2, <2>1 DEF Over
  <2> QED BY <1>1, <1>2, <1>3, <2>1, <2>2, <2>3, OtherStep DEF Installing, Install
<1>4. CASE Pass(c) /\ UNCHANGED <<ok, hold>>
  <2>1. /\ pc'[c] = "reply" /\ pc'[c] \notin Grasping
        /\ \A y \in Actors : y # c => pc'[y] = pc[y]
    BY <1>1, <1>2, <1>4, PassTyped
  <2>2. Over'
    BY <1>1, <1>2, <2>1 DEF Over
  <2> QED BY <1>1, <1>2, <1>4, <2>1, <2>2, OtherStep DEF Installing, Install
<1>5. CASE /\ Registered /\ dict[entry].status # "running" /\ ~IsAlive(dict[entry].thread)
           /\ Keep(c, entry) /\ Goto(c, "assign") /\ UNCHANGED <<todo, ok>>
  <2>1. /\ pc'[c] = "assign" /\ hold'[c] = entry
        /\ \A y \in Actors : y # c => pc'[y] = pc[y] /\ hold'[y] = hold[y]
    BY <1>5 DEF Goto, Keep, Typed, TypeOK
  <2>2. \A t \in Threads : pc[t] \notin Bound
    BY <1>5 DEF Clean, Known, IsAlive, Bound, Working
  <2>3. Over'
    BY <2>1, <1>1 DEF Over
  <2> QED BY <1>1, <1>2, <1>5, <2>1, <2>2, <2>3, OtherStep DEF Installing
<1> QED BY <1>3, <1>4, <1>5 DEF Start

\* restart_worker: Clean is kept.
LEMMA RestartClean ==
    ASSUME Typed, Typed', Clean, ~Overlap', NEW c \in Controllers, Restart(c)
    PROVE  Clean'
<1> USE Cast
<1>1. /\ pc[c] = "restart" /\ pc[c] \notin Install /\ c = Commands /\ op[c] = "restart"
  <2>1. pc[c] = "restart" /\ Scripted(c)
    BY DEF Restart, Typed, Labelled
  <2> QED BY <2>1, MainStops DEF Install, Scripted, Stopping
<1>2. UNCHANGED <<entry, dict, hold, runs, new, joined, op, stop, pause, busy, slipped, outlived,
                  drained>>
  BY DEF Restart, memory, events, history
<1>3. /\ pc'[c] \in {"reply", "create", "stop", "start"}
      /\ \A y \in Actors : y # c => pc'[y] = pc[y]
      /\ \A d \in Controllers : d # c => ok'[d] = ok[d]
  BY <1>1, <1>2 DEF Restart, Fail, Goto, Typed, TypeOK
<1>4. Over'
  BY <1>1, <1>2, <1>3 DEF Over
<1> QED BY <1>1, <1>2, <1>3, <1>4, OtherStep DEF Installing, Install, Grasping

\* stop_worker marks the worker STOPPING: Clean is kept.
LEMMA StopClean ==
    ASSUME Typed, Typed', Clean, ~Overlap', NEW c \in Controllers, Stop(c)
    PROVE  Clean'
<1> USE Cast
<1>1. pc[c] = "stop" /\ pc[c] \notin Install
  BY DEF Stop, Install
<1>2. UNCHANGED <<entry, runs, new, joined, op, stop, pause, busy, slipped, outlived, drained>>
  BY DEF Stop, events, history
<1>3. CASE Fail(c) /\ UNCHANGED <<dict, hold>>
  <2>1. /\ pc'[c] \in {"reply", "create", "stop"} /\ pc'[c] \notin Grasping /\ ~ok'[c]
        /\ \A y \in Actors : y # c => pc'[y] = pc[y]
    BY <1>1, <1>2, <1>3, FailTyped
  <2>2. \A d \in Controllers : d # c => ok'[d] = ok[d]
    BY <1>3 DEF Fail, Typed, TypeOK
  <2>3. Over'
    BY <1>1, <1>2, <2>1, <2>2 DEF Clean, Over
  <2> QED BY <1>1, <1>2, <1>3, <2>1, <2>2, <2>3, OtherStep DEF Installing, Install
<1>4. CASE /\ Registered /\ SetStatus("stopping") /\ Keep(c, entry) /\ Goto(c, "signal")
           /\ ok' = ok
  <2>1. /\ pc'[c] = "signal" /\ hold'[c] = entry
        /\ \A y \in Actors : y # c => pc'[y] = pc[y] /\ hold'[y] = hold[y]
    BY <1>4 DEF Goto, Keep, Typed, TypeOK
  <2>2. /\ dict'[entry].thread = dict[entry].thread /\ dict'[entry].stop = dict[entry].stop
        /\ dict'[entry].pause = dict[entry].pause /\ dict'[entry].status = "stopping"
    BY <1>4, StatusTyped DEF Typed, TypeOK, Statuses, Registered
  <2>3. Over'
    BY <1>2, <1>4, <2>1 DEF Clean, Over
  <2> QED BY <1>1, <1>2, <1>4, <2>1, <2>2, <2>3, OtherStep DEF Installing, Install
<1> QED BY <1>3, <1>4 DEF Stop

\* pause_worker and resume_worker: Clean is kept.
LEMMA PauseClean ==
    ASSUME Typed, Typed', Clean, ~Overlap', NEW c \in Controllers, Pause(c) \/ Resume(c)
    PROVE  Clean'
<1> USE Cast
<1>1. /\ pc[c] \in {"pause", "resume"} /\ pc[c] \notin Install /\ c = Commands
      /\ op[c] \in {"pause", "resume"}
  <2>1. pc[c] \in {"pause", "resume"} /\ Scripted(c)
    BY DEF Pause, Resume, Typed, Labelled
  <2> QED BY <2>1, MainStops DEF Install, Scripted, Stopping
<1>2. /\ UNCHANGED <<entry, dict, hold, runs, new, joined, op, stop, busy, slipped, outlived>>
      /\ drained' => drained /\ pause \subseteq pause'
  BY DEF Pause, Resume, memory, history
<1>3. /\ pc'[c] \in {"reply", "create", "stop"} /\ pc'[c] \notin Grasping
      /\ \A y \in Actors : y # c => pc'[y] = pc[y]
      /\ \A d \in Controllers : d # c => ok'[d] = ok[d]
  <2>1. Fail(c) \/ (Pass(c) /\ ok' = ok)
    BY DEF Pause, Resume
  <2>2. CASE Fail(c)
    BY <1>1, <1>2, <2>2, FailTyped DEF Fail, Typed, TypeOK
  <2>3. CASE Pass(c) /\ ok' = ok
    BY <1>1, <1>2, <2>3, PassTyped
  <2> QED BY <2>1, <2>2, <2>3
<1>4. Over'
  BY <1>1, <1>2, <1>3 DEF Over
<1> QED BY <1>1, <1>2, <1>3, <1>4, OtherStep DEF Installing, Install

\* The answer is out: Clean is kept.
LEMMA AnsweredClean ==
    ASSUME Typed, Typed', Clean, ~Overlap', NEW c \in Controllers, Answered(c)
    PROVE  Clean'
<1> USE Cast
<1>1. pc[c] = "reply" /\ c = Commands /\ pc[c] \notin Install
  BY DEF Answered, Install
<1>2. UNCHANGED <<entry, dict, runs, new, joined, stop, pause, busy, slipped, outlived, drained>>
  BY DEF Answered, memory, events, history
<1>3. /\ pc'[c] = "idle"
      /\ \A y \in Actors : y # c => pc'[y] = pc[y] /\ hold'[y] = hold[y]
      /\ \A d \in Controllers : d # c => ok'[d] = ok[d] /\ op'[d] = op[d]
  BY DEF Answered, Goto, Keep, Typed, TypeOK
<1>4. Over'
  BY <1>1, <1>3 DEF Over
<1> QED BY <1>1, <1>2, <1>3, <1>4, OtherStep DEF Installing, Install, Grasping

\* The stop event is set: Clean is kept.
LEMMA SignalClean ==
    ASSUME Typed, Typed', Clean, ~Overlap', NEW c \in Controllers, Signal(c)
    PROVE  Clean'
<1> USE Cast
<1>1. pc[c] = "signal" /\ pc[c] \notin Install /\ pc[c] \in Grasping
  BY DEF Signal, Install, Grasping
<1>2. /\ UNCHANGED <<entry, dict, hold, runs, new, joined, op, ok, pause, busy, slipped, outlived,
                     drained>>
      /\ stop' = stop \union {dict[hold[c]].stop}
  BY DEF Signal, memory, history
<1>3. pc'[c] = "take" /\ \A y \in Actors : y # c => pc'[y] = pc[y]
  BY DEF Signal, Goto, Typed, TypeOK
<1>4. c = Commands => Registered /\ hold[c] = entry
  BY <1>1 DEF Clean, Fetched
<1>5. Joining' /\ Over' /\ Paused' /\ Silent'
  BY <1>1, <1>2, <1>3 DEF Clean, Joining, Over, Paused, Silent
<1>6. NotTold'
  <2>1. CASE c = Main
    BY <1>3, <2>1 DEF NotTold
  <2>2. CASE c = Commands
    <3>1. \A x \in Actors : pc[x] # "events"
      BY <1>1, <2>2, NoInstaller DEF Install
    <3>2. dict[entry].stop = dict[entry].thread
      BY <1>4, <2>2, <3>1 DEF Clean, Aligned
    <3> QED BY <1>1, <1>2, <1>3, <1>4, <2>2, <3>2 DEF Clean, NotTold, IsAlive
  <2> QED BY <2>1, <2>2
<1> QED BY <1>1, <1>2, <1>3, <1>4, <1>5, <1>6, CommandStep DEF Installing, Install

\* The thread to join is fetched: Clean is kept.
LEMMA TakeClean ==
    ASSUME Typed, Typed', Clean, ~Overlap', NEW c \in Controllers, Take(c)
    PROVE  Clean'
<1> USE Cast
<1>1. pc[c] = "take" /\ pc[c] \notin Install /\ pc[c] \in Grasping
  BY DEF Take, Install, Grasping
<1>2. UNCHANGED <<entry, dict, hold, runs, new, op, ok, stop, pause, busy, slipped, outlived,
                  drained>>
  BY DEF Take, memory, events, history
<1>3. c = Commands => Registered /\ hold[c] = entry
  BY <1>1 DEF Clean, Fetched
<1>4. /\ pc'[c] \in {"reply", "join"} /\ \A y \in Actors : y # c => pc'[y] = pc[y]
      /\ c = Commands => pc'[c] = "join" /\ joined'[c] = dict[entry].thread
      /\ \A d \in Controllers : d # c => joined'[d] = joined[d]
  BY <1>3 DEF Take, Goto, Typed, TypeOK, Registered
<1>5. Joining' /\ Over' /\ Paused' /\ Silent'
  BY <1>1, <1>2, <1>4 DEF Clean, Joining, Over, Paused, Silent
<1>6. NotTold'
  BY <1>1, <1>2, <1>4 DEF Clean, NotTold, IsAlive
<1> QED BY <1>1, <1>2, <1>3, <1>4, <1>5, <1>6, CommandStep DEF Installing, Install

\* The join succeeded: Clean is kept.
LEMMA JoinedClean ==
    ASSUME Typed, Typed', Clean, ~Overlap', NEW c \in Controllers, Joined(c)
    PROVE  Clean'
<1> USE Cast
<1>1. /\ pc[c] = "join" /\ pc[c] \notin Install /\ pc[c] \in Grasping
      /\ SetStatus("stopped") /\ Pass(c) /\ ~IsAlive(joined[c])
  BY DEF Joined, Install, Grasping
<1>2. UNCHANGED <<entry, hold, runs, new, op, ok, stop, pause, busy, slipped, outlived, drained>>
  BY DEF Joined, events, history
<1>3. /\ pc'[c] \in {"reply", "start", "unregister", "create", "stop"} /\ pc'[c] \notin Grasping
      /\ \A y \in Actors : y # c => pc'[y] = pc[y]
  BY <1>1, <1>2, PassTyped
<1>4. c = Commands => /\ Registered /\ entry \in Entries /\ ~IsAlive(dict[entry].thread)
                      /\ \A t \in Threads : pc[t] \notin Bound
  <2>1. c = Commands => Registered /\ entry \in Entries /\ ~IsAlive(dict[entry].thread)
    BY <1>1 DEF Clean, Fetched, Joining, Registered, Typed, TypeOK
  <2> QED BY <2>1 DEF Clean, Known, IsAlive, Bound, Working
<1>5. Registered => /\ dict'[entry].thread = dict[entry].thread
                    /\ dict'[entry].stop = dict[entry].stop
                    /\ dict'[entry].pause = dict[entry].pause
                    /\ dict'[entry].status = "stopped"
  BY <1>1, StatusTyped DEF Registered, Typed, TypeOK, Statuses
<1>6. ~Registered => dict' = dict
  BY <1>1 DEF Registered, SetStatus
<1>7. Joining'
  BY <1>1, <1>2, <1>3, <1>5, <1>6 DEF Joined, Clean, Joining, Typed, TypeOK
<1>8. Over' /\ Paused' /\ Silent'
  BY <1>2, <1>3, <1>4 DEF Clean, Over, Paused, Silent
<1>9. NotTold'
  <2>1. CASE c = Main
    BY <1>3, <2>1 DEF NotTold
  <2>2. CASE c = Commands
    BY <1>1, <1>2, <1>3, <1>4, <2>2 DEF Clean, NotTold, IsAlive
  <2> QED BY <2>1, <2>2
<1> QED BY <1>1, <1>2, <1>3, <1>4, <1>5, <1>6, <1>7, <1>8, <1>9, CommandStep
        DEF Installing, Install, Grasping

\* The join ran out: Clean is kept.
LEMMA JoinTimeoutClean ==
    ASSUME Typed, Typed', Clean, ~Overlap', NEW c \in Controllers, JoinTimeout(c)
    PROVE  Clean'
<1> USE Cast
<1>1. /\ pc[c] = "join" /\ pc[c] \notin Install /\ pc[c] \in Grasping
      /\ outlived' = outlived \union {joined[c]}
  BY DEF JoinTimeout, Install, Grasping
<1>2. UNCHANGED <<entry, hold, runs, new, op, stop, pause, busy, slipped, drained>>
  BY DEF JoinTimeout, events
<1>3. \/ c = Main /\ SetStatus("stopped") /\ Pass(c) /\ ok' = ok
      \/ c # Main /\ dict' = dict /\ Fail(c)
  BY DEF JoinTimeout
<1>4. /\ pc'[c] \in {"reply", "start", "unregister", "create", "stop"} /\ pc'[c] \notin Grasping
      /\ c = Commands => pc'[c] \in {"reply", "create", "stop"} /\ ~ok'[c]
      /\ \A y \in Actors : y # c => pc'[y] = pc[y]
      /\ \A d \in Controllers : d # c => ok'[d] = ok[d]
  <2>1. CASE c = Main /\ Pass(c) /\ ok' = ok
    BY <1>1, <1>2, <2>1, PassTyped
  <2>2. CASE c # Main /\ Fail(c)
    <3>1. \A d \in Controllers : d # c => ok'[d] = ok[d]
      BY <2>2 DEF Fail, Typed, TypeOK
    <3> QED BY <1>1, <1>2, <2>2, <3>1, FailTyped
  <2> QED BY <1>3, <2>1, <2>2
<1>5. /\ dict'[entry].thread = dict[entry].thread /\ dict'[entry].stop = dict[entry].stop
      /\ dict'[entry].pause = dict[entry].pause
      /\ \/ dict'[entry].status = dict[entry].status
         \/ dict'[entry].status = "stopped" /\ c = Main
  <2>1. CASE entry = NoEntry
    BY <1>3, <2>1 DEF SetStatus
  <2>2. CASE entry # NoEntry
    BY <1>3, <2>2, StatusTyped DEF Typed, TypeOK, Statuses
  <2> QED BY <2>1, <2>2
<1>6. Joining'
  BY <1>1, <1>2, <1>4, <1>5 DEF JoinTimeout, Clean, Joining, Typed, TypeOK
<1>7. Over' /\ Paused' /\ Silent'
  BY <1>1, <1>2, <1>4 DEF Clean, Over, Paused, Silent
<1>8. NotTold'
  <2>1. CASE c = Main
    BY <1>4, <2>1 DEF NotTold
  <2>2. CASE c = Commands
    <3>1. joined[c] = dict[entry].thread
      BY <1>1, <2>2 DEF Clean, Joining
    <3> QED BY <1>1, <1>2, <1>4, <2>2, <3>1 DEF Clean, NotTold, IsAlive
  <2> QED BY <2>1, <2>2
<1> QED BY <1>1, <1>2, <1>4, <1>5, <1>6, <1>7, <1>8, CommandStep DEF Installing, Install, Grasping

\* drain_worker pauses the worker: Clean is kept.
LEMMA DrainClean ==
    ASSUME Typed, Typed', Clean, ~Overlap', NEW c \in Controllers, Drain(c)
    PROVE  Clean'
<1> USE Cast
<1>1. pc[c] = "drain" /\ pc[c] \notin Install /\ c = Commands
  BY MainStops DEF Drain, Install, Stopping
<1>2. UNCHANGED <<entry, dict, runs, new, joined, op, stop, busy, slipped, outlived, drained>>
  BY DEF Drain, memory, history
<1>3. CASE Fail(c) /\ UNCHANGED <<hold, pause>>
  <2>1. /\ pc'[c] \in {"reply", "create", "stop"} /\ pc'[c] \notin Grasping /\ ~ok'[c]
        /\ \A y \in Actors : y # c => pc'[y] = pc[y]
    BY <1>1, <1>2, <1>3, FailTyped
  <2>2. \A d \in Controllers : d # c => ok'[d] = ok[d]
    BY <1>3 DEF Fail, Typed, TypeOK
  <2>3. Over'
    BY <1>1, <2>1 DEF Over
  <2> QED BY <1>1, <1>2, <1>3, <2>1, <2>2, <2>3, OtherStep DEF Installing, Install
<1>4. CASE /\ Registered /\ pause' = pause \union {dict[entry].pause}
           /\ Keep(c, entry) /\ Goto(c, "await") /\ ok' = ok
  <2>1. /\ pc'[c] = "await" /\ hold'[c] = entry
        /\ \A y \in Actors : y # c => pc'[y] = pc[y] /\ hold'[y] = hold[y]
    BY <1>4 DEF Goto, Keep, Typed, TypeOK
  <2>2. Joining' /\ Over' /\ Silent'
    BY <1>1, <1>2, <2>1 DEF Clean, Joining, Over, Silent
  <2>3. Paused'
    BY <1>2, <1>4, <2>1 DEF Clean, Paused, Known
  <2>4. NotTold'
    BY <1>1, <1>2, <2>1 DEF Clean, NotTold, IsAlive
  <2> QED BY <1>1, <1>2, <1>4, <2>1, <2>2, <2>3, <2>4, CommandStep DEF Installing, Install
<1> QED BY <1>3, <1>4 DEF Drain

\* drain_worker looks whether the worker is busy: Clean is kept.
LEMMA AwaitClean ==
    ASSUME Typed, Typed', Clean, ~Overlap', NEW c \in Controllers, Await(c)
    PROVE  Clean'
<1> USE Cast
<1>1. pc[c] = "await" /\ pc[c] \notin Install /\ pc[c] \in Grasping /\ c = Commands
  BY MainStops DEF Await, Install, Stopping, Grasping
<1>2. UNCHANGED <<entry, dict, hold, runs, new, joined, op, stop, pause, busy, slipped, outlived>>
  BY DEF Await, memory, events
<1>3. /\ pc'[c] \in {"reply", "create", "stop"} /\ pc'[c] \notin Grasping
      /\ pc'[c] = "reply" => ~ok'[c] \/ op[c] = "drain"
      /\ \A y \in Actors : y # c => pc'[y] = pc[y]
  <2>1. CASE Fail(c)
    BY <1>1, <1>2, <2>1, FailTyped
  <2>2. CASE Pass(c)
    BY <1>1, <1>2, <2>2, PassTyped
  <2> QED BY <2>1, <2>2 DEF Await
<1>4. Joining' /\ Over'
  BY <1>1, <1>2, <1>3 DEF Joining, Over
<1>5. NotTold'
  BY <1>1, <1>2, <1>3 DEF Clean, NotTold, IsAlive
<1>6. \A t \in Threads : pc[t] \in Bound => t \in pause
  BY <1>1 DEF Clean, Paused
<1>7. Paused'
  BY <1>1, <1>2, <1>3, <1>6 DEF Paused
<1>8. Silent'
  <2>1. hold[c] = entry
    BY <1>1 DEF Clean, Fetched
  <2>2. \/ drained' = drained
        \/ \A t \in Threads : pc[t] # "frame"
    BY <2>1 DEF Await, Clean, Marked
  <2> QED BY <1>1, <1>2, <1>3, <2>2 DEF Clean, Silent
<1> QED BY <1>1, <1>2, <1>3, <1>4, <1>5, <1>7, <1>8, CommandStep DEF Installing, Install

\* The dictionary's entry changes only when no thread is in its target.
LEMMA RegistryStep ==
    ASSUME Typed, Typed', Clean, ~Overlap', NEW c \in Controllers,
           c = Commands, pc[c] \notin {"idle", "take", "join"} \union Install,
           pc'[c] \notin Grasping,
           \A t \in Threads : pc[t] \notin Bound,
           \A y \in Actors : y # c => pc'[y] = pc[y] /\ hold'[y] = hold[y],
           UNCHANGED <<stop, outlived>>,
           Registered' => dict'[entry'] = Blank
    PROVE  Clean'
<1> USE Cast
<1>1. \A x \in Actors : pc'[x] \notin Install \union {"sleep", "raised"}
  <2>1. pc'[c] \notin {"sleep", "raised"}
    BY DEF Typed, Labelled, Scripted, Stopping, Install
  <2>2. \A x \in Actors : pc[x] \notin Install \union {"sleep", "raised"}
    BY NoInstaller
  <2> QED BY <2>1, <2>2 DEF Grasping
<1>2. \A t \in Threads : pc'[t] = pc[t] /\ pc'[t] \notin Bound
  OBVIOUS
<1>3. Known' /\ Over' /\ Paused' /\ Marked' /\ Silent' /\ Alone' /\ Fresh' /\ Unmarked'
  BY <1>1, <1>2 DEF Known, Over, Paused, Marked, Silent, Alone, Fresh, Unmarked, Bound, Working,
                    Install, Installing
<1>4. Fetched'
  <2>1. ASSUME NEW x \in Actors, x # Main PROVE pc'[x] \notin Grasping
    <3>1. CASE x \in Threads
      BY <1>1, <3>1 DEF Typed, Labelled, ThreadLabels, Grasping, Waiting, Working, Install
    <3>2. CASE x = Commands
      BY <3>2
    <3> QED BY <2>1, <3>1, <3>2
  <2> QED BY <2>1 DEF Fetched
<1>5. Aligned' /\ Running' /\ AtRest'
  BY <1>1, <1>2 DEF Aligned, Running, AtRest, Blank, Bound, Install
<1>6. Joining'
  BY DEF Joining, Grasping
<1>7. NotTold'
  BY <1>2 DEF Clean, NotTold, IsAlive
<1> QED BY <1>3, <1>4, <1>5, <1>6, <1>7 DEF Clean

\* create_worker registers an entry: Clean is kept.
LEMMA CreateClean ==
    ASSUME Typed, Typed', Clean, ~Overlap', NEW c \in Controllers, Create(c)
    PROVE  Clean'
<1> USE Cast
<1>1. /\ pc[c] = "create" /\ pc[c] \notin Install /\ c = Commands
      /\ op[c] \in {"create", "update"}
  <2>1. pc[c] = "create" /\ Scripted(c)
    BY DEF Create, Typed, Labelled
  <2> QED BY <2>1, MainStops DEF Install, Scripted, Stopping
<1>2. UNCHANGED <<hold, runs, new, joined, op, stop, pause, slipped, outlived, drained>>
  BY DEF Create, history
<1>3. CASE Fail(c) /\ UNCHANGED <<memory, busy>>
  <2>1. /\ pc'[c] \in {"reply", "create", "stop"} /\ pc'[c] \notin Grasping
        /\ \A y \in Actors : y # c => pc'[y] = pc[y]
    BY <1>1, <1>2, <1>3, FailTyped
  <2>2. \A d \in Controllers : d # c => ok'[d] = ok[d]
    BY <1>3 DEF Fail, Typed, TypeOK
  <2>3. Over'
    BY <1>1, <1>2, <2>1 DEF Over
  <2> QED BY <1>1, <1>2, <1>3, <2>1, <2>2, <2>3, OtherStep DEF Installing, Install, memory
<1>4. CASE /\ ~Registered /\ Pass(c)
           /\ \E e \in Entries : entry' = e /\ dict' = [dict EXCEPT ![e] = Blank]
  <2>1. /\ pc'[c] = "start" /\ pc'[c] \notin Grasping
        /\ \A y \in Actors : y # c => pc'[y] = pc[y]
    BY <1>1, <1>2, <1>4, PassTyped
  <2>2. \A t \in Threads : pc[t] \notin Bound
    BY <1>4 DEF Clean, Known
  <2>3. dict'[entry'] = Blank
    BY <1>4 DEF Typed, TypeOK
  <2> QED BY <1>1, <1>2, <2>1, <2>2, <2>3, RegistryStep
<1> QED BY <1>3, <1>4 DEF Create

\* remove_worker takes the entry out: Clean is kept.
LEMMA UnregisterClean ==
    ASSUME Typed, Typed', Clean, ~Overlap', NEW c \in Controllers, Unregister(c)
    PROVE  Clean'
<1> USE Cast
<1>1. pc[c] = "unregister" /\ pc[c] \notin Install /\ c = Commands
  BY MainStops DEF Unregister, Install, Stopping
<1>2. \A t \in Threads : pc[t] \notin Bound
  BY <1>1 DEF Clean, Over
<1>3. UNCHANGED <<runs, new, joined, op, stop, pause, busy, slipped, outlived, drained>>
  BY DEF Unregister, events, history
<1>4. CASE Fail(c) /\ UNCHANGED <<memory, hold>>
  <2>1. /\ pc'[c] \in {"reply", "create", "stop"} /\ pc'[c] \notin Grasping /\ ~ok'[c]
        /\ \A y \in Actors : y # c => pc'[y] = pc[y]
    BY <1>1, <1>3, <1>4, FailTyped
  <2>2. \A d \in Controllers : d # c => ok'[d] = ok[d]
    BY <1>4 DEF Fail, Typed, TypeOK
  <2>3. Over'
    BY <1>2, <2>1 DEF Over
  <2> QED BY <1>1, <1>3, <1>4, <2>1, <2>2, <2>3, OtherStep DEF Installing, Install, memory
<1>5. CASE Registered /\ entry' = NoEntry /\ Keep(c, NoEntry) /\ Pass(c)
  <2>1. /\ pc'[c] \notin Grasping /\ \A y \in Actors : y # c => pc'[y] = pc[y]
    BY <1>1, <1>3, <1>5, PassTyped
  <2>2. \A y \in Actors : y # c => hold'[y] = hold[y]
    BY <1>5 DEF Keep, Typed, TypeOK
  <2>3. ~Registered'
    BY <1>5 DEF Registered
  <2> QED BY <1>1, <1>2, <1>3, <2>1, <2>2, <2>3, RegistryStep
<1> QED BY <1>4, <1>5 DEF Unregister

-----------------------------------------------------------------------------
(* The invariant and what follows from it.                                 *)

\* A process starts clean.
LEMMA CleanInit ==
    ASSUME Init
    PROVE  Clean
<1> USE Cast
<1>1. /\ entry = NoEntry /\ \A t \in Threads : pc[t] = "dead"
      /\ \A c \in Controllers : pc[c] = "idle"
      /\ drained = FALSE /\ stop = {}
  BY DEF Init
<1>2. \A x \in Actors : pc[x] \in {"idle", "dead"}
  BY <1>1
<1>3. ~Overlap
  BY <1>1 DEF Overlap
<1>4. Known /\ Over /\ Paused /\ Marked /\ Silent /\ NotTold /\ Joining
  BY <1>1 DEF Known, Over, Paused, Marked, Silent, NotTold, Joining, Bound, Working
<1>5. Fetched /\ Alone /\ Fresh /\ Aligned /\ Running /\ Unmarked /\ AtRest
  BY <1>1, <1>2 DEF Fetched, Alone, Fresh, Aligned, Running, Unmarked, AtRest, Registered,
                    Grasping, Install, Installing
<1> QED BY <1>3, <1>4, <1>5 DEF Clean

\* Clean is about nothing but the variables.
LEMMA CleanStutter ==
    ASSUME Clean, UNCHANGED vars
    PROVE  Clean'
<1>1. UNCHANGED <<mode, entry, dict, pc, hold, runs, new, joined, todo, asked, op, ok, stop, pause,
                  busy, slipped, outlived, drained>>
  BY DEF vars, memory, flow, events, history
<1>2. ~Overlap' /\ Known' /\ Fetched' /\ Alone' /\ Fresh'
  BY <1>1 DEF Clean, Overlap, Restarting, Known, Fetched, Alone, Fresh, Registered
<1>3. Aligned' /\ Running' /\ Unmarked' /\ AtRest' /\ Joining'
  BY <1>1 DEF Clean, Aligned, Running, Unmarked, AtRest, Joining, Registered
<1>4. NotTold' /\ Over' /\ Paused' /\ Marked' /\ Silent'
  BY <1>1 DEF Clean, NotTold, IsAlive, Over, Paused, Marked, Silent
<1> QED BY <1>2, <1>3, <1>4 DEF Clean

\* Every step keeps Clean while nothing overlaps.
LEMMA CleanStep ==
    ASSUME Typed, Typed', Clean, ~Overlap', Move
    PROVE  Clean'
<1>1. ASSUME NEW x \in Actors, Installs(x) PROVE Clean'
  BY <1>1, AssignClean, EventsClean, ClearClean, MarkClean, LaunchClean DEF Installs
<1>2. ASSUME NEW t \in Threads, Steps(t) PROVE Clean'
  BY <1>1, <1>2, Cast, EnterClean, RunClean, CheckClean, BeginFrameClean, EndFrameClean,
     LeaveClean, RaisedClean, WakeClean, FinalClean, DieClean DEF Steps
<1>3. ASSUME NEW c \in Controllers, Serves(c) PROVE Clean'
  BY <1>1, <1>3, Cast, CreateClean, StartClean, RestartClean, StopClean, SignalClean,
     TakeClean, JoinedClean, JoinTimeoutClean, UnregisterClean, PauseClean, DrainClean,
     AwaitClean, AnsweredClean DEF Serves
<1>4. ASSUME NEW c \in Controllers, NEW cmd \in Ops, Begin(c, cmd) PROVE Clean'
  BY <1>4, BeginClean
<1> QED BY <1>2, <1>3, <1>4 DEF Move

\* The invariant is inductive.
LEMMA WorkersStep ==
    ASSUME WorkersInv, [Next]_vars
    PROVE  WorkersInv'
<1>1. Typed'
  BY TypedStep DEF WorkersInv
<1>2. CASE UNCHANGED vars
  <2>1. crossed' = crossed
    BY <1>2 DEF vars
  <2> QED BY <1>1, <1>2, <2>1, CleanStutter DEF WorkersInv
<1>3. CASE Next
  <2>1. ~crossed' => ~crossed /\ ~Overlap'
    BY <1>3 DEF Next
  <2> QED BY <1>1, <1>3, <2>1, CleanStep DEF WorkersInv, Next
<1> QED BY <1>2, <1>3

\* The inductive invariant.
LEMMA WorkersAlways == Spec => []WorkersInv
<1>1. Init => WorkersInv
  BY TypedInit, CleanInit DEF WorkersInv
<1>2. WorkersInv /\ [Next]_vars => WorkersInv'
  BY WorkersStep
<1> QED BY <1>1, <1>2, PTL DEF Spec

\* Until a command and an internal restart overlap, a thread that is in the
\* worker's target is the one the registry knows: two threads never drive
\* one worker, and none is out of the commands' reach.
THEOREM OneRunnerAlways == Spec => []OneRunner
<1>1. WorkersInv => OneRunner
  BY DEF WorkersInv, Clean, Known, OneRunner, Bound
<1> QED BY <1>1, WorkersAlways, PTL

\* Until then, stop and remove say True only over a worker without a live
\* thread, and a worker listed as STOPPED is not in its target.
THEOREM StopsAreHonest == Spec => []HonestStop
<1>1. WorkersInv => HonestStop
  <2>1. ASSUME WorkersInv, ~crossed, pc[Commands] = "reply", ok[Commands],
               op[Commands] \in {"stop", "remove", "drain_and_remove"}
        PROVE  \A t \in Threads : pc[t] \notin Working /\ ~Restarting(t)
    <3>1. \A t \in Threads : pc[t] \notin Working
      BY <2>1 DEF WorkersInv, Clean, Over, Bound
    <3>2. \A t \in Threads : ~Restarting(t)
      BY <2>1 DEF WorkersInv, Clean, Overlap
    <3> QED BY <3>1, <3>2
  <2>2. ASSUME WorkersInv, ~crossed, pc[Main] = "idle", Registered,
               dict[entry].status = "stopped"
        PROVE  \A t \in Threads : pc[t] \notin Working
    BY <2>2 DEF WorkersInv, Clean, AtRest
  <2> QED BY <2>1, <2>2 DEF HonestStop
<1> QED BY <1>1, WorkersAlways, PTL

\* Until then, no frame runs after drain_worker has said True, but for one
\* whose pause check was over before and whose flag went up after the answer,
\* and for a pass of a task, which checks no pause.
THEOREM DrainsHold == Spec => []DrainHolds
<1>1. WorkersInv => DrainHolds
  BY DEF WorkersInv, Clean, Silent, DrainHolds
<1> QED BY <1>1, WorkersAlways, PTL

\* A start is answered with True by a start that found the worker running,
\* or by the launch of its thread.
LEMMA AckedBy ==
    ASSUME Typed, Typed', Move, AckedStart
    PROVE  \/ Launch(Commands)
           \/ /\ Start(Commands) /\ Pass(Commands) /\ Registered
              /\ dict[entry].status = "running" \/ IsAlive(dict[entry].thread)
<1> USE Cast
<1> DEFINE c == Commands
<1>1. /\ pc[c] # "reply" /\ pc'[c] = "reply" /\ ok'[c]
      /\ op[c] \in {"create", "start", "restart", "update"}
      /\ Scripted(c) /\ pc \in [Actors -> Labels]
  BY DEF AckedStart, Typed, TypeOK, Labelled, Labels
<1>2. ASSUME NEW x \in Actors, Installs(x) PROVE x = c /\ Launch(c)
  <2>1. CASE Launch(x)
    <3>1. x # c => pc'[c] = pc[c]
      BY <2>1 DEF Launch
    <3> QED BY <1>1, <2>1, <3>1
  <2>2. CASE Assign(x)
    <3>1. pc'[c] \in {pc[c], "events"}
      BY <1>1, <2>2 DEF Assign
    <3> QED BY <1>1, <3>1
  <2>3. CASE Events(x) \/ Clear(x) \/ Mark(x)
    <3>1. pc'[c] \in {pc[c], "clear", "mark", "launch"}
      BY <1>1, <2>3 DEF Events, Clear, Mark, Goto
    <3> QED BY <1>1, <3>1
  <2> QED BY <1>2, <2>1, <2>2, <2>3 DEF Installs
<1>3. ASSUME NEW t \in Threads, Steps(t) PROVE FALSE
  <2>1. ~Installs(t)
    BY <1>2
  <2>2. pc'[c] = pc[c]
    BY <1>1, <1>3, <2>1 DEF Steps, Enter, Run, Check, Admit, BeginFrame, EndFrame, Leave, Raised,
                            Wake, Final, Die, Goto
  <2> QED BY <1>1, <2>2
<1>4. ASSUME NEW d \in Controllers, NEW cmd \in Ops, Begin(d, cmd) PROVE FALSE
  <2>1. pc' = [pc EXCEPT ![d] = Head(Plan(cmd))] /\ todo' = [todo EXCEPT ![d] = Tail(Plan(cmd))]
        /\ op' = [op EXCEPT ![d] = cmd]
    BY <1>4 DEF Begin, Goto
  <2>2. pc'[d] = Head(Plan(cmd)) /\ todo'[d] = Tail(Plan(cmd)) /\ op'[d] = cmd
    BY <2>1 DEF Typed, TypeOK
  <2>3. Head(Plan(cmd)) \in Stages
    BY <2>2, PlanScripted
  <2> QED BY <1>1, <2>1, <2>3 DEF Stages
<1>5. ASSUME Serves(Main) PROVE FALSE
  <2>1. ~Installs(Main)
    BY <1>2
  <2>2. pc'[c] = pc[c]
    BY <1>1, <1>5, <2>1 DEF Serves, Create, Start, Restart, Stop, Signal, Take, Joined, JoinTimeout,
                            Unregister, Pause, Resume, Drain, Await, Answered, Pass, Fail, Goto
  <2> QED BY <1>1, <2>2
<1>6. ASSUME Serves(c), ~Start(c), ~Installs(c) PROVE FALSE
  <2>1. ~Fail(c)
    BY <1>1 DEF Fail, Typed, TypeOK
  <2>2. CASE Create(c)
    <3>1. pc[c] = "create" /\ Pass(c) /\ op' = op
      BY <2>1, <2>2 DEF Create
    <3> QED BY <1>1, <3>1, PassTyped
  <2>3. CASE Restart(c)
    <3>1. pc'[c] \in {"stop", "start"}
      BY <1>1, <2>1, <2>3 DEF Restart, Goto
    <3> QED BY <1>1, <3>1
  <2>4. CASE Stop(c) \/ Signal(c) \/ Drain(c)
    <3>1. pc'[c] \in {"signal", "take", "await"}
      BY <1>1, <2>1, <2>4 DEF Stop, Signal, Drain, Goto
    <3> QED BY <1>1, <3>1
  <2>5. CASE Take(c)
    <3>1. hold[c] \in Entries /\ pc'[c] \in {"reply", "join"}
      BY <1>1, <2>5 DEF Take, Goto, Typed, Held, Grasping
    <3>2. pc'[c] = "join"
      BY <1>1, <2>5, <3>1 DEF Take, Goto
    <3> QED BY <1>1, <3>2
  <2>6. CASE Joined(c) \/ JoinTimeout(c) \/ Unregister(c)
    <3>1. pc[c] \in {"join", "unregister"} /\ Pass(c) /\ op' = op
      BY <2>1, <2>6 DEF Joined, JoinTimeout, Unregister
    <3> QED BY <1>1, <3>1, PassTyped
  <2>7. CASE Pause(c) \/ Resume(c) \/ Await(c)
    <3>1. pc[c] \in {"pause", "resume", "await"}
      BY <2>7 DEF Pause, Resume, Await
    <3> QED BY <1>1, <3>1 DEF Scripted, Stopping, Install
  <2>8. CASE Answered(c)
    BY <1>1, <2>8 DEF Answered
  <2> QED BY <1>6, <2>2, <2>3, <2>4, <2>5, <2>6, <2>7, <2>8 DEF Serves
<1>7. CASE Start(c)
  <2>1. ~Fail(c)
    BY <1>1 DEF Fail, Typed, TypeOK
  <2>2. ~Goto(c, "assign")
    BY <1>1 DEF Goto
  <2> QED BY <1>7, <2>1, <2>2 DEF Start
<1> QED BY <1>2, <1>3, <1>4, <1>5, <1>6, <1>7 DEF Move

\* What an answered start leaves behind.
LEMMA AckedRuns ==
    ASSUME WorkersInv, WorkersInv', Next, AckedStart, ~crossed'
    PROVE  /\ Registered' /\ IsAlive(dict[entry].thread)'
           /\ dict'[entry'].thread \in stop'
                 => dict'[entry'].thread \in outlived' \/ pc[Main] # "idle"
<1> USE Cast
<1> DEFINE c == Commands
<1>1. Typed /\ Typed' /\ Clean /\ Move
  BY DEF WorkersInv, Next
<1>2. CASE Launch(c)
  <2>1. pc[c] = "launch" /\ pc[c] \in Install /\ pc[c] \in Installing
    BY <1>2 DEF Launch, Install, Installing
  <2>2. Registered /\ hold[c] = entry
    BY <1>1, <2>1, Installer
  <2>3. PICK u \in Threads :
            /\ u # c /\ dict[entry].thread = u /\ pc[u] = "new"
            /\ pc[Main] = "idle" => u \notin stop
    BY <1>1, <2>1 DEF Clean, Fresh
  <2>4. pc'[u] = "started"
    BY <1>2, <2>2, <2>3 DEF Launch
  <2>5. UNCHANGED <<entry, dict, stop>>
    BY <1>2 DEF Launch, memory, events
  <2> QED BY <2>2, <2>3, <2>4, <2>5 DEF IsAlive, Registered
<1>3. CASE /\ Start(c) /\ Registered
           /\ dict[entry].status = "running" \/ IsAlive(dict[entry].thread)
  <2>1. pc[c] = "start" /\ UNCHANGED <<entry, dict, stop>>
    BY <1>3 DEF Start, memory, events
  <2>2. \A t \in Threads : pc'[t] = pc[t]
    BY <1>1, <1>3 DEF Start, Pass, Fail, Goto, Typed, TypeOK
  <2>3. IsAlive(dict[entry].thread)
    <3>1. CASE dict[entry].status = "running"
      <4>1. \A x \in Actors : pc[x] # "launch"
        BY <1>1, <2>1, NoInstaller DEF Install
      <4>2. PICK t \in Threads : pc[t] \in Bound
        BY <1>1, <1>3, <3>1, <4>1 DEF Clean, Running
      <4>3. dict[entry].thread = t
        BY <1>1, <4>2 DEF Clean, Known
      <4> QED BY <4>2, <4>3 DEF IsAlive, Bound, Working
    <3> QED BY <1>3, <3>1
  <2>4. /\ dict[entry].thread \in Threads /\ outlived' = outlived
        /\ dict[entry].thread \in stop
              => dict[entry].thread \in outlived \/ pc[Main] # "idle"
    BY <1>1, <1>3, <2>1, <2>3 DEF Start, history, Clean, NotTold, IsAlive
  <2>5. IsAlive(dict[entry].thread)'
    BY <2>1, <2>2, <2>3, <2>4 DEF IsAlive
  <2> QED BY <1>3, <2>1, <2>4, <2>5 DEF Registered
<1> QED BY <1>1, <1>2, <1>3, AckedBy

\* Until a command and an internal restart overlap, a start, restart, create
\* or update that says True has a live thread behind it, and one that is told
\* to stop only if the join of that stop ran out or the process goes down.
THEOREM StartsAreAckedByRunners == Spec => AckedStartRuns
<1>1. WorkersInv /\ WorkersInv' /\ [Next]_vars
        => [AckedStart /\ ~crossed'
              => /\ Registered' /\ IsAlive(dict[entry].thread)'
                 /\ dict'[entry'].thread \in stop'
                       => dict'[entry'].thread \in outlived' \/ pc[Main] # "idle"]_vars
  BY AckedRuns
<1> QED BY <1>1, WorkersAlways, PTL DEF Spec, AckedStartRuns

=============================================================================
