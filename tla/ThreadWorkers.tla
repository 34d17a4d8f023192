--------------------------- MODULE ThreadWorkers ----------------------------
(***************************************************************************)
(* One named thread worker of a process: WorkerLifecycle, WorkerManager    *)
(* and WorkerRegistry, the loop of IdleWorker, and the worker.* commands   *)
(* of BuiltinCommands.                                                     *)
(*                                                                         *)
(* Threads: the message processor, which executes one worker command at a  *)
(* time; the main thread, which calls stop_all_workers when the process    *)
(* goes down; and the worker's own threads, one after another - a start, a *)
(* restart and the internal restart after an exception each make a new     *)
(* threading.Thread with its own stop and pause event.  The registry       *)
(* guards its dictionary with a lock, but an entry is handed out as a      *)
(* reference and its fields are assigned one at a time, so the install of  *)
(* a new thread is a sequence of steps.                                    *)
(*                                                                         *)
(* An entry is the dict of the registry: a removed one stays in the hands  *)
(* of whoever fetched it.  An entry or a thread nobody refers to any more  *)
(* is used again, which does not bound the restarts.                       *)
(***************************************************************************)
EXTENDS Integers, Sequences, FiniteSets

CONSTANTS
    Commands,    \* the message processor
    Main,        \* the main thread
    Entries,     \* bound: entries (and worker objects) in use at a time
    Threads,     \* bound: worker threads in use at a time
    NoEntry,     \* registry.get returns None
    Unstarted,   \* the thread create_worker makes; start_worker replaces it
    MaxRestarts, \* config.max_restarts; 0 also stands for no restart_on_failure
    MaxCommands, \* bound: worker commands
    Modes        \* execution modes: "loop", "task"

Controllers == {Commands, Main}
Actors      == Controllers \union Threads
Handles     == Threads \union {Unstarted}

ASSUME WorkerAssumption ==
    /\ Commands # Main /\ Controllers \intersect Threads = {}
    /\ NoEntry \notin Entries /\ Unstarted \notin Threads
    /\ MaxRestarts \in Nat /\ MaxCommands \in Nat
    /\ Modes \subseteq {"loop", "task"}

VARIABLES
    mode,     \* the worker's execution mode
    entry,    \* the registry: the entry under the worker's name
    dict,     \* dict[e]: the fields of entry e
    pc,       \* pc[x]: the next step of actor x
    hold,     \* hold[x]: the entry actor x has fetched
    runs,     \* runs[t]: the entry whose target thread t executes
    new,      \* new[x]: the thread actor x is installing
    joined,   \* joined[c]: the thread controller c joins
    todo,     \* todo[c]: the stages of the command still to come
    asked,    \* commands so far
    op, ok,   \* op[c]: the command of controller c; ok[c]: its result so far
    stop,     \* threads whose stop event is set
    pause,    \* threads whose pause event is set
    busy,     \* entries whose worker object has _busy set
    crossed,  \* history: a command and an internal restart overlapped
    slipped,  \* history: threads past their pause check, see Admit
    outlived, \* history: threads whose join ran out
    drained   \* history: drain_worker answered True, nobody resumed since

memory  == <<mode, entry, dict>>
flow    == <<pc, hold, runs, new, joined, todo, asked, op, ok>>
events  == <<stop, pause, busy>>
history == <<slipped, outlived, drained>>
vars    == <<memory, flow, events, history, crossed>>

Statuses == {"stopped", "stopping", "running", "completed", "error"}
Fields   == [thread : Handles, stop : Handles, pause : Handles,
             status : Statuses, started : BOOLEAN, count : 0 .. MaxRestarts]
Install  == {"assign", "events", "clear", "mark", "launch"}
Stages   == {"create", "start", "stop", "signal", "take", "join", "restart",
             "unregister", "pause", "resume", "drain", "await"}
Waiting  == {"sleep"} \union Install
Working  == {"started", "entered", "check", "admitted", "frame"}
Ops      == {"create", "start", "stop", "restart", "remove", "update",
             "pause", "resume", "drain", "drain_and_remove", "stop_all"}

TypeOK ==
    /\ mode \in Modes
    /\ entry \in Entries \union {NoEntry}
    /\ dict \in [Entries -> Fields]
    /\ pc \in [Actors -> {"idle", "reply", "new", "raised", "leave", "final", "dying",
                          "dead"} \union Stages \union Waiting \union Working]
    /\ hold \in [Actors -> Entries \union {NoEntry}]
    /\ runs \in [Threads -> Entries \union {NoEntry}]
    /\ new \in [Actors -> Handles]
    /\ joined \in [Controllers -> Handles]
    /\ todo \in [Controllers -> Seq(Stages)]
    /\ asked \in 0 .. MaxCommands
    /\ op \in [Controllers -> Ops] /\ ok \in [Controllers -> BOOLEAN]
    /\ stop \subseteq Handles /\ pause \subseteq Handles
    /\ busy \subseteq Entries
    /\ crossed \in BOOLEAN /\ slipped \subseteq Threads
    /\ outlived \subseteq Threads /\ drained \in BOOLEAN

Blank == [thread |-> Unstarted, stop |-> Unstarted, pause |-> Unstarted,
          status |-> "stopped", started |-> FALSE, count |-> 0]

Init ==
    /\ mode \in Modes /\ entry = NoEntry
    /\ dict = [e \in Entries |-> Blank]
    /\ pc = [x \in Actors |-> IF x \in Threads THEN "dead" ELSE "idle"]
    /\ hold = [x \in Actors |-> NoEntry]
    /\ runs = [t \in Threads |-> NoEntry]
    /\ new = [x \in Actors |-> Unstarted]
    /\ joined = [c \in Controllers |-> Unstarted]
    /\ todo = [c \in Controllers |-> <<>>]
    /\ asked = 0
    /\ op = [c \in Controllers |-> "stop_all"] /\ ok = [c \in Controllers |-> TRUE]
    /\ stop = {} /\ pause = {} /\ busy = {}
    /\ crossed = FALSE /\ slipped = {} /\ outlived = {} /\ drained = FALSE

\* Thread.is_alive(): from start() to the return of run().
IsAlive(h) == h \in Threads /\ pc[h] \notin {"new", "dead"}

\* An actor's next step; the entry it holds.
Goto(x, label) == pc' = [pc EXCEPT ![x] = label]
Keep(x, e)     == hold' = [hold EXCEPT ![x] = e]

\* registry.update_status: by name, a no-op when the name is gone.
SetStatus(status) ==
    dict' = IF entry = NoEntry THEN dict ELSE [dict EXCEPT ![entry].status = status]

-----------------------------------------------------------------------------
(* Installing a new thread: start_worker and _restart_worker_internal.     *)

\* An entry (and its worker object) nobody refers to.
Free(e) ==
    /\ e # entry
    /\ \A x \in Actors : pc[x] \notin {"idle", "reply"} => hold[x] # e
    /\ \A t \in Threads : IsAlive(t) => runs[t] # e

\* A thread object nobody refers to.
Unused(t) ==
    /\ ~IsAlive(t)
    /\ \A e \in Entries : ~Free(e) => t \notin {dict[e].thread, dict[e].stop, dict[e].pause}
    /\ \A x \in Actors : pc[x] \in Install => new[x] # t
    /\ \A c \in Controllers : pc[c] = "join" => joined[c] # t

\* worker_info["thread"] = Thread(...), with events made for it.
Assign(x) ==
    /\ pc[x] = "assign"
    /\ \E u \in Threads : u # x /\ Unused(u)
    /\ LET t == CHOOSE u \in Threads : u # x /\ Unused(u)
       IN
        /\ new' = [new EXCEPT ![x] = t]
        /\ runs' = [runs EXCEPT ![t] = hold[x]]
        /\ pc' = [pc EXCEPT ![t] = "new", ![x] = "events"]
        /\ stop' = stop \ {t} /\ pause' = pause \ {t}
        /\ dict' = [dict EXCEPT ![hold[x]].thread = t]
    /\ drained' = FALSE
    /\ UNCHANGED <<mode, entry, hold, joined, todo, asked, op, ok, busy, slipped, outlived>>

\* restart_count is only compared with the limit, so it is capped there.
Count(d) == IF d.count < MaxRestarts THEN d.count + 1 ELSE d.count

\* worker_info["stop_event"], worker_info["pause_event"]: fresh events; a
\* manual start of a worker that has run before counts as a restart.
Events(x) ==
    /\ pc[x] = "events"
    /\ LET d == dict[hold[x]]
           manual == x \in Controllers /\ d.started
       IN  dict' = [dict EXCEPT ![hold[x]] =
                       [d EXCEPT !.stop = new[x], !.pause = new[x], !.started = TRUE,
                                 !.count = IF manual THEN Count(d) ELSE d.count]]
    /\ Goto(x, "clear")
    /\ UNCHANGED <<mode, entry, hold, runs, new, joined, todo, asked, op, ok, events, history>>

Clear(x) ==
    /\ pc[x] = "clear"
    /\ stop' = stop \ {dict[hold[x]].stop} /\ pause' = pause \ {dict[hold[x]].pause}
    /\ Goto(x, "mark")
    /\ UNCHANGED <<memory, hold, runs, new, joined, todo, asked, op, ok, busy, history>>

Mark(x) ==
    /\ pc[x] = "mark"
    /\ SetStatus("running")
    /\ Goto(x, "launch")
    /\ UNCHANGED <<mode, entry, hold, runs, new, joined, todo, asked, op, ok, events, history>>

\* worker_info["thread"].start(): starting a thread twice raises.
Launch(x) ==
    LET t == dict[hold[x]].thread
        fresh == t \in Threads /\ pc[t] = "new"
        after == IF x \in Threads THEN "dying" ELSE "reply"
    IN  /\ pc[x] = "launch"
        /\ pc' = [y \in Actors |-> IF y = x THEN after
                                   ELSE IF fresh /\ y = t THEN "started" ELSE pc[y]]
        /\ ok' = IF x \in Threads THEN ok ELSE [ok EXCEPT ![x] = fresh]
        /\ new' = [new EXCEPT ![x] = Unstarted]
        /\ UNCHANGED <<memory, hold, runs, joined, todo, asked, op, events, history>>

-----------------------------------------------------------------------------
(* The worker's thread: _worker_wrapper and IdleWorker.run.                *)

\* _worker_wrapper fetches its entry; without one it returns at once.
Enter(t) ==
    /\ pc[t] = "started"
    /\ Keep(t, entry)
    /\ Goto(t, IF entry = NoEntry THEN "dying" ELSE "entered")
    /\ UNCHANGED <<memory, runs, new, joined, todo, asked, op, ok, events, history>>

\* The thread goes on to a frame: a loop has found itself not paused, a task
\* does not ask.  slipped keeps that until the flag of the frame is up, or, if
\* a drain has said True before that, until the frame ends.
Admit(t) ==
    /\ Goto(t, "admitted")
    /\ slipped' = IF mode = "task" \/ t \notin pause THEN slipped \union {t} ELSE slipped

\* Status RUNNING; a task makes one pass, a loop looks at its events first.
Run(t) ==
    /\ pc[t] = "entered"
    /\ SetStatus("running")
    /\ \/ mode = "task" /\ Admit(t)
       \/ mode # "task" /\ Goto(t, "check") /\ UNCHANGED slipped
    /\ UNCHANGED <<mode, entry, hold, runs, new, joined, todo, asked, op, ok, events, outlived, drained>>

\* Mutant: a paused loop does not look at its stop event.
CheckPauseFirst(t) ==
    /\ pc[t] = "check"
    /\ t \notin pause
    /\ \/ t \in stop /\ Goto(t, "leave") /\ UNCHANGED slipped
       \/ t \notin stop /\ Admit(t)
    /\ UNCHANGED <<memory, hold, runs, new, joined, todo, asked, op, ok, events, outlived, drained>>

\* The loop's checks: stop, then pause (a paused loop comes back here).
Check(t) ==
    /\ pc[t] = "check"
    /\ \/ t \in stop /\ Goto(t, "leave") /\ UNCHANGED slipped
       \/ t \notin stop \union pause /\ Admit(t)
    /\ UNCHANGED <<memory, hold, runs, new, joined, todo, asked, op, ok, events, outlived, drained>>

\* _run_once: _busy is raised after the checks, not with them.
BeginFrame(t) ==
    /\ pc[t] = "admitted"
    /\ busy' = busy \union {runs[t]}
    /\ slipped' = IF drained THEN slipped ELSE slipped \ {t}
    /\ Goto(t, "frame")
    /\ UNCHANGED <<memory, hold, runs, new, joined, todo, asked, op, ok, stop, pause, outlived, drained>>

\* _do_work returns or raises; _busy falls in both cases.
EndFrame(t) ==
    /\ pc[t] = "frame"
    /\ busy' = busy \ {runs[t]} /\ slipped' = slipped \ {t}
    /\ \/ Goto(t, IF mode = "task" THEN "leave" ELSE "check")
       \/ Goto(t, "raised")
    /\ UNCHANGED <<memory, hold, runs, new, joined, todo, asked, op, ok, stop, pause, outlived, drained>>

\* The target returned: a one-shot task is COMPLETED.
Leave(t) ==
    /\ pc[t] = "leave"
    /\ IF mode = "task" THEN SetStatus("completed") ELSE UNCHANGED dict
    /\ Goto(t, "final")
    /\ UNCHANGED <<mode, entry, hold, runs, new, joined, todo, asked, op, ok, events, history>>

\* Mutant: the restart budget is not looked at.
MayAlwaysRestart(t) == TRUE

\* The budget lasts.
MayRestart(t) == dict[hold[t]].count < MaxRestarts

\* The target raised: status ERROR, and a restart while the budget lasts -
\* whether or not the thread has been told to stop.
Raised(t) ==
    /\ pc[t] = "raised"
    /\ LET failed == IF entry = NoEntry THEN dict ELSE [dict EXCEPT ![entry].status = "error"]
       IN  IF MayRestart(t)
           THEN /\ dict' = [failed EXCEPT ![hold[t]].count = @ + 1]
                /\ Goto(t, "sleep")
           ELSE dict' = failed /\ Goto(t, "final")
    /\ UNCHANGED <<mode, entry, hold, runs, new, joined, todo, asked, op, ok, events, history>>

\* After 0.1 s, _restart_worker_internal fetches the entry by name again.
Wake(t) ==
    /\ pc[t] = "sleep"
    /\ Keep(t, entry)
    /\ Goto(t, IF entry = NoEntry THEN "dying" ELSE "assign")
    /\ UNCHANGED <<memory, runs, new, joined, todo, asked, op, ok, events, history>>

\* The wrapper's finally: STOPPED unless ERROR or COMPLETED.
Final(t) ==
    /\ pc[t] = "final"
    /\ IF entry # NoEntry /\ dict[entry].status \notin {"error", "completed"}
       THEN SetStatus("stopped") ELSE UNCHANGED dict
    /\ Goto(t, "dying")
    /\ UNCHANGED <<mode, entry, hold, runs, new, joined, todo, asked, op, ok, events, history>>

\* Nobody reads the events of a thread that has ended.
Die(t) ==
    /\ pc[t] = "dying"
    /\ Goto(t, "dead") /\ Keep(t, NoEntry)
    /\ runs' = [runs EXCEPT ![t] = NoEntry]
    /\ stop' = stop \ {t} /\ pause' = pause \ {t}
    /\ outlived' = outlived \ {t}
    /\ UNCHANGED <<memory, new, joined, todo, asked, op, ok, busy, slipped, drained>>

-----------------------------------------------------------------------------
(* The commands.                                                           *)

Registered == entry # NoEntry

\* The stages of a command, the first of which is taken at once.
Plan(cmd) ==
    CASE cmd = "create"  -> <<"create", "start">>
      [] cmd = "start"   -> <<"start">>
      [] cmd = "stop"    -> <<"stop">>
      [] cmd = "restart" -> <<"restart", "start">>
      [] cmd = "remove"  -> <<"stop", "unregister">>
      [] cmd = "update"  -> <<"stop", "unregister", "create", "start">>
      [] cmd = "pause"   -> <<"pause">>
      [] cmd = "resume"  -> <<"resume">>
      [] cmd = "drain"   -> <<"drain">>
      [] cmd = "drain_and_remove" -> <<"drain", "stop", "unregister">>
      [] cmd = "stop_all" -> <<"stop">>

\* worker.update wants the worker to exist; the others find out themselves.
Begin(c, cmd) ==
    /\ pc[c] = "idle"
    /\ cmd = "stop_all" <=> c = Main
    /\ asked' = IF c = Main THEN asked ELSE asked + 1
    /\ asked' <= MaxCommands
    /\ cmd = "update" => Registered
    /\ Goto(c, Head(Plan(cmd)))
    /\ todo' = [todo EXCEPT ![c] = Tail(Plan(cmd))]
    /\ op' = [op EXCEPT ![c] = cmd] /\ ok' = [ok EXCEPT ![c] = TRUE]
    /\ UNCHANGED <<memory, hold, runs, new, joined, events, history>>

\* The stage succeeded: on to the next one, or answer.
Pass(c) ==
    /\ Goto(c, IF todo[c] = <<>> THEN "reply" ELSE Head(todo[c]))
    /\ todo' = [todo EXCEPT ![c] = IF @ = <<>> THEN @ ELSE Tail(@)]

\* The stage failed: answer False, but worker.update ignores what
\* remove_worker returned and drain_and_remove what the drain did.
Fail(c) ==
    /\ ok' = [ok EXCEPT ![c] = FALSE]
    /\ IF op[c] = "update" /\ pc[c] \in {"stop", "join", "unregister"}
       THEN Goto(c, "create") /\ todo' = [todo EXCEPT ![c] = <<"start">>]
       ELSE IF op[c] = "drain_and_remove" /\ pc[c] \in {"drain", "await"}
       THEN Goto(c, "stop") /\ todo' = [todo EXCEPT ![c] = <<"unregister">>]
       ELSE Goto(c, "reply") /\ todo' = [todo EXCEPT ![c] = <<>>]

\* create_worker: the name must be free; the entry gets a thread that is
\* never started, because start_worker makes another one.
Create(c) ==
    /\ pc[c] = "create"
    /\ \/ Registered /\ Fail(c) /\ UNCHANGED <<memory, busy>>
       \/ /\ ~Registered /\ \E f \in Entries : Free(f)
          /\ LET e == CHOOSE f \in Entries : Free(f)
             IN  /\ entry' = e
                 /\ dict' = [dict EXCEPT ![e] = Blank]
                 /\ busy' = busy \ {e}
          /\ Pass(c) /\ ok' = [ok EXCEPT ![c] = TRUE]
    /\ UNCHANGED <<mode, hold, runs, new, joined, asked, op, stop, pause, history>>

\* Mutant: a live thread does not hold the start back.
StartOver(c) ==
    /\ pc[c] = "start"
    /\ \/ ~Registered /\ Fail(c) /\ UNCHANGED hold
       \/ Registered /\ dict[entry].status = "running" /\ Pass(c) /\ UNCHANGED <<ok, hold>>
       \/ /\ Registered /\ dict[entry].status # "running"
          /\ Keep(c, entry) /\ Goto(c, "assign")
          /\ UNCHANGED <<todo, ok>>
    /\ UNCHANGED <<memory, runs, new, joined, asked, op, events, history>>

\* Mutant: the status is believed, the thread not looked at.
StartByStatus(c) ==
    /\ pc[c] = "start"
    /\ \/ ~Registered /\ Fail(c) /\ UNCHANGED hold
       \/ Registered /\ dict[entry].status # "stopped" /\ Pass(c) /\ UNCHANGED <<ok, hold>>
       \/ /\ Registered /\ dict[entry].status = "stopped"
          /\ Keep(c, entry) /\ Goto(c, "assign")
          /\ UNCHANGED <<todo, ok>>
    /\ UNCHANGED <<memory, runs, new, joined, asked, op, events, history>>

\* start_worker: nothing to do for a RUNNING worker or a live thread.
Start(c) ==
    LET d == dict[entry]
        settled == Registered /\ (d.status = "running" \/ IsAlive(d.thread))
    IN  /\ pc[c] = "start"
        /\ \/ ~Registered /\ Fail(c) /\ UNCHANGED hold
           \/ settled /\ Pass(c) /\ UNCHANGED <<ok, hold>>
           \/ /\ Registered /\ ~settled
              /\ Keep(c, entry) /\ Goto(c, "assign")
              /\ UNCHANGED <<todo, ok>>
        /\ UNCHANGED <<memory, runs, new, joined, asked, op, events, history>>

\* restart_worker stops a RUNNING worker first.
Restart(c) ==
    /\ pc[c] = "restart"
    /\ \/ ~Registered /\ Fail(c)
       \/ /\ Registered
          /\ Goto(c, IF dict[entry].status = "running" THEN "stop" ELSE "start")
          /\ todo' = [todo EXCEPT ![c] = IF dict[entry].status = "running" THEN @ ELSE <<>>]
          /\ UNCHANGED ok
    /\ UNCHANGED <<memory, hold, runs, new, joined, asked, op, events, history>>

\* stop_worker and the first phase of stop_all_workers.
Stop(c) ==
    /\ pc[c] = "stop"
    /\ \/ ~Registered /\ Fail(c) /\ UNCHANGED <<mode, dict, hold>>
       \/ /\ Registered
          /\ SetStatus("stopping") /\ Keep(c, entry) /\ Goto(c, "signal")
          /\ UNCHANGED <<todo, ok>>
    /\ UNCHANGED <<mode, entry, runs, new, joined, asked, op, events, history>>

Signal(c) ==
    /\ pc[c] = "signal"
    /\ stop' = stop \union {dict[hold[c]].stop}
    /\ Goto(c, "take")
    /\ UNCHANGED <<memory, hold, runs, new, joined, todo, asked, op, ok, pause, busy, history>>

\* stop_worker joins the thread of the entry it holds; stop_all_workers
\* fetches the entry again.
Take(c) ==
    LET e == IF c = Main THEN entry ELSE hold[c]
    IN  /\ pc[c] = "take"
        /\ \/ /\ e = NoEntry
              /\ Goto(c, "reply") /\ UNCHANGED joined
           \/ /\ e # NoEntry
              /\ joined' = [joined EXCEPT ![c] = dict[e].thread]
              /\ Goto(c, "join")
        /\ UNCHANGED <<memory, hold, runs, new, todo, asked, op, ok, events, history>>

\* The thread is gone, or never ran: STOPPED.
Joined(c) ==
    /\ pc[c] = "join"
    /\ ~IsAlive(joined[c])
    /\ SetStatus("stopped")
    /\ joined' = [joined EXCEPT ![c] = Unstarted]
    /\ Pass(c)
    /\ UNCHANGED <<mode, entry, hold, runs, new, asked, op, ok, events, history>>

\* Mutant: STOPPED and True even when the join ran out (H-1).
JoinTimeoutLies(c) ==
    /\ pc[c] = "join"
    /\ IsAlive(joined[c])
    /\ outlived' = outlived \union {joined[c]} /\ joined' = [joined EXCEPT ![c] = Unstarted]
    /\ SetStatus("stopped") /\ Pass(c) /\ UNCHANGED ok
    /\ UNCHANGED <<mode, entry, hold, runs, new, asked, op, events, slipped, drained>>

\* join(timeout) ran out: stop_worker leaves STOPPING and says False,
\* stop_all_workers writes STOPPED all the same.
JoinTimeout(c) ==
    /\ pc[c] = "join"
    /\ IsAlive(joined[c])
    /\ outlived' = outlived \union {joined[c]} /\ joined' = [joined EXCEPT ![c] = Unstarted]
    /\ IF c = Main THEN SetStatus("stopped") /\ Pass(c) /\ UNCHANGED ok
                   ELSE UNCHANGED dict /\ Fail(c)
    /\ UNCHANGED <<mode, entry, hold, runs, new, asked, op, events, slipped, drained>>

\* remove_worker, after a stop that said True.  (What an entry nobody else
\* holds contains is forgotten.)
Unregister(c) ==
    /\ pc[c] = "unregister"
    /\ \/ ~Registered /\ Fail(c) /\ UNCHANGED <<memory, hold>>
       \/ /\ Registered
          /\ entry' = NoEntry
          /\ dict' = IF \E x \in Actors \ {c} : hold[x] = entry THEN dict
                     ELSE [dict EXCEPT ![entry] = Blank]
          /\ Keep(c, NoEntry)
          /\ Pass(c) /\ UNCHANGED ok
    /\ UNCHANGED <<mode, runs, new, joined, asked, op, events, history>>

\* pause_worker, resume_worker.
Pause(c) ==
    /\ pc[c] = "pause"
    /\ \/ ~Registered /\ Fail(c) /\ UNCHANGED pause
       \/ Registered /\ pause' = pause \union {dict[entry].pause} /\ Pass(c) /\ UNCHANGED ok
    /\ UNCHANGED <<memory, hold, runs, new, joined, asked, op, stop, busy, history>>

Resume(c) ==
    /\ pc[c] = "resume"
    /\ \/ ~Registered /\ Fail(c) /\ UNCHANGED <<pause, drained>>
       \/ /\ Registered
          /\ pause' = pause \ {dict[entry].pause} /\ drained' = FALSE
          /\ Pass(c) /\ UNCHANGED ok
    /\ UNCHANGED <<memory, hold, runs, new, joined, asked, op, stop, busy, slipped, outlived>>

\* drain_worker: pause, then wait until the worker is not busy.
Drain(c) ==
    /\ pc[c] = "drain"
    /\ \/ ~Registered /\ Fail(c) /\ UNCHANGED <<hold, pause>>
       \/ /\ Registered
          /\ pause' = pause \union {dict[entry].pause}
          /\ Keep(c, entry) /\ Goto(c, "await") /\ UNCHANGED <<todo, ok>>
    /\ UNCHANGED <<memory, runs, new, joined, asked, op, stop, busy, history>>

\* Mutant: the drain does not wait for the frame.
AwaitNothing(c) ==
    /\ pc[c] = "await"
    /\ Pass(c) /\ drained' = TRUE
    /\ UNCHANGED <<memory, hold, runs, new, joined, asked, op, ok, events, slipped, outlived>>

Await(c) ==
    /\ pc[c] = "await"
    /\ \/ hold[c] \notin busy /\ Pass(c) /\ drained' = TRUE /\ UNCHANGED ok
       \/ hold[c] \in busy /\ Fail(c) /\ UNCHANGED drained
    /\ UNCHANGED <<memory, hold, runs, new, joined, asked, op, events, slipped, outlived>>

\* The answer is out.  The process goes down once, so Main stays there.
Answered(c) ==
    /\ pc[c] = "reply" /\ c = Commands
    /\ Goto(c, "idle") /\ Keep(c, NoEntry) /\ ok' = [ok EXCEPT ![c] = TRUE]
    /\ op' = [op EXCEPT ![c] = "stop_all"]
    /\ UNCHANGED <<memory, runs, new, joined, todo, asked, events, history>>

-----------------------------------------------------------------------------
(* The specification.                                                      *)

Restarting(t) == pc[t] \in {"raised"} \union Waiting
Overlap == /\ \E t \in Threads : Restarting(t)
           /\ pc[Commands] # "idle" \/ pc[Main] \notin {"idle", "reply"}

Installs(x) == Assign(x) \/ Events(x) \/ Clear(x) \/ Mark(x) \/ Launch(x)
Steps(t) == \/ Enter(t) \/ Run(t) \/ Check(t) \/ BeginFrame(t) \/ EndFrame(t)
            \/ Leave(t) \/ Raised(t) \/ Wake(t) \/ Final(t) \/ Die(t)
            \/ Installs(t)
Serves(c) == \/ Create(c) \/ Start(c) \/ Restart(c) \/ Stop(c) \/ Signal(c) \/ Take(c)
             \/ Joined(c) \/ JoinTimeout(c) \/ Unregister(c) \/ Pause(c) \/ Resume(c)
             \/ Drain(c) \/ Await(c) \/ Answered(c) \/ Installs(c)

Move == \/ \E t \in Threads : Steps(t)
        \/ \E c \in Controllers : Serves(c) \/ \E cmd \in Ops : Begin(c, cmd)

Next == Move /\ crossed' = (crossed \/ Overlap')

Spec == Init /\ [][Next]_vars

\* A live thread runs, and the target's frames end.
FairSpec == Spec /\ \A t \in Threads : WF_vars(Steps(t) /\ crossed' = (crossed \/ Overlap'))

-----------------------------------------------------------------------------
(* Properties.                                                             *)

\* The thread in the worker's target is the one the registry knows: there
\* are never two, and none that the commands cannot reach.  Two threads
\* would drive one plugin, two writers of one ring.
OneRunner ==
    ~crossed => \A t \in Threads : pc[t] \in Working =>
                    Registered /\ dict[entry].thread = t

\* stop and remove answer True only when no thread of the worker is alive,
\* and unless the main thread is stopping everything, a worker listed as
\* STOPPED is not in its target.
HonestStop ==
    /\ ~crossed /\ pc[Commands] = "reply" /\ ok[Commands]
       /\ op[Commands] \in {"stop", "remove", "drain_and_remove"}
          => \A t \in Threads : pc[t] \notin Working /\ ~Restarting(t)
    /\ ~crossed /\ pc[Main] = "idle" /\ Registered /\ dict[entry].status = "stopped"
          => \A t \in Threads : pc[t] \notin Working

\* A command that is to leave a worker running is answered with True.
AckedStart ==
    /\ pc[Commands] # "reply" /\ pc'[Commands] = "reply" /\ ok'[Commands]
    /\ op[Commands] \in {"create", "start", "restart", "update"}

\* A start, restart, create or update is answered with True only over a live
\* thread: the RUNNING of a thread that is gone is not taken for a running
\* worker.  Nobody has told that thread to stop, with two exceptions: a stop
\* whose join ran out and which said False - start_worker then finds the old
\* thread alive and answers True over it - and a process that is going down.
\* (A thread in its very last steps still counts as alive.)
AckedStartRuns ==
    [][AckedStart /\ ~crossed'
        => /\ Registered' /\ IsAlive(dict[entry].thread)'
           /\ dict'[entry'].thread \in stop'
                 => dict'[entry'].thread \in outlived' \/ pc[Main] # "idle"]_vars

\* stop_worker's own words: True only when the thread has really ended.  Not
\* so when the stop meets the internal restart of a failed worker.
StopIsFinal ==
    pc[Commands] = "reply" /\ ok[Commands] /\ op[Commands] \in {"stop", "remove"}
        => \A t \in Threads : pc[t] \notin Working

\* After drain_worker has answered True no frame runs until somebody resumes
\* or restarts the worker, but for one whose pause check was over before the
\* pause and whose flag went up after the answer, and a pass of a task, which
\* checks no pause and may raise its flag after the answer too.
DrainHolds ==
    drained /\ ~crossed => \A t \in Threads \ slipped : pc[t] # "frame"

\* A thread that is told to stop ends, paused or not.
ToldThreadsEnd ==
    \A t \in Threads : (t \in stop /\ IsAlive(t)) ~> (pc[t] = "dead" \/ crossed)
=============================================================================
