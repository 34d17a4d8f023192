---------------------------- MODULE SeqlockSlot -----------------------------
(***************************************************************************)
(* One slot of a SharedMemory frame ring in the seqlock format: the single *)
(* writer (pack_images and, after a failed write, clear_slot_seqlock of    *)
(* memory/format/buffer.py) against readers in other processes, which      *)
(* either copy the frame out (read_single_frame, copy=True) or keep a      *)
(* zero-copy view of it, run the plugin chain on the view, re-check the    *)
(* generation and forward the result (ShmFrameReader, PipelineExecutor).   *)
(*                                                                         *)
(* Every read and write of shared memory is a step of its own: the         *)
(* generation counter, the image header, the words of the pixel payload.   *)
(* A word holds the number of the frame it was written for, 0 when zeroed, *)
(* so a torn frame is one whose words carry different numbers.             *)
(***************************************************************************)
EXTENDS Naturals, FiniteSets

CONSTANTS
    Readers,     \* processes that read the slot
    Header,      \* the num_images/shape header, a word of the slot
    Pixels,      \* the words of the pixel payload
    Viewers,     \* readers that keep a view (FW_SHM_ZERO_COPY), the others copy
    Lessees,     \* readers the frames are lent to (FW_SHM_LOAN_PROTOCOL), see
                 \* `lent'; the copy-out targets are not among them
    MaxFrames,   \* bound: frames the writer starts
    MaxCrashes   \* bound: kills of the writer in the middle of a write

ASSUME SlotAssumption ==
    /\ Header \notin Pixels
    /\ Viewers \subseteq Readers /\ Lessees \subseteq Readers
    /\ MaxFrames \in Nat /\ MaxCrashes \in Nat

Words  == Pixels \union {Header}
Frames == 0 .. MaxFrames
Blank  == [w \in Words |-> 0]

VARIABLES
    gen,        \* the generation counter: odd while a write is under way
    body,       \* body[w]: the frame number word w was last written for
    wpc,        \* the writer: "idle", "head", "copy", "empty", "failed", "wipe"
    todo,       \* words the writer has still to store
    frame,      \* number of the frame being (or last) written
    crashes,    \* kills of the writer so far
    committed,  \* history: the frame of the last finished write, 0 if it failed
    lent,       \* readers the current frame is lent to (refcount and _released)
    pc,         \* pc[r]: where reader r is
    g,          \* g[r]: the generation r compares with later
    left,       \* left[r]: words r has still to load
    seen,       \* seen[r]: what r loaded of the frame in hand
    out,        \* out[r]: the pixels of r's last accepted frame
    fwd         \* fwd[r]: the pixels r copied into its own ring after that

writer == <<gen, body, wpc, todo, frame, crashes, committed>>
reader == <<pc, g, left, seen, out, fwd>>
vars   == <<writer, lent, reader>>

Odd(n) == n % 2 = 1

\* The readers that copy a frame out before they work on it.
Copiers == Readers \ Viewers

\* A reader between the start of its read and the end of the plugin chain.
Holding(r) == pc[r] \in {"reading", "verified", "using"}

TypeOK ==
    /\ gen \in Nat
    /\ body \in [Words -> Frames]
    /\ wpc \in {"idle", "head", "copy", "empty", "failed", "wipe"}
    /\ todo \subseteq Words
    /\ frame \in Frames
    /\ crashes \in 0 .. MaxCrashes
    /\ committed \in Frames
    /\ lent \subseteq Readers
    /\ pc \in [Readers -> {"idle", "reading", "verified", "using", "forward"}]
    /\ g \in [Readers -> Nat]
    /\ left \in [Readers -> SUBSET Words]
    /\ seen \in [Readers -> [Words -> Frames]]
    /\ out \in [Readers -> [Words -> Frames]]
    /\ fwd \in [Readers -> [Words -> Frames]]

Init ==
    /\ gen = 0 /\ body = Blank
    /\ wpc = "idle" /\ todo = {} /\ frame = 0 /\ crashes = 0
    /\ committed = 0 /\ lent = {}
    /\ pc = [r \in Readers |-> "idle"]
    /\ g = [r \in Readers |-> 0]
    /\ left = [r \in Readers |-> {}]
    /\ seen = [r \in Readers |-> Blank]
    /\ out = [r \in Readers |-> Blank]
    /\ fwd = [r \in Readers |-> Blank]

-----------------------------------------------------------------------------
(* The writer.                                                             *)

\* Faulty variant: an odd generation left by a killed writer becomes even.
WBeginPlusOne ==
    /\ wpc = "idle" /\ frame < MaxFrames
    /\ lent = {}
    /\ gen' = gen + 1
    /\ wpc' = "head" /\ todo' = Pixels /\ frame' = frame + 1
    /\ UNCHANGED <<body, crashes, committed, lent, reader>>

\* Faulty variant: the loans are not looked at.
WBeginOnLent ==
    /\ wpc = "idle" /\ frame < MaxFrames
    /\ gen' = IF Odd(gen) THEN gen + 2 ELSE gen + 1
    /\ wpc' = "head" /\ todo' = Pixels /\ frame' = frame + 1
    /\ UNCHANGED <<body, crashes, committed, lent, reader>>

\* pack_images reads the generation and stores the next odd one: an odd
\* generation left by a killed writer is stepped over.  With the loan protocol
\* LoanLedger.acquire hands the slot out only when nobody holds a loan on it.
WBegin ==
    /\ wpc = "idle" /\ frame < MaxFrames
    /\ lent = {}
    /\ gen' = IF Odd(gen) THEN gen + 2 ELSE gen + 1
    /\ wpc' = "head" /\ todo' = Pixels /\ frame' = frame + 1
    /\ UNCHANGED <<body, crashes, committed, lent, reader>>

\* pack_images_fast stores num_images first, ...
WHead ==
    /\ wpc = "head"
    /\ body' = [body EXCEPT ![Header] = frame]
    /\ wpc' = "copy"
    /\ UNCHANGED <<gen, todo, frame, crashes, committed, lent, reader>>

\* ... then copies the payload, in an order numpy does not promise.
WCopy(w) ==
    /\ wpc = "copy" /\ w \in todo
    /\ body' = [body EXCEPT ![w] = frame]
    /\ todo' = todo \ {w}
    /\ UNCHANGED <<gen, wpc, frame, crashes, committed, lent, reader>>

\* Faulty variant: the wrong frame is announced.
WDoneNextFrame ==
    /\ wpc = "copy" /\ todo = {}
    /\ gen' = gen + 1
    /\ wpc' = "idle" /\ committed' = frame + 1
    /\ lent' = Lessees
    /\ UNCHANGED <<body, todo, frame, crashes, reader>>

\* The finally-branch stores the even generation; the ledger's commit lends
\* the frame to the consumers before any of them is told about it.
WDone ==
    /\ wpc = "copy" /\ todo = {}
    /\ gen' = gen + 1
    /\ wpc' = "idle" /\ committed' = frame
    /\ lent' = Lessees
    /\ UNCHANGED <<body, todo, frame, crashes, reader>>

\* A dtype or shape mismatch: the except-branch stores num_images = 0, ...
WEmpty ==
    /\ wpc = "copy"
    /\ body' = [body EXCEPT ![Header] = 0]
    /\ wpc' = "empty" /\ todo' = {}
    /\ UNCHANGED <<gen, frame, crashes, committed, lent, reader>>

\* Faulty variant: a failed write is lent all the same.
WFailLends ==
    /\ wpc = "empty"
    /\ gen' = gen + 1
    /\ wpc' = "failed" /\ committed' = 0
    /\ lent' = Lessees
    /\ UNCHANGED <<body, todo, frame, crashes, reader>>

\* ... the finally-branch the even generation; the exception reaches
\* write_images, which wipes the slot.
WFail ==
    /\ wpc = "empty"
    /\ gen' = gen + 1
    /\ wpc' = "failed" /\ committed' = 0
    /\ UNCHANGED <<body, todo, frame, crashes, lent, reader>>

\* clear_slot_seqlock: odd generation, zeroes, even generation.
WWipeBegin ==
    /\ wpc = "failed"
    /\ gen' = gen + 1
    /\ wpc' = "wipe" /\ todo' = Words
    /\ UNCHANGED <<body, frame, crashes, committed, lent, reader>>

WWipe(w) ==
    /\ wpc = "wipe" /\ w \in todo
    /\ body' = [body EXCEPT ![w] = 0]
    /\ todo' = todo \ {w}
    /\ UNCHANGED <<gen, wpc, frame, crashes, committed, lent, reader>>

WWipeDone ==
    /\ wpc = "wipe" /\ todo = {}
    /\ gen' = gen + 1
    /\ wpc' = "idle"
    /\ UNCHANGED <<body, todo, frame, crashes, committed, lent, reader>>

\* kill -9 inside a write: the generation stays odd.
WCrash ==
    /\ wpc \in {"head", "copy", "empty", "wipe"} /\ crashes < MaxCrashes
    /\ crashes' = crashes + 1
    /\ wpc' = "idle" /\ todo' = {}
    /\ UNCHANGED <<gen, body, frame, committed, lent, reader>>

Writer ==
    \/ WBegin \/ WHead \/ WDone \/ WEmpty \/ WFail
    \/ WWipeBegin \/ WWipeDone \/ WCrash
    \/ \E w \in Words : WCopy(w) \/ WWipe(w)

-----------------------------------------------------------------------------
(* A reader.                                                               *)

\* read_single_frame loads the generation; an odd one means "no frame".  With
\* the loan protocol a lessee was sent the coordinates of a frame lent to it.
\* A view needs only the header now, a copy needs every word.
RBegin(r) ==
    /\ pc[r] = "idle" /\ ~ Odd(gen)
    /\ r \in Lessees => r \in lent
    /\ pc' = [pc EXCEPT ![r] = "reading"]
    /\ g' = [g EXCEPT ![r] = gen]
    /\ left' = [left EXCEPT ![r] = IF r \in Viewers THEN {Header} ELSE Words]
    /\ seen' = [seen EXCEPT ![r] = Blank]
    /\ UNCHANGED <<writer, lent, out, fwd>>

\* One word of the frame is loaded: by read_single_frame, by a plugin working
\* on the view, or by the copy of the view into the reader's own ring.
RLoad(r, w) ==
    /\ pc[r] \in {"reading", "using", "forward"} /\ w \in left[r]
    /\ seen' = [seen EXCEPT ![r][w] = body[w]]
    /\ left' = [left EXCEPT ![r] = @ \ {w}]
    /\ UNCHANGED <<writer, lent, pc, g, out, fwd>>

\* The second look at the generation: unchanged and not empty, or no frame.
\* Neither a dropped frame nor a copied one leaves a release ticket.
RReject(r) ==
    /\ pc[r] = "reading" /\ left[r] = {}
    /\ gen # g[r] \/ seen[r][Header] = 0
    /\ pc' = [pc EXCEPT ![r] = "idle"]
    /\ UNCHANGED <<writer, lent, g, left, seen, out, fwd>>

\* Faulty variant: no second look at the generation.
RCopiedUnchecked(r) ==
    /\ pc[r] = "reading" /\ left[r] = {} /\ r \notin Viewers
    /\ seen[r][Header] # 0
    /\ out' = [out EXCEPT ![r] = seen[r]]
    /\ pc' = [pc EXCEPT ![r] = "idle"]
    /\ UNCHANGED <<writer, lent, g, left, seen, fwd>>

\* Faulty variant: no look at num_images.
RCopiedEmpty(r) ==
    /\ pc[r] = "reading" /\ left[r] = {} /\ r \notin Viewers
    /\ gen = g[r]
    /\ out' = [out EXCEPT ![r] = seen[r]]
    /\ pc' = [pc EXCEPT ![r] = "idle"]
    /\ UNCHANGED <<writer, lent, g, left, seen, fwd>>

RCopied(r) ==
    /\ pc[r] = "reading" /\ left[r] = {} /\ r \notin Viewers
    /\ gen = g[r] /\ seen[r][Header] # 0
    /\ out' = [out EXCEPT ![r] = seen[r]]
    /\ pc' = [pc EXCEPT ![r] = "idle"]
    /\ UNCHANGED <<writer, lent, g, left, seen, fwd>>

RViewed(r) ==
    /\ pc[r] = "reading" /\ left[r] = {} /\ r \in Viewers
    /\ gen = g[r] /\ seen[r][Header] # 0
    /\ pc' = [pc EXCEPT ![r] = "verified"]
    /\ UNCHANGED <<writer, lent, g, left, seen, out, fwd>>

\* _read_cached notes _shm_view_generation with a load of its own.
RRecord(r) ==
    /\ pc[r] = "verified"
    /\ g' = [g EXCEPT ![r] = gen]
    /\ pc' = [pc EXCEPT ![r] = "using"]
    /\ left' = [left EXCEPT ![r] = Pixels]
    /\ UNCHANGED <<writer, lent, seen, out, fwd>>

\* Faulty variant: no re-check after the chain.
RAcceptUnchecked(r) ==
    /\ pc[r] = "using" /\ left[r] = {}
    /\ out' = [out EXCEPT ![r] = seen[r]]
    /\ pc' = [pc EXCEPT ![r] = "forward"]
    /\ left' = [left EXCEPT ![r] = Pixels]
    /\ lent' = lent \ {r}
    /\ UNCHANGED <<writer, g, seen, fwd>>

\* The chain has run: view_valid compares the generation, the loan is given
\* back either way, and the results of a valid batch go to _send_results,
\* which copies a frame that is still the input view into the next ring.
RAccept(r) ==
    /\ pc[r] = "using" /\ left[r] = {} /\ gen = g[r]
    /\ out' = [out EXCEPT ![r] = seen[r]]
    /\ pc' = [pc EXCEPT ![r] = "forward"]
    /\ left' = [left EXCEPT ![r] = Pixels]
    /\ lent' = lent \ {r}
    /\ UNCHANGED <<writer, g, seen, fwd>>

RStale(r) ==
    /\ pc[r] = "using" /\ left[r] = {} /\ gen # g[r]
    /\ pc' = [pc EXCEPT ![r] = "idle"]
    /\ lent' = lent \ {r}
    /\ UNCHANGED <<writer, g, left, seen, out, fwd>>

RForward(r) ==
    /\ pc[r] = "forward" /\ left[r] = {}
    /\ fwd' = [fwd EXCEPT ![r] = seen[r]]
    /\ pc' = [pc EXCEPT ![r] = "idle"]
    /\ UNCHANGED <<writer, lent, g, left, seen, out>>

Reader(r) ==
    \/ RBegin(r) \/ RReject(r) \/ RCopied(r) \/ RViewed(r)
    \/ RRecord(r) \/ RAccept(r) \/ RStale(r) \/ RForward(r)
    \/ \E w \in Words : RLoad(r, w)

Next == Writer \/ \E r \in Readers : Reader(r)

Spec == Init /\ [][Next]_vars

-----------------------------------------------------------------------------
(* Correctness.                                                            *)

\* The pixels of one frame, or nothing yet.
Whole(p) == \A v, w \in Words : p[v] = p[w]

\* No reader that copies or holds a loan ever takes pixels of two frames for
\* one: what read_single_frame returns, and what the plugin chain saw when the
\* re-check passed, is a frame as the writer packed it.
NoTornFrame == \A r \in Copiers \union Lessees : Whole(out[r])

\* The same of the pixels alone, the words a view is read through.
NoTornPixels == \A r \in Readers : \A v, w \in Pixels : out[r][v] = out[r][w]

\* The frame a reader passes on through its own ring is whole as well.
NoTornForward == \A r \in Readers : \A v, w \in Pixels : fwd[r][v] = fwd[r][w]

\* While a frame is lent to a reader its slot is quiet: the write is finished,
\* the generation even and the reader's notes about it still hold.
LentIsQuiet ==
    \A r \in lent :
        /\ wpc = "idle" /\ ~ Odd(gen) /\ committed # 0
        /\ r \in Viewers /\ Holding(r) => g[r] = gen

\* A reader never goes back: each frame it copies out is at least as new as
\* the one before, whatever the writer failed or died at in between.
NeverOlder ==
    [][\A r \in Copiers : out'[r][Header] >= out[r][Header]]_vars

\* Without loans the re-check is all there is.  It lets through pixels of two
\* frames only when the reader, after its check, noted the generation of a later
\* write: an odd one, or the one a failed write left with an empty slot.
RecheckCatchesFinishedWrites ==
    [][\A r \in Readers :
           RAccept(r) /\ ~ Odd(g[r]) /\ committed # 0 =>
               \A v, w \in Pixels : seen[r][v] = seen[r][w]]_vars

\* With exact loans a reader is never refused: nothing it was lent is torn,
\* empty or overwritten under its view.
LentIsReadable ==
    [][\A r \in Lessees \intersect Viewers : ~ (RReject(r) \/ RStale(r))]_vars

\* The slot refines a register: a copied-out frame is the one the register
\* holds when the reader looks at the generation for the second time.
Abstract == INSTANCE AtomicSlot WITH
                Readers <- Copiers,
                value <- committed,
                got <- [r \in Copiers |-> out[r][Header]]

ImplementsAtomicSlot == Abstract!Spec
=============================================================================
