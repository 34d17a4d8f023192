------------------------- MODULE SeqlockSlot_proofs -------------------------
(***************************************************************************)
(* Proofs about SeqlockSlot for every set of readers, every payload and    *)
(* every bound.                                                            *)
(*                                                                         *)
(* NoTornFrame is not inductive.  What makes it so is the meaning of the   *)
(* generation: it is odd while the writer is inside the slot, it never     *)
(* repeats, and an even generation freezes the contents, which are then    *)
(* the committed frame or an empty slot.  A reader that finds the even     *)
(* number it started from has therefore loaded words of that frame only.   *)
(***************************************************************************)
EXTENDS SeqlockSlot, TLAPS

\* An even generation: the contents are the committed frame, or empty.
Frozen ==
    ~ Odd(gen) => IF committed # 0 THEN \A w \in Words : body[w] = committed
                                   ELSE body[Header] = 0

\* What the writer has stored so far.
Progress ==
    /\ wpc \in {"head", "copy", "empty", "wipe"} => Odd(gen)
    /\ wpc = "failed" => ~ Odd(gen)
    /\ wpc = "empty" => body[Header] = 0
    /\ wpc \in {"failed", "wipe"} => committed = 0 /\ body[Header] = 0
    /\ wpc = "head" => todo = Pixels
    /\ wpc = "copy" => /\ todo \subseteq Pixels
                       /\ \A w \in Words \ todo : body[w] = frame
    /\ wpc \in {"head", "copy"} => committed < frame
    /\ committed <= frame

\* What reader r has loaded is what the slot still holds, if the generation
\* r compares with is still the current one.
Loaded(r) ==
    pc[r] = "reading" =>
        /\ ~ Odd(g[r]) /\ g[r] <= gen
        /\ gen = g[r] => \A w \in (IF r \in Viewers THEN {Header} ELSE Words) \ left[r] :
                             seen[r][w] = body[w]

\* A copying reader only ever copies, and what it copied is no newer than the
\* committed frame.
Copies(r) ==
    /\ pc[r] \in {"idle", "reading"}
    /\ Whole(out[r])
    /\ out[r][Header] <= frame
    /\ committed # 0 => out[r][Header] <= committed

CopyInv == /\ TypeOK /\ Frozen /\ Progress
           /\ \A r \in Copiers : Loaded(r) /\ Copies(r)

USE DEF Copiers

-----------------------------------------------------------------------------
(* The type invariant.                                                     *)

\* TypeOK in two halves: the writer's variables and the readers'.
WriterType ==
    /\ gen \in Nat
    /\ body \in [Words -> Frames]
    /\ wpc \in {"idle", "head", "copy", "empty", "failed", "wipe"}
    /\ todo \in SUBSET Words
    /\ frame \in Frames
    /\ crashes \in 0 .. MaxCrashes
    /\ committed \in Frames

ReaderType ==
    /\ lent \in SUBSET Readers
    /\ pc \in [Readers -> {"idle", "reading", "verified", "using", "forward"}]
    /\ g \in [Readers -> Nat]
    /\ left \in [Readers -> SUBSET Words]
    /\ seen \in [Readers -> [Words -> Frames]]
    /\ out \in [Readers -> [Words -> Frames]]
    /\ fwd \in [Readers -> [Words -> Frames]]

LEMMA TypeHalves == TypeOK <=> WriterType /\ ReaderType
BY DEF TypeOK, WriterType, ReaderType

LEMMA WordFacts ==
    /\ Header \in Words /\ Pixels \in SUBSET Words
    /\ {} \in SUBSET Words /\ Words \in SUBSET Words
    /\ 0 \in Frames /\ Frames \subseteq Nat
    /\ \A f \in Frames : f < MaxFrames => f + 1 \in Frames
    /\ Blank \in [Words -> Frames]
BY SlotAssumption DEF Words, Frames, Blank

LEMMA WriterTypes ==
    ASSUME WriterType, ReaderType, Writer PROVE WriterType' /\ ReaderType'
<1>1. UNCHANGED reader /\ lent' \in SUBSET Readers
  BY SlotAssumption
     DEF Writer, WBegin, WHead, WDone, WEmpty, WFail, WWipeBegin, WWipeDone, WCrash,
         WCopy, WWipe, ReaderType
<1>2. ReaderType'
  BY <1>1 DEF ReaderType, reader
<1>3. WriterType'
  <2>1. CASE WBegin
    BY <2>1, WordFacts DEF WBegin, WriterType
  <2>2. CASE WHead
    BY <2>2, WordFacts DEF WHead, WriterType
  <2>3. CASE WDone
    BY <2>3, WordFacts DEF WDone, WriterType
  <2>4. CASE WEmpty \/ WFail
    BY <2>4, WordFacts DEF WEmpty, WFail, WriterType
  <2>5. CASE WWipeBegin \/ WWipeDone
    BY <2>5, WordFacts DEF WWipeBegin, WWipeDone, WriterType
  <2>6. CASE WCrash
    BY <2>6, WordFacts, SlotAssumption DEF WCrash, WriterType
  <2>7. ASSUME NEW w \in Words, WCopy(w) \/ WWipe(w) PROVE WriterType'
    BY <2>7, WordFacts DEF WCopy, WWipe, WriterType
  <2> QED
    BY <2>1, <2>2, <2>3, <2>4, <2>5, <2>6, <2>7 DEF Writer
<1> QED
  BY <1>2, <1>3

LEMMA ReaderTypes ==
    ASSUME NEW r \in Readers, WriterType, ReaderType, Reader(r)
    PROVE  WriterType' /\ ReaderType'
<1>1. UNCHANGED writer
  BY DEF Reader, RBegin, RReject, RCopied, RViewed, RRecord, RAccept, RStale,
         RForward, RLoad
<1>2. WriterType'
  BY <1>1 DEF WriterType, writer
<1>3. ReaderType'
  <2>1. CASE RBegin(r)
    BY <2>1, WordFacts DEF RBegin, ReaderType, WriterType
  <2>2. CASE RReject(r) \/ RViewed(r) \/ RStale(r)
    BY <2>2 DEF RReject, RViewed, RStale, ReaderType
  <2>3. CASE RCopied(r)
    BY <2>3 DEF RCopied, ReaderType
  <2>4. CASE RRecord(r)
    BY <2>4, WordFacts DEF RRecord, ReaderType, WriterType
  <2>5. CASE RAccept(r)
    BY <2>5, WordFacts DEF RAccept, ReaderType
  <2>6. CASE RForward(r)
    BY <2>6 DEF RForward, ReaderType
  <2>7. ASSUME NEW w \in Words, RLoad(r, w) PROVE ReaderType'
    BY <2>7 DEF RLoad, ReaderType, WriterType
  <2> QED
    BY <2>1, <2>2, <2>3, <2>4, <2>5, <2>6, <2>7 DEF Reader
<1> QED
  BY <1>2, <1>3

LEMMA NextTypes == TypeOK /\ [Next]_vars => TypeOK'
<1> SUFFICES ASSUME TypeOK, [Next]_vars PROVE TypeOK'
  OBVIOUS
<1>1. WriterType /\ ReaderType
  BY TypeHalves
<1>2. WriterType' /\ ReaderType'
  <2>1. CASE Writer
    BY <1>1, <2>1, WriterTypes
  <2>2. CASE \E r \in Readers : Reader(r)
    BY <1>1, <2>2, ReaderTypes
  <2>3. CASE UNCHANGED vars
    BY <1>1, <2>3 DEF vars, writer, reader, WriterType, ReaderType
  <2> QED
    BY <2>1, <2>2, <2>3 DEF Next
<1> QED
  BY <1>2 DEF TypeOK, WriterType, ReaderType

LEMMA InitTypes == Init => TypeOK
BY WordFacts, SlotAssumption DEF Init, TypeOK

\* Every variable keeps its type: generations are naturals, words hold frame
\* numbers within the bound, whatever the modes and the failures.
THEOREM SlotTypeCorrect == Spec => []TypeOK
BY InitTypes, NextTypes, PTL DEF Spec

-----------------------------------------------------------------------------
(* Copying readers: FW_SHM_ZERO_COPY off, or copy-out targets.             *)

LEMMA ProgressStep ==
    ASSUME WriterType, Frozen, Progress, [Next]_vars
    PROVE  Frozen' /\ Progress'
<1> USE DEF WriterType
<1>1. CASE WBegin
  BY <1>1, WordFacts, SlotAssumption DEF WBegin, Frozen, Progress, Odd
<1>2. CASE WHead
  BY <1>2, WordFacts, SlotAssumption DEF WHead, Frozen, Progress, Words
<1>3. CASE WDone
  BY <1>3, WordFacts DEF WDone, Frozen, Progress, Odd
<1>4. CASE WEmpty \/ WFail
  BY <1>4, WordFacts DEF WEmpty, WFail, Frozen, Progress, Odd
<1>5. CASE WWipeBegin
  BY <1>5, WordFacts DEF WWipeBegin, Frozen, Progress, Odd
<1>6. CASE WWipeDone
  BY <1>6, WordFacts DEF WWipeDone, Frozen, Progress, Odd
<1>7. CASE WCrash
  BY <1>7, WordFacts DEF WCrash, Frozen, Progress
<1>8. ASSUME NEW w \in Words, WCopy(w) PROVE Frozen' /\ Progress'
  BY <1>8, WordFacts DEF WCopy, Frozen, Progress
<1>9. ASSUME NEW w \in Words, WWipe(w) PROVE Frozen' /\ Progress'
  BY <1>9, WordFacts DEF WWipe, Frozen, Progress
<1>10. CASE UNCHANGED writer
  BY <1>10 DEF writer, Frozen, Progress
<1>11. ASSUME NEW r \in Readers, Reader(r) PROVE UNCHANGED writer
  BY <1>11 DEF Reader, RBegin, RReject, RCopied, RViewed, RRecord, RAccept,
               RStale, RForward, RLoad
<1> QED
  BY <1>1, <1>2, <1>3, <1>4, <1>5, <1>6, <1>7, <1>8, <1>9, <1>10, <1>11
     DEF Next, Writer, vars

\* Whatever the writer does, a reader whose generation is still the current
\* one finds the words it loaded unchanged: the writer stores into the slot
\* under a generation the reader did not accept.
LEMMA LoadedSurvivesWriter ==
    ASSUME NEW r \in Copiers, WriterType, ReaderType, Progress, Loaded(r), Writer
    PROVE  Loaded(r)'
<1>1. UNCHANGED reader
  BY DEF Writer, WBegin, WHead, WDone, WEmpty, WFail, WWipeBegin, WWipeDone, WCrash,
         WCopy, WWipe
<1>2. \/ gen' = gen + 1 \/ gen' = gen + 2
      \/ gen' = gen /\ UNCHANGED body
      \/ gen' = gen /\ Odd(gen)
  BY DEF Writer, WBegin, WHead, WDone, WEmpty, WFail, WWipeBegin, WWipeDone, WCrash,
         WCopy, WWipe, Progress
<1> QED
  BY <1>1, <1>2 DEF Loaded, reader, WriterType, ReaderType

LEMMA CopiesSurviveWriter ==
    ASSUME NEW r \in Copiers, WriterType, ReaderType, Progress, Copies(r), Writer
    PROVE  Copies(r)'
<1>0. r \in Readers
  OBVIOUS
<1>1. UNCHANGED reader
  BY DEF Writer, WBegin, WHead, WDone, WEmpty, WFail, WWipeBegin, WWipeDone, WCrash,
         WCopy, WWipe
<1>2. /\ frame' >= frame
      /\ \/ committed' \in {committed, 0}
         \/ committed' = frame
  <2> USE WordFacts DEF WriterType
  <2>1. CASE WBegin
    BY <2>1 DEF WBegin
  <2>2. CASE WDone
    BY <2>2 DEF WDone
  <2> QED
    BY <2>1, <2>2 DEF Writer, WHead, WEmpty, WFail, WWipeBegin, WWipeDone, WCrash,
                      WCopy, WWipe
<1>3. out[r][Header] \in Nat /\ frame \in Nat /\ frame' \in Nat
  <2>1. frame' \in Frames
    BY WriterTypes DEF WriterType
  <2>2. out[r][Header] \in Frames
    BY <1>0, WordFacts DEF ReaderType
  <2> QED
    BY <2>1, <2>2, WordFacts DEF WriterType
<1> QED
  BY <1>1, <1>2, <1>3 DEF Copies, Whole, reader

LEMMA CopyReader ==
    ASSUME WriterType, ReaderType, Frozen, Progress,
           NEW r \in Copiers, Loaded(r), Copies(r),
           NEW q \in Readers, Reader(q)
    PROVE  Loaded(r)' /\ Copies(r)'
<1>1. UNCHANGED writer
  BY DEF Reader, RBegin, RReject, RCopied, RViewed, RRecord, RAccept, RStale,
         RForward, RLoad
<1>2. CASE q # r
  BY <1>1, <1>2 DEF Reader, RBegin, RReject, RCopied, RViewed, RRecord, RAccept,
         RStale, RForward, RLoad, Loaded, Copies, Whole, ReaderType, writer
<1>3. CASE q = r
  <2>1. CASE RBegin(r)
    BY <1>1, <2>1 DEF RBegin, Loaded, Copies, Whole, ReaderType, WriterType, writer
  <2>2. CASE RReject(r)
    BY <1>1, <2>2 DEF RReject, Loaded, Copies, Whole, ReaderType, writer
  <2>3. CASE RCopied(r)
    <3>1. /\ committed # 0
          /\ \A w \in Words : seen[r][w] = committed
      BY <2>3, WordFacts DEF RCopied, Loaded, Frozen, WriterType, ReaderType
    <3> QED
      BY <1>1, <2>3, <3>1, WordFacts
         DEF RCopied, Loaded, Copies, Whole, ReaderType, WriterType, writer,
             Progress
  <2>4. ASSUME NEW w \in Words, RLoad(r, w) PROVE Loaded(r)' /\ Copies(r)'
    BY <1>1, <2>4 DEF RLoad, Loaded, Copies, Whole, ReaderType, WriterType, writer
  <2>5. ~ (RViewed(r) \/ RRecord(r) \/ RAccept(r) \/ RStale(r) \/ RForward(r))
    BY DEF RViewed, RRecord, RAccept, RStale, RForward, Copies
  <2> QED
    BY <1>3, <2>1, <2>2, <2>3, <2>4, <2>5 DEF Reader
<1> QED
  BY <1>2, <1>3

LEMMA CopyInvInit == Init => CopyInv
BY InitTypes, WordFacts
   DEF Init, CopyInv, Frozen, Progress, Loaded, Copies, Whole, Blank

LEMMA CopyInvStep == CopyInv /\ [Next]_vars => CopyInv'
<1> SUFFICES ASSUME CopyInv, [Next]_vars PROVE CopyInv'
  OBVIOUS
<1>1. WriterType /\ ReaderType
  BY TypeHalves DEF CopyInv
<1>2. TypeOK' /\ Frozen' /\ Progress'
  BY <1>1, NextTypes, ProgressStep DEF CopyInv
<1>3. ASSUME NEW r \in Copiers PROVE Loaded(r)' /\ Copies(r)'
  <2>1. CASE Writer
    BY <1>1, <2>1, LoadedSurvivesWriter, CopiesSurviveWriter DEF CopyInv
  <2>2. CASE \E q \in Readers : Reader(q)
    BY <1>1, <2>2, CopyReader DEF CopyInv
  <2>3. CASE UNCHANGED vars
    BY <2>3 DEF CopyInv, vars, writer, reader, Loaded, Copies, Whole
  <2> QED
    BY <2>1, <2>2, <2>3 DEF Next
<1> QED
  BY <1>2, <1>3 DEF CopyInv

\* One step of the slot is one step of the register, or none: a frame appears
\* with its even generation, a failed write empties the register, and an
\* accepted copy takes the frame that is there.
LEMMA RegisterStep ==
    CopyInv /\ [Next]_vars
        => [Abstract!Next]_<<committed, [r \in Copiers |-> out[r][Header]]>>
<1> DEFINE heads == [r \in Copiers |-> out[r][Header]]
<1> SUFFICES ASSUME CopyInv, [Next]_vars
             PROVE  Abstract!Next \/ UNCHANGED <<committed, heads>>
  OBVIOUS
<1>1. WriterType /\ ReaderType /\ Progress /\ Frozen
  BY TypeHalves DEF CopyInv
<1>2. ASSUME UNCHANGED out PROVE UNCHANGED heads
  BY <1>2
<1>3. CASE WDone
  <2>1. committed' \in Nat \ {0} /\ committed' > committed /\ UNCHANGED heads
    BY <1>1, <1>2, <1>3, WordFacts DEF WDone, Progress, WriterType, reader
  <2> QED
    BY <2>1 DEF Abstract!Next, Abstract!Publish
<1>4. CASE WFail
  BY <1>2, <1>4 DEF WFail, reader, Abstract!Next, Abstract!Empty
<1>5. ASSUME Writer, ~ WDone, ~ WFail PROVE UNCHANGED <<committed, heads>>
  BY <1>2, <1>5 DEF Writer, WBegin, WHead, WEmpty, WWipeBegin, WWipeDone, WCrash,
         WCopy, WWipe, reader
<1>6. ASSUME NEW r \in Copiers, RCopied(r) PROVE Abstract!Take(r)
  <2>1. committed # 0 /\ seen[r][Header] = committed
    BY <1>1, <1>6, WordFacts
       DEF RCopied, CopyInv, Loaded, Frozen, WriterType, ReaderType
  <2>2. UNCHANGED committed
    BY <1>6 DEF RCopied, writer
  <2>3. heads' = [heads EXCEPT ![r] = committed]
    <3>1. out' = [out EXCEPT ![r] = seen[r]] /\ out \in [Readers -> [Words -> Frames]]
      BY <1>1, <1>6 DEF RCopied, ReaderType
    <3>2. \A q \in Copiers : out'[q][Header] = IF q = r THEN committed
                                                       ELSE out[q][Header]
      BY <2>1, <3>1
    <3> QED
      BY <3>2
  <2> QED
    BY <2>1, <2>2, <2>3 DEF Abstract!Take
<1>7. ASSUME NEW r \in Readers, Reader(r), ~ RCopied(r)
      PROVE  UNCHANGED <<committed, heads>>
  <2>1. CASE RAccept(r)
    <3>1. r \notin Copiers
      BY <2>1 DEF CopyInv, Copies, RAccept
    <3>2. \A q \in Copiers : out'[q] = out[q]
      BY <1>1, <2>1, <3>1 DEF RAccept, ReaderType
    <3> QED
      BY <2>1, <3>2 DEF RAccept, writer
  <2> QED
    BY <1>2, <1>7, <2>1 DEF Reader, RBegin, RReject, RViewed, RRecord, RStale,
                       RForward, RLoad, writer
<1>8. CASE UNCHANGED vars
  BY <1>2, <1>8 DEF vars, writer, reader
<1>9. \A r \in Readers : RCopied(r) => r \in Copiers
  BY DEF RCopied
<1>10. CASE \E r \in Readers : Reader(r)
  BY <1>6, <1>7, <1>9, <1>10 DEF Abstract!Next
<1> QED
  BY <1>3, <1>4, <1>5, <1>8, <1>10 DEF Next

\* The seqlock slot implements a register of whole frames for the readers that
\* copy: each copied frame is the one the slot held at one instant of the read.
THEOREM SlotImplementsRegister == Spec => ImplementsAtomicSlot
<1>1. Init => Abstract!Init
  BY WordFacts DEF Init, Abstract!Init, Blank
<1>2. Spec => Abstract!Spec
  BY <1>1, CopyInvInit, CopyInvStep, RegisterStep, PTL
     DEF Spec, Abstract!Spec
<1> QED
  BY <1>2 DEF ImplementsAtomicSlot

\* No reader's copies ever go back in time.
THEOREM SlotNeverOlder == Spec => NeverOlder
<1>1. ASSUME CopyInv, [Next]_vars
      PROVE  \A r \in Copiers : out'[r][Header] >= out[r][Header]
  <2> TAKE r \in Copiers
  <2>1. WriterType /\ ReaderType /\ Frozen
    BY <1>1, TypeHalves DEF CopyInv
  <2>2. out[r][Header] \in Nat
    <3>1. out \in [Readers -> [Words -> Frames]]
      BY <2>1 DEF ReaderType
    <3>2. out[r][Header] \in Frames
      BY <3>1, WordFacts
    <3> QED
      BY <3>2, WordFacts
  <2>3. ASSUME NEW q \in Copiers, RCopied(q) PROVE out'[r][Header] >= out[r][Header]
    <3>1. committed # 0 /\ seen[q][Header] = committed
      BY <1>1, <2>1, <2>3, WordFacts
         DEF RCopied, CopyInv, Loaded, Frozen, WriterType, ReaderType
    <3>2. out[q][Header] <= committed
      BY <1>1, <3>1 DEF CopyInv, Copies
    <3> QED
      BY <2>1, <2>2, <2>3, <3>1, <3>2 DEF RCopied, ReaderType
  <2>4. ASSUME NEW q \in Readers, Reader(q), ~ RCopied(q)
        PROVE  out'[r] = out[r]
    <3>1. CASE RAccept(q)
      <4>1. Copies(r)
        BY <1>1 DEF CopyInv
      <4>2. q # r
        BY <3>1, <4>1 DEF Copies, RAccept
      <4> QED
        BY <2>1, <3>1, <4>2 DEF RAccept, ReaderType
    <3> QED
      BY <2>4, <3>1 DEF Reader, RBegin, RReject, RViewed, RRecord, RStale,
                       RForward, RLoad
  <2>6. \A q \in Readers : RCopied(q) => q \in Copiers
    BY DEF RCopied
  <2>5. CASE Writer \/ UNCHANGED vars
    BY <2>2, <2>5 DEF Writer, WBegin, WHead, WDone, WEmpty, WFail, WWipeBegin, WWipeDone,
                 WCrash, WCopy, WWipe, reader, vars
  <2> QED
    BY <1>1, <2>2, <2>3, <2>4, <2>5, <2>6 DEF Next
<1>2. Spec => NeverOlder
  BY <1>1, CopyInvInit, CopyInvStep, PTL DEF Spec, NeverOlder
<1> QED
  BY <1>2

-----------------------------------------------------------------------------
(* Lent slots: the loan protocol with zero-copy views.                     *)

\* What a reader of a lent slot knows at each stage of its work.
View(r) ==
    /\ Holding(r) => r \in lent /\ g[r] = gen
    /\ pc[r] = "reading" =>
           /\ left[r] \subseteq {Header}
           /\ left[r] = {} => seen[r][Header] = body[Header]
    /\ pc[r] = "verified" => seen[r][Header] = body[Header]
    /\ pc[r] = "using" =>
           \A w \in Words \ left[r] : seen[r][w] = body[w]
    /\ Whole(out[r])

\* The readers that hold a loan on what they look at.
Tenants == Lessees \intersect Viewers

USE DEF Tenants

LoanInv == /\ TypeOK /\ Frozen /\ Progress
           /\ lent \subseteq Lessees
           /\ lent # {} => wpc = "idle" /\ ~ Odd(gen) /\ committed # 0
           /\ \A r \in Tenants : View(r)

LEMMA LoanReader ==
    ASSUME LoanInv, NEW q \in Readers, Reader(q)
    PROVE  /\ lent' \subseteq lent
           /\ \A r \in Tenants : View(r)'
<1>1. WriterType /\ ReaderType
  BY TypeHalves DEF LoanInv
<1>2. UNCHANGED writer
  BY DEF Reader, RBegin, RReject, RCopied, RViewed, RRecord, RAccept, RStale,
         RForward, RLoad
<1>3. lent' \in {lent, lent \ {q}}
  BY DEF Reader, RBegin, RReject, RCopied, RViewed, RRecord, RAccept, RStale,
         RForward, RLoad
<1>4. ASSUME NEW r \in Tenants, r # q PROVE View(r)'
  <2>1. /\ pc'[r] = pc[r] /\ g'[r] = g[r] /\ left'[r] = left[r]
        /\ seen'[r] = seen[r] /\ out'[r] = out[r]
    BY <1>1, <1>4, SlotAssumption DEF Reader, RBegin, RReject, RCopied, RViewed, RRecord, RAccept,
           RStale, RForward, RLoad, ReaderType
  <2> QED
    BY <1>2, <1>3, <1>4, <2>1 DEF View, Holding, Whole, LoanInv, writer
<1>5. ASSUME q \in Tenants PROVE View(q)'
  <2> USE <1>1, <1>2, WordFacts
  <2>0. /\ View(q) /\ (lent # {} => ~ Odd(gen) /\ committed # 0)
        /\ q \in Lessees /\ q \in Viewers
    BY <1>5 DEF LoanInv
  <2>1. CASE RBegin(q)
    BY <2>0, <2>1 DEF RBegin, View, Holding, Whole, writer, ReaderType
  <2>2. CASE RReject(q)
    BY <2>0, <2>2 DEF RReject, View, Holding, Whole, writer, ReaderType
  <2>3. ~ RCopied(q)
    BY <2>0 DEF RCopied
  <2>4. CASE RViewed(q)
    BY <2>0, <2>4 DEF RViewed, View, Holding, Whole, writer, ReaderType
  <2>5. CASE RRecord(q)
    BY <2>0, <2>5 DEF RRecord, View, Holding, Whole, writer, ReaderType, Words
  <2>6. CASE RAccept(q)
    <3>1. \A w \in Words : seen[q][w] = committed
      BY <2>0, <2>6 DEF RAccept, View, Holding, LoanInv, Frozen
    <3> QED
      BY <2>0, <2>6, <3>1 DEF RAccept, View, Holding, Whole, writer, ReaderType
  <2>7. CASE RStale(q)
    BY <2>0, <2>7 DEF RStale, View, Holding, Whole, writer, ReaderType
  <2>8. CASE RForward(q)
    BY <2>0, <2>8 DEF RForward, View, Holding, Whole, writer, ReaderType
  <2>9. ASSUME NEW w \in Words, RLoad(q, w) PROVE View(q)'
    BY <2>0, <2>9 DEF RLoad, View, Holding, Whole, writer, ReaderType
  <2> QED
    BY <2>1, <2>2, <2>3, <2>4, <2>5, <2>6, <2>7, <2>8, <2>9 DEF Reader
<1> QED
  BY <1>3, <1>4, <1>5

\* The writer stays out of a lent slot, so it disturbs no reader that holds it.
LEMMA LoanWriter ==
    ASSUME LoanInv, Writer
    PROVE  /\ lent' # {} => wpc' = "idle" /\ ~ Odd(gen') /\ committed' # 0
           /\ \A r \in Tenants : View(r)'
<1>1. WriterType /\ ReaderType /\ Progress
  BY TypeHalves DEF LoanInv
<1>2. UNCHANGED reader
  BY DEF Writer, WBegin, WHead, WDone, WEmpty, WFail, WWipeBegin, WWipeDone, WCrash,
         WCopy, WWipe
<1>3. lent = {}
  BY DEF LoanInv, Writer, WBegin, WHead, WDone, WEmpty, WFail, WWipeBegin, WWipeDone,
         WCrash, WCopy, WWipe
<1>4. \A r \in Tenants : View(r)'
  BY <1>2, <1>3 DEF LoanInv, View, Holding, Whole, reader
<1>5. lent' # {} => WDone
  BY <1>3 DEF Writer, WBegin, WHead, WDone, WEmpty, WFail, WWipeBegin, WWipeDone,
              WCrash, WCopy, WWipe
<1>6. WDone => wpc' = "idle" /\ ~ Odd(gen') /\ committed' # 0
  BY <1>1, WordFacts DEF WDone, Progress, Odd, WriterType
<1> QED
  BY <1>4, <1>5, <1>6

LEMMA LoanInvInit == Init => LoanInv
BY InitTypes, WordFacts, SlotAssumption
   DEF Init, LoanInv, Frozen, Progress, View, Holding, Whole, Blank

LEMMA LoanInvStep == LoanInv /\ [Next]_vars => LoanInv'
<1> SUFFICES ASSUME LoanInv, [Next]_vars PROVE LoanInv'
  OBVIOUS
<1>1. TypeOK' /\ Frozen' /\ Progress'
  BY TypeHalves, NextTypes, ProgressStep DEF LoanInv
<1>2. /\ lent' # {} => wpc' = "idle" /\ ~ Odd(gen') /\ committed' # 0
      /\ \A r \in Tenants : View(r)'
  <2>1. CASE Writer
    BY <2>1, LoanWriter
  <2>2. ASSUME NEW q \in Readers, Reader(q)
        PROVE  lent' # {} => wpc' = "idle" /\ ~ Odd(gen') /\ committed' # 0
    <3>1. UNCHANGED writer /\ lent' \subseteq lent
      BY <2>2, LoanReader DEF Reader, RBegin, RReject, RCopied, RViewed, RRecord,
                              RAccept, RStale, RForward, RLoad
    <3> QED
      BY <3>1 DEF LoanInv, writer, Odd
  <2>3. CASE UNCHANGED vars
    BY <2>3 DEF LoanInv, View, Holding, Whole, vars, writer, reader, Odd
  <2> QED
    BY <2>1, <2>2, <2>3, LoanReader DEF Next
<1>3. lent' \subseteq Lessees
  <2>1. lent' \subseteq lent \/ lent' = Lessees
    BY DEF Next, vars, Writer, WBegin, WHead, WDone, WEmpty, WFail, WWipeBegin, WWipeDone,
           WCrash, WCopy, WWipe, Reader, RBegin, RReject, RCopied, RViewed,
           RRecord, RAccept, RStale, RForward, RLoad
  <2> QED
    BY <2>1 DEF LoanInv
<1> QED
  BY <1>1, <1>2, <1>3 DEF LoanInv

\* The slot a reader holds a loan on is quiet: no write is under way and the
\* generation is the one the reader noted, from delivery to release.
THEOREM SlotLentIsQuiet == Spec => []LentIsQuiet
<1>1. LoanInv => LentIsQuiet
  BY DEF LoanInv, LentIsQuiet, View, TypeOK
<1>2. Spec => []LentIsQuiet
  BY <1>1, LoanInvInit, LoanInvStep, PTL DEF Spec
<1> QED
  BY <1>2

\* Neither a copied frame nor what the plugins saw through a lent view ever has
\* pixels of two frames, for any readers of either kind side by side, any
\* payload and any sequence of failed and killed writes.
THEOREM SlotNeverTorn == Spec => []NoTornFrame
<1>1. CopyInv /\ LoanInv => NoTornFrame
  BY SlotAssumption DEF CopyInv, Copies, LoanInv, View, NoTornFrame
<1>2. Spec => []CopyInv
  BY CopyInvInit, CopyInvStep, PTL DEF Spec
<1>3. Spec => []LoanInv
  BY LoanInvInit, LoanInvStep, PTL DEF Spec
<1> QED
  BY <1>1, <1>2, <1>3, PTL

\* With exact loans a reader is never refused a frame it was sent, nor drops a
\* batch because the slot was overwritten under it.
THEOREM SlotLentIsReadable == Spec => LentIsReadable
<1>1. ASSUME LoanInv
      PROVE  \A r \in Tenants : ~ (RReject(r) \/ RStale(r))
  <2> TAKE r \in Tenants
  <2>1. View(r) /\ Frozen
    BY <1>1 DEF LoanInv
  <2>2. ~ RStale(r)
    BY <2>1 DEF RStale, View, Holding
  <2>3. ~ RReject(r)
    <3>1. CASE pc[r] = "reading" /\ left[r] = {}
      <4>1. gen = g[r] /\ ~ Odd(gen) /\ committed # 0
        BY <1>1, <2>1, <3>1 DEF View, Holding, LoanInv
      <4>2. seen[r][Header] = committed
        BY <2>1, <3>1, <4>1, WordFacts DEF View, Frozen
      <4> QED
        BY <4>1, <4>2 DEF RReject
    <3> QED
      BY <3>1 DEF RReject
  <2> QED
    BY <2>2, <2>3
<1>2. Spec => LentIsReadable
  BY <1>1, LoanInvInit, LoanInvStep, PTL DEF Spec, LentIsReadable
<1> QED
  BY <1>2

-----------------------------------------------------------------------------
(* Views without a loan: the re-check of the generation alone.             *)

\* What a reader whose noted generation is still the current one has seen of
\* the pixels is what the slot holds, unless that generation is a writer's.
Noted(r) ==
    pc[r] = "using" =>
        /\ g[r] <= gen
        /\ gen = g[r] /\ ~ Odd(gen) =>
               \A w \in Pixels \ left[r] : seen[r][w] = body[w]

RecheckInv == TypeOK /\ Frozen /\ Progress /\ \A r \in Readers : Noted(r)

LEMMA NotedSurvivesWriter ==
    ASSUME NEW r \in Readers, WriterType, ReaderType, Progress, Noted(r), Writer
    PROVE  Noted(r)'
<1>1. UNCHANGED reader
  BY DEF Writer, WBegin, WHead, WDone, WEmpty, WFail, WWipeBegin, WWipeDone, WCrash,
         WCopy, WWipe
<1>2. \/ gen' = gen + 1 \/ gen' = gen + 2
      \/ gen' = gen /\ UNCHANGED body
      \/ gen' = gen /\ Odd(gen)
  BY DEF Writer, WBegin, WHead, WDone, WEmpty, WFail, WWipeBegin, WWipeDone, WCrash,
         WCopy, WWipe, Progress
<1> QED
  BY <1>1, <1>2 DEF Noted, reader, WriterType, ReaderType

LEMMA NotedReader ==
    ASSUME NEW r \in Readers, WriterType, ReaderType, Noted(r),
           NEW q \in Readers, Reader(q)
    PROVE  Noted(r)'
<1>1. UNCHANGED writer
  BY DEF Reader, RBegin, RReject, RCopied, RViewed, RRecord, RAccept, RStale,
         RForward, RLoad
<1>2. CASE q # r
  <2>1. /\ pc'[r] = pc[r] /\ g'[r] = g[r] /\ left'[r] = left[r]
        /\ seen'[r] = seen[r]
    BY <1>2 DEF Reader, RBegin, RReject, RCopied, RViewed, RRecord, RAccept,
                RStale, RForward, RLoad, ReaderType
  <2> QED
    BY <1>1, <2>1 DEF Noted, writer
<1>3. CASE q = r
  <2>1. CASE RRecord(r)
    BY <1>1, <2>1 DEF RRecord, Noted, ReaderType, WriterType, writer
  <2>2. ASSUME NEW w \in Words, RLoad(r, w) PROVE Noted(r)'
    BY <1>1, <2>2, WordFacts DEF RLoad, Noted, ReaderType, WriterType, writer
  <2>3. CASE ~ RRecord(r) /\ ~ \E w \in Words : RLoad(r, w)
    <3>1. pc'[r] # "using"
      BY <1>3, <2>3 DEF Reader, RBegin, RReject, RCopied, RViewed, RAccept,
                        RStale, RForward, ReaderType
    <3> QED
      BY <3>1 DEF Noted
  <2> QED
    BY <2>1, <2>2, <2>3
<1> QED
  BY <1>2, <1>3

LEMMA RecheckInvInit == Init => RecheckInv
<1> SUFFICES ASSUME Init PROVE RecheckInv
  OBVIOUS
<1>1. TypeOK /\ Frozen /\ Progress
  BY LoanInvInit DEF LoanInv
<1>2. \A r \in Readers : Noted(r)
  BY DEF Init, Noted
<1> QED
  BY <1>1, <1>2 DEF RecheckInv

LEMMA RecheckInvStep == RecheckInv /\ [Next]_vars => RecheckInv'
<1> SUFFICES ASSUME RecheckInv, [Next]_vars PROVE RecheckInv'
  OBVIOUS
<1>1. WriterType /\ ReaderType
  BY TypeHalves DEF RecheckInv
<1>2. TypeOK' /\ Frozen' /\ Progress'
  BY <1>1, NextTypes, ProgressStep DEF RecheckInv
<1>3. ASSUME NEW r \in Readers PROVE Noted(r)'
  <2>1. CASE Writer
    BY <1>1, <2>1, NotedSurvivesWriter DEF RecheckInv
  <2>2. CASE \E q \in Readers : Reader(q)
    BY <1>1, <2>2, NotedReader DEF RecheckInv
  <2>3. CASE UNCHANGED vars
    BY <2>3 DEF RecheckInv, vars, writer, reader, Noted
  <2> QED
    BY <2>1, <2>2, <2>3 DEF Next
<1> QED
  BY <1>2, <1>3 DEF RecheckInv

\* Without a loan the re-check after the chain is enough whenever the generation
\* the view was noted under is even and its write did not fail: the pixels the
\* plugins saw are those of one frame, whatever was written in between.
THEOREM SlotRecheckSuffices == Spec => RecheckCatchesFinishedWrites
<1>1. ASSUME RecheckInv, NEW r \in Readers,
             RAccept(r), ~ Odd(g[r]), committed # 0
      PROVE  \A v, w \in Pixels : seen[r][v] = seen[r][w]
  <2>1. Noted(r) /\ Frozen
    BY <1>1 DEF RecheckInv
  <2>2. pc[r] = "using" /\ left[r] = {} /\ gen = g[r]
    BY <1>1 DEF RAccept
  <2>3. \A w \in Pixels : seen[r][w] = body[w]
    BY <1>1, <2>1, <2>2 DEF Noted
  <2>4. \A w \in Pixels : body[w] = committed
    BY <1>1, <2>1, <2>2, WordFacts DEF Frozen
  <2> QED
    BY <2>3, <2>4
<1>2. ASSUME RecheckInv
      PROVE  \A r \in Readers :
                 RAccept(r) /\ ~ Odd(g[r]) /\ committed # 0 =>
                     \A v, w \in Pixels : seen[r][v] = seen[r][w]
  BY <1>1, <1>2
<1>3. Spec => RecheckCatchesFinishedWrites
  BY <1>2, RecheckInvInit, RecheckInvStep, PTL
     DEF Spec, RecheckCatchesFinishedWrites
<1> QED
  BY <1>3
=============================================================================
