----------------------------- MODULE AtomicSlot -----------------------------
(***************************************************************************)
(* What one seqlock slot of a frame ring promises to the readers that copy *)
(* the frame out: it behaves like a register holding one whole frame.  The *)
(* writer replaces the frame in one step, or empties the slot when a write *)
(* fails; a reader that is not told "no frame" gets the frame the register *)
(* holds at some instant of its read.                                      *)
(***************************************************************************)
EXTENDS Naturals

CONSTANT Readers

VARIABLES
    value,  \* number of the frame in the slot; 0 when it is empty
    got     \* got[r]: the last frame reader r copied out, 0 if none

Init == value = 0 /\ got = [r \in Readers |-> 0]

Publish == /\ value' \in Nat \ {0}
           /\ value' > value \/ value = 0
           /\ UNCHANGED got

Empty == value' = 0 /\ UNCHANGED got

Take(r) == /\ value # 0
           /\ got' = [got EXCEPT ![r] = value]
           /\ UNCHANGED value

Next == Publish \/ Empty \/ \E r \in Readers : Take(r)

Spec == Init /\ [][Next]_<<value, got>>
=============================================================================
