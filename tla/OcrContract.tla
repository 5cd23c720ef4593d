----------------------------- MODULE OcrContract -----------------------------
(***************************************************************************)
(* What the OCR pipeline promises its tenant about each document, whatever *)
(* requests, attempts and tasks lie behind it:                             *)
(*   - a document is submitted once, completes at most once, and what is   *)
(*     complete stays complete until it is discarded;                      *)
(*   - its purchase draft comes into being with its completion, at most    *)
(*     one of them;                                                        *)
(*   - its job charges the quota at most once, and for a completed         *)
(*     document.                                                           *)
(* Only a failed document can be opened again.                             *)
(***************************************************************************)
CONSTANT Docs

VARIABLES
    phase,    \* "absent", "open", "done", "failed" or "gone"
    drafted,  \* documents that have a draft
    charged   \* documents whose job has charged the quota

vars == <<phase, drafted, charged>>

Init ==
    /\ phase = [d \in Docs |-> "absent"]
    /\ drafted = {}
    /\ charged = {}

Move(d, from, to) ==
    /\ phase[d] \in from
    /\ phase' = [phase EXCEPT ![d] = to]

Submit(d) == Move(d, {"absent"}, "open") /\ UNCHANGED <<drafted, charged>>

\* An example, complete from the start.
Simulate(d) == Move(d, {"absent"}, "done") /\ UNCHANGED <<drafted, charged>>

Complete(d) ==
    /\ Move(d, {"open"}, "done")
    /\ d \notin drafted
    /\ drafted' \in {drafted, drafted \union {d}}
    /\ UNCHANGED charged

Fail(d) == Move(d, {"open"}, "failed") /\ UNCHANGED <<drafted, charged>>

Reopen(d) == Move(d, {"failed"}, "open") /\ UNCHANGED <<drafted, charged>>

Discard(d) == Move(d, {"open", "done", "failed"}, "gone") /\ UNCHANGED <<drafted, charged>>

Charge(d) ==
    /\ phase[d] \in {"done", "gone"}
    /\ d \notin charged
    /\ charged' = charged \union {d}
    /\ UNCHANGED <<phase, drafted>>

RemoveDraft(d) ==
    /\ d \in drafted
    /\ drafted' = drafted \ {d}
    /\ UNCHANGED <<phase, charged>>

Next ==
    \E d \in Docs :
       \/ Submit(d) \/ Simulate(d) \/ Complete(d) \/ Fail(d) \/ Reopen(d) \/ Discard(d)
       \/ Charge(d) \/ RemoveDraft(d)

Spec == Init /\ [][Next]_vars
=============================================================================
