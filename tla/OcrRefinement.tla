---------------------------- MODULE OcrRefinement ----------------------------
(***************************************************************************)
(* The pipeline of OcrJobs implements OcrContract, when no statement is    *)
(* reported as failed after it was applied.                                *)
(***************************************************************************)
EXTENDS OcrJobs

\* The phase a client of the API sees behind the row's status.
PhaseOf(s) ==
    CASE s = "none" -> "absent"
      [] s \in Open -> "open"
      [] s \in {"processed", "simulated"} -> "done"
      [] s = "failed" -> "failed"
      [] s = "deleted" -> "gone"

Contract == INSTANCE OcrContract WITH
    Docs <- Runs,
    phase <- [r \in Runs |-> PhaseOf(status[r])],
    drafted <- {p.run : p \in purchases},
    charged <- {r \in Runs : usage["job"][r] > 0}

\* Every step of every handler, job attempt, fallback and delete is a step of
\* the contract or invisible to it: completion, draft and link appear together,
\* a completed document never fails or reopens, and its job charges it once.
ImplementsContract == Contract!Spec
=============================================================================
