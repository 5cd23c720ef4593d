----------------------------- MODULE OcrRecovery -----------------------------
(***************************************************************************)
(* The OCR pipeline across restarts of the process: OcrJobs, a crash that  *)
(* loses every task, and the cron of ocr.scheduler.ts that looks for the   *)
(* rows the lost tasks left open.                                          *)
(*                                                                         *)
(* Time appears only as the set `stale' of open rows whose updatedAt is    *)
(* older than STUCK_THRESHOLD_MS.  Every write of a row takes it out of    *)
(* the set.  A row of a living job never enters it: between two writes of  *)
(* the row a job waits at most 15 s of delay, 30 s of download, 90 s of    *)
(* Gemini and the transaction's timeout, well below the threshold of       *)
(* ten minutes.                                                            *)
(***************************************************************************)
EXTENDS OcrJobs, FiniteSetsExt

CONSTANTS
    MaxAutoRetries,  \* MAX_AUTO_RETRIES of the scheduler
    BatchSize,       \* BATCH_SIZE of the scheduler
    MaxCrashes       \* bounds the restarts and aborted sweeps explored

ASSUME RecoveryAssumption ==
    MaxAutoRetries \in Nat /\ BatchSize \in Nat \ {0} /\ MaxCrashes \in Nat

VARIABLES
    stale,    \* open rows not updated for STUCK_THRESHOLD_MS
    sweep,    \* the rows recoverStuckJobs has read and not yet handled
    crashes   \* restarts and aborted sweeps so far

recoveryVars == <<vars, stale, sweep, crashes>>

RecoveryInit ==
    /\ Init
    /\ stale = {}
    /\ sweep = {}
    /\ crashes = 0

-----------------------------------------------------------------------------
\* A row of the snapshot: retryCount is used after the awaits of earlier rows.
SweepRow(r) == [run |-> r, retryCount |-> retryCount[r]]

\* Rows a step has written: Prisma sets updatedAt also when nothing differs, as
\* when a pending row is set to pending again.
Written ==
    {r \in Runs : \/ status'[r] # status[r]
                  \/ retryCount'[r] # retryCount[r]
                  \/ purchaseId'[r] # purchaseId[r]}
    \union {task[t].run : t \in {u \in Tasks : At(u, "cas") /\ task'[u].pc = "acquire"}}

Stamp == stale' = stale \ Written /\ UNCHANGED <<sweep, crashes>>

JobStep == Next /\ Stamp

\* Labels of a task that wrote the row moments ago, or is about to.
\* Mutant: a threshold shorter than a job's own waits.
Busy_None == {}
Busy == Executing \union {"acquire"}

\* Ten minutes pass for a row nobody is working on.
Age(r) ==
    /\ status[r] \in Open
    /\ \A t \in Tasks : ~(task[t].run = r /\ task[t].pc \in Busy)
    /\ stale' = stale \union {r}
    /\ UNCHANGED <<vars, sweep, crashes>>

\* The process restarts: every task, delay, in-flight storage delete and sweep
\* is lost; PostgreSQL rolls an uncommitted transaction back.
Crash ==
    /\ crashes < MaxCrashes
    /\ crashes' = crashes + 1
    /\ task' = [t \in Tasks |-> IdleTask]
    /\ deleting' = {}
    /\ sweep' = {}
    /\ UNCHANGED <<status, retryCount, purchaseId, purchases, files, usage, stale>>

-----------------------------------------------------------------------------
\* OcrScheduler.recoverStuckJobs.

\* Mutant: rows lost before their job locked them are not looked for.
Stuck_ProcessingOnly == {r \in stale : status[r] = "processing"}
Stuck == {r \in stale : status[r] \in Open}

\* findMany: at most BATCH_SIZE rows.  That they are the oldest ones is
\* abstracted to any choice among the stuck ones.
SweepStart ==
    /\ sweep = {}
    /\ Stuck # {}
    /\ \E batch \in SUBSET Stuck :
         /\ Cardinality(batch) = Min({BatchSize, Cardinality(Stuck)})
         /\ sweep' = {SweepRow(r) : r \in batch}
    /\ UNCHANGED <<vars, stale, crashes>>

CanAutoReset(s) == s.retryCount < MaxAutoRetries

\* One iteration of the loop: an update by id, whatever the status is by now.
\* It throws when the row is gone, which ends the sweep.
SweepUpdate(s) ==
    /\ s \in sweep
    /\ IF Exists(s.run)
       THEN /\ IF CanAutoReset(s)
               THEN /\ status' = [status EXCEPT ![s.run] = "pending"]
                    /\ retryCount' = [retryCount EXCEPT ![s.run] = @ + 1]
               ELSE /\ status' = [status EXCEPT ![s.run] = "failed"]
                    /\ UNCHANGED retryCount
            /\ stale' = stale \ {s.run}
            /\ sweep' = sweep \ {s}
       ELSE sweep' = {} /\ UNCHANGED <<status, retryCount, stale>>
    /\ UNCHANGED <<purchaseId, purchases, files, deleting, usage, task, crashes>>

\* The database refuses a statement of the sweep.
SweepAbort ==
    /\ sweep # {}
    /\ crashes < MaxCrashes
    /\ crashes' = crashes + 1
    /\ sweep' = {}
    /\ UNCHANGED <<vars, stale>>

Sweep == SweepStart \/ \E s \in sweep : SweepUpdate(s)

-----------------------------------------------------------------------------
RecoveryNext ==
    \/ JobStep
    \/ \E r \in Runs : Age(r)
    \/ Crash
    \/ Sweep
    \/ SweepAbort

RecoverySpec == RecoveryInit /\ [][RecoveryNext]_recoveryVars

\* Besides the tasks' progress: time passes, and the cron fires every five
\* minutes.  Crashes are not fair.
RecoveryFairness ==
    /\ \A t \in Tasks : WF_recoveryVars(Work(t) /\ Stamp)
    /\ \A r \in Runs : WF_recoveryVars(r \notin stale /\ Age(r))
    /\ WF_recoveryVars(Sweep)

FairRecoverySpec == RecoverySpec /\ RecoveryFairness

=============================================================================
