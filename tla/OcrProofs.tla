------------------------------ MODULE OcrProofs ------------------------------
(***************************************************************************)
(* Proofs about OcrJobs and OcrRecovery, for every number of documents,    *)
(* tasks, attempts and restarts.                                           *)
(***************************************************************************)
EXTENDS OcrRefinement, OcrRecovery, FiniteSetTheorems, TLAPS

TypeInv == TypeOK /\ ServesRun

\* What a task may become in a step without breaking the types.
Sound(s) ==
    /\ s \in TaskStates
    /\ s.pc # "idle" => s.run \in Runs
    /\ s.pc = "delay" => s.attempt + 1 < MaxRetries

\* A task that becomes a sound state keeps the tasks' part of the types.
LEMMA BecomeTypes ==
  ASSUME TypeInv, NEW t \in Tasks, NEW s, Sound(s), Become(t, s)
  PROVE  task' \in [Tasks -> TaskStates] /\ ServesRun'
<1>1. \A u \in Tasks : task'[u] = IF u = t THEN s ELSE task[u]
  BY DEF TypeInv, TypeOK, Become
<1>2. task' \in [Tasks -> TaskStates]
  BY DEF TypeInv, TypeOK, Become, Sound
<1>3. ServesRun'
  BY <1>1 DEF TypeInv, ServesRun, Sound, WillRetry
<1> QED
  BY <1>2, <1>3

\* Every state of a task is sound, and stays so at any label but two.
LEMMA TaskSound ==
  ASSUME TypeInv, NEW t \in Tasks
  PROVE  /\ Sound(IdleTask)
         /\ Sound(task[t])
         /\ task[t].pc # "idle" =>
              \A l \in Labels \ {"delay"} : Sound([task[t] EXCEPT !.pc = l])
         /\ \A r \in Runs, l \in Labels \ {"delay"} :
              Sound([IdleTask EXCEPT !.pc = l, !.run = r])
<1>1. Sound(IdleTask)
  BY BoundsAssumption DEF Sound, IdleTask, TaskStates, Labels, Statuses, Stored
<1>2. Sound(task[t])
  BY DEF TypeInv, TypeOK, ServesRun, WillRetry, Sound
<1>3. ASSUME task[t].pc # "idle", NEW l \in Labels \ {"delay"}
      PROVE  Sound([task[t] EXCEPT !.pc = l])
  BY <1>2, <1>3 DEF Sound, TaskStates
<1>4. ASSUME NEW r \in Runs, NEW l \in Labels \ {"delay"}
      PROVE  Sound([IdleTask EXCEPT !.pc = l, !.run = r])
  BY <1>1, <1>4 DEF Sound, IdleTask, TaskStates
<1> QED
  BY <1>1, <1>2, <1>3, <1>4

RowTypes ==
    /\ status \in [Runs -> Statuses]
    /\ retryCount \in [Runs -> Nat]
    /\ purchaseId \in [Runs -> SUBSET Purchases]
    /\ purchases \subseteq Purchases
    /\ files \subseteq Runs
    /\ deleting \subseteq Runs
    /\ usage \in [Writers -> [Runs \union {NoRun} -> Nat]]

\* The types hold at first.
LEMMA TypeInit == Init => TypeInv
<1> SUFFICES ASSUME Init PROVE TypeInv
  OBVIOUS
<1>1. IdleTask \in TaskStates
  BY BoundsAssumption DEF IdleTask, TaskStates, Labels, Statuses, Stored
<1>2. RowTypes
  BY DEF Init, RowTypes, Statuses
<1> QED
  BY <1>1, <1>2 DEF Init, TypeInv, TypeOK, ServesRun, IdleTask, RowTypes

\* The requests keep the types.
LEMMA TypeRequest ==
  ASSUME TypeInv, NEW t \in Tasks, Request(t)
  PROVE  TypeInv'
<1> DEFINE Good == task' \in [Tasks -> TaskStates] /\ ServesRun'
<1> USE DEF rest, TypeInv, TypeOK
<1>1. ASSUME NEW r \in Runs, Upload(t, r) PROVE TypeInv'
  <2>1. Good
    BY <1>1, BecomeTypes, TaskSound DEF Upload, Begin, Labels
  <2> QED
    BY <1>1, <2>1 DEF Upload
<1>2. ASSUME NEW r \in Runs, Retry(t, r) PROVE TypeInv'
  <2> DEFINE s == [IdleTask EXCEPT !.pc = "quota", !.run = r, !.seen = status[r]]
  <2>0. status[r] \in Statuses
    OBVIOUS
  <2>1. Sound(s)
    <3>1. IdleTask \in TaskStates
      BY TaskSound DEF Sound
    <3>2. s \in TaskStates /\ s.pc = "quota" /\ s.run = r
      BY <2>0, <3>1 DEF TaskStates, Labels
    <3> QED
      BY <3>2 DEF Sound
  <2>2. Good
    BY <1>2, <2>1, BecomeTypes DEF Retry
  <2> QED
    BY <1>2, <2>2 DEF Retry
<1>3. ASSUME NEW r \in Runs, Delete(t, r) PROVE TypeInv'
  <2>1. Good
    BY <1>3, BecomeTypes, TaskSound DEF Delete, Begin, Labels
  <2> QED
    BY <1>3, <2>1 DEF Delete
<1>4. ASSUME NEW r \in Runs, Simulate(t, r) PROVE TypeInv'
  <2>1. Good
    <3>1. CASE UNCHANGED task
      BY <3>1 DEF ServesRun, WillRetry
    <3>2. CASE Begin(t, r, "simulated")
      BY <3>2, BecomeTypes, TaskSound DEF Begin, Labels
    <3> QED
      BY <1>4, <3>1, <3>2 DEF Simulate
  <2> QED
    BY <1>4, <2>1 DEF Simulate, Statuses, Stored
<1>5. ASSUME NEW r \in Runs, Approve(t, r) PROVE TypeInv'
  <2>1. Good
    BY <1>5, BecomeTypes, TaskSound DEF Approve, Begin, Labels
  <2> QED
    BY <1>5, <2>1 DEF Approve
<1> QED
  BY <1>1, <1>2, <1>3, <1>4, <1>5 DEF Request

\* A record is a number more in its writer's column, and nothing else.
LEMMA ChargeAt ==
  ASSUME TypeInv, NEW w \in Writers, NEW r \in Runs \union {NoRun}, Charge(w, r)
  PROVE  /\ usage' \in [Writers -> [Runs \union {NoRun} -> Nat]]
         /\ usage'[w][r] = usage[w][r] + 1
         /\ \A v \in Writers, q \in Runs \union {NoRun} :
              (v # w \/ q # r) => usage'[v][q] = usage[v][q]
<1>1. usage \in [Writers -> [Runs \union {NoRun} -> Nat]]
  BY DEF TypeInv, TypeOK
<1>2. usage' = [usage EXCEPT ![w] = [usage[w] EXCEPT ![r] = usage[w][r] + 1]]
  BY DEF Charge
<1>3. [usage[w] EXCEPT ![r] = usage[w][r] + 1] \in [Runs \union {NoRun} -> Nat]
  BY <1>1
<1> QED
  BY <1>1, <1>2, <1>3

\* The steps of work in progress keep the types.
LEMMA TypeWork ==
  ASSUME TypeInv, NEW t \in Tasks, Work(t)
  PROVE  TypeInv'
<1> DEFINE Good == task' \in [Tasks -> TaskStates] /\ ServesRun'
           r == task[t].run
<1>0. task[t].pc # "idle" /\ r \in Runs
  BY DEF Work, StoreFile, CreateRun, CheckQuota, Reopen, Erase, Acquire, Extract, Find, Commit,
         RecordUsage, CountFailure, NextAttempt, MarkFailed, Remove, RecordLegacyUsage, At, TypeInv, ServesRun
<1>a. Sound(IdleTask) /\ Sound(task[t])
  BY TaskSound
<1>b. ASSUME End(t) PROVE Good
  BY <1>a, <1>b, BecomeTypes DEF End
<1>c. ASSUME NEW l \in Labels \ {"delay"}, Goto(t, l) PROVE Good
  BY <1>0, <1>c, TaskSound, BecomeTypes DEF Goto
<1> USE DEF TypeInv, TypeOK
<1>1. CASE StoreFile(t)
  BY <1>0, <1>1, <1>b, <1>c DEF StoreFile, Labels
<1>2. CASE CreateRun(t)
  <2>1. \A small \in BOOLEAN : Sound([task[t] EXCEPT !.pc = "acquire", !.inline = small])
    BY <1>0, <1>a DEF Sound, TaskStates, Labels
  <2>2. Good
    BY <1>2, <1>b, <2>1, BecomeTypes DEF CreateRun
  <2> QED
    BY <1>0, <1>2, <2>2 DEF CreateRun, Statuses, Stored
<1>3. CASE CheckQuota(t)
  BY <1>3, <1>b, <1>c DEF CheckQuota, rest, Labels
<1>4. CASE Reopen(t)
  <2>1. Sound([task[t] EXCEPT !.pc = "acquire", !.seen = "none"])
    BY <1>a, <1>0 DEF Sound, TaskStates, Labels, Statuses
  <2>2. Good
    BY <1>4, <1>b, <2>1, BecomeTypes DEF Reopen
  <2> QED
    BY <1>0, <1>4, <2>2 DEF Reopen, Statuses, Stored
<1>5. CASE Erase(t)
  BY <1>0, <1>5, <1>b DEF Erase, DropRow, Statuses
<1>6. CASE Acquire(t)
  <2>1. Sound([task[t] EXCEPT !.inline = FALSE])
    BY <1>a DEF Sound, TaskStates
  <2>2. Good
    BY <1>6, <1>b, <1>c, <2>1, BecomeTypes DEF Acquire, NotLocked, Labels
  <2> QED
    BY <1>0, <1>6, <2>2 DEF Acquire, Lock, Statuses, Stored
<1>7. CASE Extract(t)
  BY <1>7, <1>c DEF Extract, Catch, rest, Labels
<1>8. CASE Find(t)
  <2>1. ASSUME NEW d \in SUBSET Purchases, NEW new \in BOOLEAN
        PROVE  Sound([task[t] EXCEPT !.pc = "commit", !.draft = d, !.creates = new])
    BY <1>a, <1>0 DEF Sound, TaskStates, Labels
  <2>2. Good
    BY <1>8, <1>c, <2>1, BecomeTypes DEF Find, Catch, Labels, Reusable
  <2> QED
    BY <1>8, <2>2 DEF Find, rest
<1>9. CASE Commit(t)
  <2>1. \A l \in {"mark", "count"} :
          Sound([task[t] EXCEPT !.pc = l, !.draft = {}, !.creates = FALSE])
    BY <1>a, <1>0 DEF Sound, TaskStates, Labels
  <2>2. Good
    BY <1>9, <1>c, <2>1, BecomeTypes DEF Commit, CatchCommit, Labels
  <2>3. task[t].draft \subseteq Purchases
    BY <1>a DEF Sound, TaskStates
  <2> QED
    <3>1. RowTypes'
      <4>1. usage' \in [Writers -> [Runs \union {NoRun} -> Nat]]
        BY <1>9 DEF Commit
      <4>2. /\ status' \in [Runs -> Statuses] /\ purchaseId' \in [Runs -> SUBSET Purchases]
            /\ purchases' \subseteq Purchases
        BY <1>0, <1>9, <2>3 DEF Commit, CommitWrites, Statuses, Stored, Purchases
      <4> QED
        BY <1>9, <4>1, <4>2 DEF Commit, RowTypes
    <3> QED
      BY <2>2, <3>1 DEF RowTypes
<1>10. CASE RecordUsage(t)
  <2>1. usage' \in [Writers -> [Runs \union {NoRun} -> Nat]]
    BY <1>0, <1>10, ChargeAt DEF RecordUsage, Writers
  <2> QED
    BY <1>0, <1>10, <1>b, <2>1 DEF RecordUsage
<1>11. CASE CountFailure(t)
  <2>1. WillRetry(t) => Sound([task[t] EXCEPT !.pc = "delay"])
    BY <1>a, <1>0 DEF Sound, TaskStates, Labels, WillRetry
  <2>2. Good
    BY <1>11, <1>b, <1>c, <2>1, BecomeTypes DEF CountFailure, Goto, Labels
  <2> QED
    <3>1. usage' \in [Writers -> [Runs \union {NoRun} -> Nat]]
      BY <1>11 DEF CountFailure
    <3>2. retryCount' \in [Runs -> Nat]
      BY <1>0, <1>11 DEF CountFailure
    <3> QED
      BY <1>11, <2>2, <3>1, <3>2 DEF CountFailure
<1>12. CASE NextAttempt(t)
  <2>1. Sound([task[t] EXCEPT !.pc = "core", !.attempt = @ + 1])
    <3>1. /\ task[t].attempt \in Nat /\ task[t].attempt + 1 < MaxRetries
          /\ task[t] \in TaskStates
      BY <1>a, <1>12, BoundsAssumption DEF NextAttempt, At, Sound, TaskStates
    <3>2. task[t].attempt + 1 \in 0 .. MaxRetries - 1
      BY <3>1, BoundsAssumption
    <3> QED
      BY <1>0, <3>1, <3>2 DEF Sound, TaskStates, Labels
  <2>2. Good
    BY <1>12, <2>1, BecomeTypes DEF NextAttempt
  <2> QED
    BY <1>12, <2>2 DEF NextAttempt, rest
<1>13. CASE MarkFailed(t)
  <2>1. Sound([task[t] EXCEPT !.pc = "acquire", !.inline = FALSE])
    BY <1>a, <1>0 DEF Sound, TaskStates, Labels
  <2>2. Good
    BY <1>13, <1>b, <2>1, BecomeTypes DEF MarkFailed, AfterMark
  <2> QED
    BY <1>0, <1>13, <2>2 DEF MarkFailed, Statuses, Stored
<1>14. CASE Remove(t)
  BY <1>0, <1>14, <1>b, <1>c DEF Remove, DropRow, Statuses, Labels
<1>15. CASE RecordLegacyUsage(t)
  <2>1. usage' \in [Writers -> [Runs \union {NoRun} -> Nat]]
    BY <1>0, <1>15, ChargeAt DEF RecordLegacyUsage, Writers
  <2> QED
    BY <1>0, <1>15, <1>b, <2>1 DEF RecordLegacyUsage
<1> QED
  BY <1>1, <1>2, <1>3, <1>4, <1>5, <1>6, <1>7, <1>8, <1>9, <1>10, <1>11, <1>12, <1>13, <1>14, <1>15
  DEF Work

\* Every step keeps the types.
LEMMA TypeStep == TypeInv /\ [Next]_vars => TypeInv'
<1> SUFFICES ASSUME TypeInv, [Next]_vars PROVE TypeInv'
  OBVIOUS
<1>1. ASSUME NEW r \in Runs, StorageDelete(r) PROVE TypeInv'
  BY <1>1 DEF StorageDelete, TypeInv, TypeOK, ServesRun, WillRetry
<1>2. ASSUME NEW r \in Runs, LegacyDelete(r) PROVE TypeInv'
  BY <1>2 DEF LegacyDelete, DropRow, Statuses, TypeInv, TypeOK, ServesRun, WillRetry
<1>3. ASSUME NEW p \in purchases, RemovePurchase(p) PROVE TypeInv'
  BY <1>3 DEF RemovePurchase, TypeInv, TypeOK, ServesRun, WillRetry
<1>4. CASE UNCHANGED vars
  BY <1>4 DEF vars, TypeInv, TypeOK, ServesRun, WillRetry
<1>5. CASE ChatCounted
  <2>1. usage' \in [Writers -> [Runs \union {NoRun} -> Nat]]
    BY <1>5, ChargeAt DEF ChatCounted, Writers
  <2> QED
    BY <1>5, <2>1 DEF ChatCounted, TypeInv, TypeOK, ServesRun, WillRetry
<1> QED
  BY <1>1, <1>2, <1>3, <1>4, <1>5, TypeRequest, TypeWork DEF Next

\* Type correctness: every row, record and task stays within its type, whatever
\* the number of attempts; in particular no job starts an attempt beyond
\* MAX_RETRIES, for which RETRY_DELAYS_MS has no delay.
THEOREM TypeCorrect == Spec => []TypeOK
<1>1. TypeInv => TypeOK
  BY DEF TypeInv
<1> QED
  BY TypeInit, TypeStep, <1>1, PTL DEF Spec

-----------------------------------------------------------------------------
\* Exclusive execution.

\* A step of task t changes no other task.
Others(t) == \A u \in Tasks \ {t} : task'[u] = task[u]

\* After Become the task has the state given, and the others are as before.
LEMMA BecomeAt ==
  ASSUME TypeInv, NEW t \in Tasks, NEW s, Become(t, s)
  PROVE  task'[t] = s /\ Others(t)
  BY DEF Become, TypeInv, TypeOK, Others

\* Goto moves the program counter alone: run, status read and locals stay.
LEMMA GotoAt ==
  ASSUME TypeInv, NEW t \in Tasks, NEW l \in Labels, Goto(t, l)
  PROVE  /\ Others(t)
         /\ task'[t].pc = l /\ task'[t].run = task[t].run /\ task'[t].seen = task[t].seen
         /\ task'[t].creates = task[t].creates /\ task'[t].draft = task[t].draft
         /\ task'[t].inline = task[t].inline /\ task'[t].attempt = task[t].attempt
<1>1. task[t] \in TaskStates
  BY DEF TypeInv, TypeOK
<1> QED
  BY <1>1, BecomeAt DEF Goto, TaskStates

\* A task that ends serves no run any more.
LEMMA EndAt ==
  ASSUME TypeInv, NEW t \in Tasks, End(t)
  PROVE  Others(t) /\ task'[t].pc = "idle" /\ task'[t].run = NoRun
  BY BecomeAt DEF End, IdleTask

\* A request that begins serves its run from the label it begins at.
LEMMA BeginAt ==
  ASSUME TypeInv, NEW t \in Tasks, NEW r, NEW l, Begin(t, r, l)
  PROVE  Others(t) /\ task'[t].pc = l /\ task'[t].run = r
<1> DEFINE s == [IdleTask EXCEPT !.pc = l, !.run = r]
<1>1. s.pc = l /\ s.run = r
  BY DEF IdleTask
<1>2. Become(t, s)
  BY DEF Begin
<1> QED
  BY <1>1, <1>2, BecomeAt

\* No task holds a lock at first.
LEMMA LockInit == Init => LockInv
  BY DEF Init, LockInv, LockHeld, SeenRetryable, UploadAlone, Exclusive, Holds, IdleTask, Executing

\* The states of a row whose job runs.
Held == {"processing", "processed", "deleted"}

\* What a step of task t that changes no status but run r's, and serves r if
\* any run, has to respect.
Respects(t, r) ==
    /\ \A q \in Runs \ {r} : status'[q] = status[q]
    /\ Others(t)
    /\ task'[t].run \in {r, NoRun}
    /\ \A u \in Tasks \ {t} : Holds(u, r) => status'[r] \in Held
    /\ \A u \in Tasks \ {t} : task[u].pc \in {"store", "create"} => task[u].run # r
    /\ task'[t].pc \in Executing =>
          /\ task'[t].run = r
          /\ status'[r] \in Held
          /\ \A u \in Tasks \ {t} : ~Holds(u, r)
    /\ task'[t].pc \in {"quota", "cas"} => task'[t].seen \in {"pending", "failed"}
    /\ task'[t].pc \in {"store", "create"} =>
          /\ task'[t].run = r
          /\ status'[r] = "none"
          /\ \A u \in Tasks \ {t} : task[u].run # r

\* A step that respects the run it touches keeps the lock invariant: every handler
\* and job step is shown to be such a step.
LEMMA LockKept ==
  ASSUME TypeInv, LockInv, NEW t \in Tasks, NEW r \in Runs, Respects(t, r)
  PROVE  LockInv'
<1>0. \A u \in Tasks : task[u].pc # "idle" => task[u].run \in Runs
  BY DEF TypeInv, ServesRun
<1>1. Others(t) /\ \A q \in Runs : q # r => status'[q] = status[q]
  BY DEF Respects
<1>2. ASSUME NEW u \in Tasks, u # t, task[u].pc \in Executing
      PROVE  status'[task[u].run] \in Held
  BY <1>0, <1>1, <1>2 DEF LockInv, LockHeld, Held, Holds, Executing, Respects
<1>3. ASSUME NEW u \in Tasks, u # t, task[u].pc \in {"store", "create"}
      PROVE  status'[task[u].run] = "none" /\ \A w \in Tasks \ {u} : task'[w].run # task[u].run
  BY <1>0, <1>1, <1>3, NoRunAssumption DEF LockInv, UploadAlone, Others, Respects
<1>4. LockHeld'
  BY <1>1, <1>2 DEF LockHeld, Held, Others, Respects
<1>5. SeenRetryable'
  BY DEF LockInv, SeenRetryable, Others, Respects
<1>6. UploadAlone'
  BY <1>1, <1>3 DEF UploadAlone, Others, Respects
<1>7. Exclusive'
  BY DEF LockInv, Exclusive, Holds, Others, Respects
<1> QED
  BY <1>4, <1>5, <1>6, <1>7 DEF LockInv

\* A request starts a task at a label before the lock.
LEMMA LockRequest ==
  ASSUME TypeInv, LockInv, NEW t \in Tasks, Request(t)
  PROVE  LockInv'
<1>1. PICK r \in Runs : Upload(t, r) \/ Retry(t, r) \/ Delete(t, r) \/ Simulate(t, r) \/ Approve(t, r)
  BY DEF Request
<1>2. ~Simulate(t, r) => UNCHANGED status
  BY <1>1 DEF Upload, Retry, Delete, Approve, rest
<1>0. Simulate(t, r) => ~Upload(t, r) /\ ~Retry(t, r) /\ ~Delete(t, r) /\ ~Approve(t, r)
  <2>1. Simulate(t, r) => status' # status
    BY DEF Simulate, FreshRun, TypeInv, TypeOK
  <2> QED
    BY <2>1 DEF Upload, Retry, Delete, Approve, rest
<1>3. CASE Upload(t, r)
  <2>1. Others(t) /\ task'[t].run = r /\ task'[t].pc = "store"
    BY <1>3, BeginAt DEF Upload
  <2>2. status[r] = "none" /\ \A u \in Tasks : task[u].run # r
    BY <1>3 DEF Upload, FreshRun
  <2>3. UNCHANGED status
    BY <1>0, <1>2, <1>3
  <2> QED
    BY <2>1, <2>2, <2>3, LockKept DEF Respects, Executing, Holds
<1>4. CASE Retry(t, r)
  <2>1. Others(t) /\ task'[t].run = r /\ task'[t].pc = "quota" /\ task'[t].seen = status[r]
    <3> DEFINE s == [IdleTask EXCEPT !.pc = "quota", !.run = r, !.seen = status[r]]
    <3>1. s.run = r /\ s.pc = "quota" /\ s.seen = status[r]
      BY DEF IdleTask
    <3>2. Become(t, s)
      BY <1>4 DEF Retry
    <3> HIDE DEF s
    <3> QED
      BY <3>1, <3>2, BecomeAt
  <2>2. status[r] \in {"pending", "failed"}
    BY <1>4 DEF Retry, Retryable
  <2>3. UNCHANGED status
    BY <1>0, <1>2, <1>4
  <2> QED
    BY <2>1, <2>2, <2>3, LockKept DEF Respects, Executing, Holds, LockInv, LockHeld, UploadAlone, Held
<1>5. CASE Delete(t, r)
  <2>1. Others(t) /\ task'[t].run = r /\ task'[t].pc = "erase"
    BY <1>5, BeginAt DEF Delete
  <2>2. status[r] # "none"
    BY <1>5 DEF Delete, Deletable, Exists, Stored
  <2>3. UNCHANGED status
    BY <1>0, <1>2, <1>5
  <2> QED
    BY <2>1, <2>2, <2>3, LockKept DEF Respects, Executing, Holds, LockInv, LockHeld, UploadAlone, Held
<1>6. CASE Approve(t, r)
  <2>1. Others(t) /\ task'[t].run = r /\ task'[t].pc = "approve"
    BY <1>6, BeginAt DEF Approve
  <2>2. status[r] # "none"
    BY <1>6 DEF Approve, Exists, Stored
  <2>3. UNCHANGED status
    BY <1>0, <1>2, <1>6
  <2> QED
    BY <2>1, <2>2, <2>3, LockKept DEF Respects, Executing, Holds, LockInv, LockHeld, UploadAlone, Held
<1>7. CASE Simulate(t, r)
  <2>1. \A q \in Runs \ {r} : status'[q] = status[q]
    BY <1>7 DEF Simulate, TypeInv, TypeOK
  <2>2. \A u \in Tasks : task[u].run # r
    BY <1>7 DEF Simulate, FreshRun
  <2>3. CASE Begin(t, r, "simulated")
    <3>1. Others(t) /\ task'[t].run = r /\ task'[t].pc = "simulated"
      BY <2>3, BeginAt
    <3> QED
      BY <2>1, <2>2, <3>1, LockKept DEF Respects, Executing, Holds
  <2>4. CASE UNCHANGED task
    BY <2>1, <2>2, <2>4 DEF LockInv, LockHeld, SeenRetryable, UploadAlone, Exclusive, Holds, Executing,
       TypeInv, ServesRun
  <2> QED
    BY <1>7, <2>3, <2>4 DEF Simulate
<1> QED
  BY <1>1, <1>3, <1>4, <1>5, <1>6, <1>7

\* The control flow of a request and the job it leaves behind.
Successors(l) ==
    CASE l = "store" -> {"create", "idle"}
      [] l \in {"create", "cas"} -> {"acquire", "idle"}
      [] l = "quota" -> {"cas", "idle"}
      [] l \in {"erase", "usage", "simulated", "approved"} -> {"idle"}
      [] l = "approve" -> {"approved", "idle"}
      [] l = "acquire" -> {"acquire", "core", "idle"}
      [] l = "core" -> {"find", "mark", "count"}
      [] l = "find" -> {"commit", "mark", "count"}
      [] l = "commit" -> {"usage", "mark", "count"}
      [] l = "count" -> {"delay", "mark", "idle"}
      [] l = "delay" -> {"core"}
      [] l = "mark" -> {"acquire", "idle"}
      [] OTHER -> {}

Moves(t) ==
    /\ task[t].pc # "idle" /\ task[t].run \in Runs
    /\ Others(t)
    /\ task'[t].pc \in Successors(task[t].pc)
    /\ IF task'[t].pc = "idle" THEN task'[t].run = NoRun ELSE task'[t].run = task[t].run

\* Every step of work in progress follows the control flow, serves the same run
\* until the task ends, and leaves the other tasks alone.
LEMMA ControlFlow ==
  ASSUME TypeInv, NEW t \in Tasks, Work(t)
  PROVE  Moves(t)
<1> DEFINE r == task[t].run
<1>0. task[t].pc # "idle" /\ r \in Runs /\ task[t] \in TaskStates
  BY DEF Work, StoreFile, CreateRun, CheckQuota, Reopen, Erase, Acquire, Extract, Find, Commit,
         RecordUsage, CountFailure, NextAttempt, MarkFailed, Remove, RecordLegacyUsage, At, TypeInv, TypeOK, ServesRun
<1>a. End(t) => Others(t) /\ task'[t].pc = "idle" /\ task'[t].run = NoRun
  BY EndAt
<1>b. \A l \in Labels : Goto(t, l) => Others(t) /\ task'[t].pc = l /\ task'[t].run = r
  BY GotoAt
<1>c. ASSUME NEW s, Become(t, s), s.run = r
      PROVE  Others(t) /\ task'[t].pc = s.pc /\ task'[t].run = r
  BY <1>c, BecomeAt
<1> USE DEF Moves, Successors, At, Labels
<1>1. CASE StoreFile(t)
  BY <1>0, <1>1, <1>a, <1>b DEF StoreFile
<1>2. CASE CreateRun(t)
  <2>1. ASSUME NEW small \in BOOLEAN,
               Become(t, [task[t] EXCEPT !.pc = "acquire", !.inline = small])
        PROVE  Others(t) /\ task'[t].pc = "acquire" /\ task'[t].run = r
    <3> DEFINE s == [task[t] EXCEPT !.pc = "acquire", !.inline = small]
    <3>1. s.pc = "acquire" /\ s.run = r /\ Become(t, s)
      BY <2>1, <1>0 DEF TaskStates
    <3> HIDE DEF s
    <3> QED
      BY <3>1, <1>c
  <2> QED
    BY <1>0, <1>2, <1>a, <2>1 DEF CreateRun
<1>3. CASE CheckQuota(t)
  BY <1>0, <1>3, <1>a, <1>b DEF CheckQuota
<1>4. CASE Reopen(t)
  <2> DEFINE s == [task[t] EXCEPT !.pc = "acquire", !.seen = "none"]
  <2>1. s.pc = "acquire" /\ s.run = r /\ task[t].pc = "cas" /\ (Become(t, s) \/ End(t))
    BY <1>0, <1>4 DEF Reopen, TaskStates
  <2> HIDE DEF s
  <2> QED
    BY <1>0, <1>a, <1>c, <2>1
<1>5. CASE Erase(t)
  BY <1>0, <1>5, <1>a DEF Erase
<1>6. CASE Acquire(t)
  <2> DEFINE s == [task[t] EXCEPT !.inline = FALSE]
  <2>1. s.pc = task[t].pc /\ s.run = r
    BY <1>0 DEF TaskStates
  <2>2. task[t].pc = "acquire" /\ (Goto(t, "core") \/ Become(t, s) \/ End(t))
    BY <1>6 DEF Acquire, NotLocked
  <2> HIDE DEF s
  <2> QED
    BY <1>0, <1>a, <1>b, <1>c, <2>1, <2>2
<1>7. CASE Extract(t)
  BY <1>0, <1>7, <1>b DEF Extract, Catch
<1>8. CASE Find(t)
  <2>1. ASSUME NEW d, NEW new,
               Become(t, [task[t] EXCEPT !.pc = "commit", !.draft = d, !.creates = new])
        PROVE  Others(t) /\ task'[t].pc = "commit" /\ task'[t].run = r
    <3> DEFINE s == [task[t] EXCEPT !.pc = "commit", !.draft = d, !.creates = new]
    <3>1. s.pc = "commit" /\ s.run = r /\ Become(t, s)
      BY <1>0, <2>1 DEF TaskStates
    <3> HIDE DEF s
    <3> QED
      BY <3>1, <1>c
  <2>2. \/ \E d, new : Become(t, [task[t] EXCEPT !.pc = "commit", !.draft = d, !.creates = new])
        \/ \E l \in {"mark", "count"} : Goto(t, l)
    BY <1>8 DEF Find, Catch
  <2> QED
    BY <1>0, <1>8, <1>b, <2>1, <2>2 DEF Find
<1>9. CASE Commit(t)
  <2> DEFINE s == [task[t] EXCEPT !.pc = IF task[t].inline THEN "mark" ELSE "count",
                                  !.draft = {}, !.creates = FALSE]
  <2>1. s.run = r /\ s.pc \in {"mark", "count"} /\ (CatchCommit(t) => Become(t, s))
    BY <1>0 DEF TaskStates, CatchCommit
  <2>2. task[t].pc = "commit" /\ (Goto(t, "usage") \/ Become(t, s))
    BY <1>9, <2>1 DEF Commit
  <2> HIDE DEF s
  <2> QED
    BY <1>0, <1>b, <1>c, <2>1, <2>2
<1>10. CASE RecordUsage(t)
  BY <1>0, <1>10, <1>a DEF RecordUsage
<1>11. CASE CountFailure(t)
  BY <1>0, <1>11, <1>a, <1>b DEF CountFailure
<1>12. CASE NextAttempt(t)
  <2> DEFINE s == [task[t] EXCEPT !.pc = "core", !.attempt = @ + 1]
  <2>1. s.pc = "core" /\ s.run = r /\ Become(t, s) /\ task[t].pc = "delay"
    BY <1>0, <1>12 DEF NextAttempt, TaskStates
  <2> HIDE DEF s
  <2> QED
    BY <1>0, <1>c, <2>1
<1>13. CASE MarkFailed(t)
  <2> DEFINE s == [task[t] EXCEPT !.pc = "acquire", !.inline = FALSE]
  <2>1. s.pc = "acquire" /\ s.run = r
    BY <1>0 DEF TaskStates
  <2>2. task[t].pc = "mark" /\ (Become(t, s) \/ End(t))
    BY <1>13 DEF MarkFailed, AfterMark
  <2> HIDE DEF s
  <2> QED
    BY <1>0, <1>a, <1>c, <2>1, <2>2
<1>14. CASE Remove(t)
  BY <1>0, <1>14, <1>a, <1>b DEF Remove
<1>15. CASE RecordLegacyUsage(t)
  BY <1>0, <1>15, <1>a DEF RecordLegacyUsage
<1> QED
  BY <1>1, <1>2, <1>3, <1>4, <1>5, <1>6, <1>7, <1>8, <1>9, <1>10, <1>11, <1>12, <1>13, <1>14, <1>15
  DEF Work

\* A step of work in progress takes the lock only of a row no job runs for, and
\* changes the status only of its own row.
LEMMA LockWork ==
  ASSUME TypeInv, LockInv, NEW t \in Tasks, Work(t)
  PROVE  LockInv'
<1> DEFINE r == task[t].run
<1>0. Moves(t) /\ status \in [Runs -> Statuses]
  BY ControlFlow DEF TypeInv, TypeOK
<1>a. \A u \in Tasks \ {t} : task[u].pc \in {"store", "create"} => task[u].run # r
  BY DEF LockInv, UploadAlone
<1>b. status[r] \in {"none", "pending", "failed"} \/ task[t].pc \in Executing =>
        \A u \in Tasks \ {t} : ~Holds(u, r)
  BY <1>0 DEF LockInv, LockHeld, Exclusive, Holds, Moves
<1>c. \A u \in Tasks : Holds(u, r) => status[r] \in Held
  BY DEF LockInv, LockHeld, Holds, Held
<1>d. task[t].pc \in Executing => status[r] \in Held
  BY DEF LockInv, LockHeld, Held
<1>e. task[t].pc \in {"store", "create"} =>
        status[r] = "none" /\ \A u \in Tasks \ {t} : task[u].run # r
  BY DEF LockInv, UploadAlone
<1> USE <1>0, <1>a, LockKept DEF Moves, Successors, Respects, Executing
<1>s. ASSUME UNCHANGED status, task'[t].pc = "core" => task[t].pc # "acquire",
             task'[t].pc = "cas" => task'[t].seen \in {"pending", "failed"}
      PROVE  LockInv'
  BY <1>b, <1>c, <1>d, <1>e, <1>s
<1>1. CASE StoreFile(t)
  BY <1>1, <1>s DEF StoreFile, At
<1>2. CASE CreateRun(t)
  <2>1. task[t].pc = "create" /\ (UNCHANGED status \/ status' = [status EXCEPT ![r] = "pending"])
    BY <1>2 DEF CreateRun, At
  <2> QED
    BY <1>b, <1>e, <2>1
<1>3. CASE CheckQuota(t)
  <2>1. Goto(t, "cas") => task'[t].seen = task[t].seen
    BY GotoAt DEF Labels
  <2>2. task[t].pc = "quota" /\ UNCHANGED status /\ (Goto(t, "cas") \/ End(t))
    BY <1>3 DEF CheckQuota, At, rest
  <2>3. End(t) => task'[t].pc = "idle"
    BY EndAt
  <2> QED
    BY <1>s, <2>1, <2>2, <2>3 DEF LockInv, SeenRetryable
<1>4. CASE Reopen(t)
  <2>1. task[t].pc = "cas"
    BY <1>4 DEF Reopen, At
  <2>2. CASE UNCHANGED status
    BY <1>s, <2>1, <2>2
  <2>3. CASE Reopenable(t) /\ status' = [status EXCEPT ![r] = "pending"]
    <3>1. status[r] \in {"pending", "failed"}
      BY <2>1, <2>3 DEF Reopenable, LockInv, SeenRetryable
    <3> QED
      BY <1>b, <2>1, <2>3, <3>1
  <2> QED
    BY <1>4, <2>2, <2>3 DEF Reopen
<1>5. CASE Erase(t)
  <2>1. task[t].pc = "erase" /\ (UNCHANGED status \/ status' = [status EXCEPT ![r] = "deleted"])
    BY <1>5 DEF Erase, DropRow, At
  <2> QED
    BY <1>c, <2>1 DEF Held
<1>6. CASE Acquire(t)
  <2>1. task[t].pc = "acquire"
    BY <1>6 DEF Acquire, At
  <2>2. CASE Claimable(r) /\ Lock(r)
    BY <1>b, <2>1, <2>2 DEF Claimable, Lock, Held
  <2>3. CASE UNCHANGED status /\ NotLocked(t)
    <3>1. task'[t].pc # "core"
      <4> DEFINE s == [task[t] EXCEPT !.inline = FALSE]
      <4>1. s.pc = "acquire" /\ (Become(t, s) \/ End(t))
        BY <2>1, <2>3 DEF NotLocked, TypeInv, TypeOK, TaskStates
      <4> HIDE DEF s
      <4> QED
        BY <4>1, BecomeAt, EndAt
    <3> QED
      BY <1>s, <2>1, <2>3, <3>1
  <2> QED
    BY <1>6, <2>2, <2>3 DEF Acquire
<1>7. CASE Extract(t)
  BY <1>7, <1>s DEF Extract, At, rest
<1>8. CASE Find(t)
  BY <1>8, <1>s DEF Find, At, rest
<1>9. CASE Commit(t)
  <2>1. task[t].pc = "commit" /\ (UNCHANGED status \/ status' = [status EXCEPT ![r] = "processed"])
    BY <1>9 DEF Commit, CommitWrites, At
  <2> QED
    BY <1>b, <1>d, <2>1 DEF Held
<1>10. CASE RecordUsage(t)
  BY <1>10, <1>s DEF RecordUsage, At
<1>11. CASE CountFailure(t)
  BY <1>11, <1>s DEF CountFailure, At
<1>12. CASE NextAttempt(t)
  BY <1>12, <1>s DEF NextAttempt, At, rest
<1>13. CASE MarkFailed(t)
  <2>1. task[t].pc = "mark" /\ (UNCHANGED status \/ status' = [status EXCEPT ![r] = "failed"])
    BY <1>13 DEF MarkFailed, At
  <2> QED
    BY <1>b, <2>1
<1>14. CASE Remove(t)
  <2>1. task[t].pc = "approve" /\ (UNCHANGED status \/ status' = [status EXCEPT ![r] = "deleted"])
    BY <1>14 DEF Remove, DropRow, At
  <2> QED
    BY <1>c, <2>1 DEF Held
<1>15. CASE RecordLegacyUsage(t)
  BY <1>15, <1>s DEF RecordLegacyUsage, At
<1> QED
  BY <1>1, <1>2, <1>3, <1>4, <1>5, <1>6, <1>7, <1>8, <1>9, <1>10, <1>11, <1>12, <1>13, <1>14, <1>15
  DEF Work

\* Deleting a row under a running job keeps the invariant: its job can only fail.
LEMMA LockStep == TypeInv /\ LockInv /\ [Next]_vars => LockInv'
<1> SUFFICES ASSUME TypeInv, LockInv, [Next]_vars PROVE LockInv'
  OBVIOUS
<1> USE DEF LockInv, LockHeld, SeenRetryable, UploadAlone, Exclusive, Holds, Executing
<1>1. ASSUME NEW r \in Runs, StorageDelete(r) PROVE LockInv'
  BY <1>1 DEF StorageDelete
<1>2. ASSUME NEW r \in Runs, LegacyDelete(r) PROVE LockInv'
  <2>1. \A q \in Runs : status'[q] = IF q = r THEN "deleted" ELSE status[q]
    BY <1>2 DEF LegacyDelete, DropRow, TypeInv, TypeOK
  <2>2. status[r] # "none" /\ UNCHANGED task
    BY <1>2 DEF LegacyDelete, Exists, Stored
  <2>3. \A t \in Tasks : task[t].pc # "idle" => task[t].run \in Runs
    BY DEF TypeInv, ServesRun
  <2> QED
    BY <2>1, <2>2, <2>3
<1>3. ASSUME NEW p \in purchases, RemovePurchase(p) PROVE LockInv'
  BY <1>3 DEF RemovePurchase
<1>4. CASE ChatCounted \/ UNCHANGED vars
  BY <1>4 DEF ChatCounted, vars
<1> QED
  BY <1>1, <1>2, <1>3, <1>4, LockRequest, LockWork DEF Next

\* Exclusive execution, for any number of requests racing for a document and
\* under every kind of fault.
THEOREM ExclusiveExecution == Spec => []Exclusive
<1>1. LockInv => Exclusive
  BY DEF LockInv
<1> QED
  BY TypeInit, TypeStep, LockInit, LockStep, <1>1, PTL DEF Spec

-----------------------------------------------------------------------------
\* One draft per document.

DraftInv == InsertsFirstDraft /\ OneDraftPerRun

\* There is no draft at first.
LEMMA DraftInit == Init => DraftInv
  BY DEF Init, DraftInv, InsertsFirstDraft, OneDraftPerRun, At, IdleTask

\* Steps that neither insert a draft nor prepare a transaction keep the invariant.
LEMMA DraftKept ==
  ASSUME DraftInv, purchases' \subseteq purchases,
         \A u \in Tasks : task'[u].pc = "commit" /\ task'[u].creates => task'[u] = task[u]
  PROVE  DraftInv'
  BY DEF DraftInv, InsertsFirstDraft, OneDraftPerRun, At

\* A transaction inserts a draft only where it found none, and its run's lock
\* keeps every other transaction of the run away meanwhile.
LEMMA DraftWork ==
  ASSUME TypeInv, LockInv, DraftInv, NEW t \in Tasks, Work(t)
  PROVE  DraftInv'
<1> DEFINE r == task[t].run
<1>0. Moves(t)
  BY ControlFlow
<1>1. CASE task'[t].pc # "commit" /\ UNCHANGED purchases
  BY <1>0, <1>1, DraftKept DEF Moves, Others
<1>2. CASE Find(t)
  <2>1. UNCHANGED purchases
    BY <1>2 DEF Find, rest
  <2>2. ASSUME task'[t].pc = "commit", task'[t].creates PROVE Reusable(r) = {}
    <3>1. ASSUME NEW d, Become(t, [task[t] EXCEPT !.pc = "commit", !.draft = d, !.creates = FALSE])
          PROVE  ~task'[t].creates
      <4> DEFINE s == [task[t] EXCEPT !.pc = "commit", !.draft = d, !.creates = FALSE]
      <4>1. ~s.creates /\ Become(t, s)
        BY <3>1 DEF TypeInv, TypeOK, TaskStates
      <4> HIDE DEF s
      <4> QED
        BY <4>1, BecomeAt
    <3>2. Catch(t) => task'[t].pc # "commit"
      BY GotoAt DEF Catch, Labels
    <3> QED
      BY <1>2, <2>2, <3>1, <3>2 DEF Find
  <2>3. Reusable(r) = {} => \A p \in purchases : p.run # r
    BY DEF Reusable, NumberOf
  <2>4. InsertsFirstDraft'
    BY <1>0, <2>1, <2>2, <2>3 DEF Moves, Others, DraftInv, InsertsFirstDraft, At
  <2> QED
    BY <2>1, <2>4 DEF DraftInv, OneDraftPerRun
<1>3. CASE Commit(t)
  <2>1. task[t].pc = "commit" /\ task'[t].pc # "commit"
    BY <1>0, <1>3 DEF Commit, At, Moves, Successors
  <2>2. CASE UNCHANGED purchases
    BY <1>1, <2>1, <2>2
  <2>3. CASE CommitWrites(t) /\ task[t].creates
    <3>1. PICK p \in [run : {r}, id : DraftIds] : purchases' = purchases \union {p}
      BY <2>3 DEF CommitWrites
    <3>2. \A q \in purchases : q.run # r
      BY <2>1, <2>3 DEF DraftInv, InsertsFirstDraft, At
    <3>3. \A u \in Tasks \ {t} : task[u].pc = "commit" => task[u].run # r
      BY <1>0, <2>1 DEF LockInv, Exclusive, Holds, Executing, Moves
    <3>4. InsertsFirstDraft'
      BY <1>0, <2>1, <3>1, <3>3 DEF DraftInv, InsertsFirstDraft, At, Moves, Others
    <3>5. OneDraftPerRun'
      BY <3>1, <3>2 DEF DraftInv, OneDraftPerRun
    <3> QED
      BY <3>4, <3>5 DEF DraftInv
  <2> QED
    BY <1>3, <2>2, <2>3 DEF Commit, CommitWrites
<1>4. CASE ~Find(t) /\ ~Commit(t)
  <2>1. UNCHANGED purchases
    BY <1>4 DEF Work, StoreFile, CreateRun, CheckQuota, Reopen, Erase, Acquire, Extract,
       RecordUsage, CountFailure, NextAttempt, MarkFailed, Remove, RecordLegacyUsage, rest
  <2>2. task[t].pc \notin {"find", "idle"}
    BY <1>4 DEF Work, StoreFile, CreateRun, CheckQuota, Reopen, Erase, Acquire, Extract,
       RecordUsage, CountFailure, NextAttempt, MarkFailed, Remove, RecordLegacyUsage, At
  <2> QED
    BY <1>0, <1>1, <2>1, <2>2 DEF Moves, Successors
<1> QED
  BY <1>2, <1>3, <1>4

\* A simulation of a run writes its row and nothing else; its answer may be lost.
Simulates(t) ==
    \E r \in Runs :
       /\ FreshRun(r)
       /\ status' = [status EXCEPT ![r] = "simulated"]
       /\ (task'[t].pc = "simulated" /\ task'[t].run = r) \/ UNCHANGED task

\* A request changes no draft and no usage record; it begins its task at one of
\* five labels, and only a simulation has written a row by then.
LEMMA RequestAt ==
  ASSUME TypeInv, NEW t \in Tasks, Request(t)
  PROVE  /\ Others(t) /\ task[t].pc = "idle"
         /\ UNCHANGED <<purchases, purchaseId, usage>>
         /\ \/ task'[t].pc \in {"store", "quota", "erase", "approve"} /\ UNCHANGED status
            \/ Simulates(t)
<1>1. ASSUME NEW r \in Runs, Retry(t, r)
      PROVE  Others(t) /\ task'[t].pc = "quota"
  <2> DEFINE s == [IdleTask EXCEPT !.pc = "quota", !.run = r, !.seen = status[r]]
  <2>1. s.pc = "quota" /\ Become(t, s)
    BY <1>1 DEF Retry, IdleTask
  <2> HIDE DEF s
  <2> QED
    BY <2>1, BecomeAt
<1>2. ASSUME NEW r \in Runs, Upload(t, r)
      PROVE  Others(t) /\ task'[t].pc = "store"
  BY <1>2, BeginAt DEF Upload
<1>3. ASSUME NEW r \in Runs, Delete(t, r)
      PROVE  Others(t) /\ task'[t].pc = "erase"
  BY <1>3, BeginAt DEF Delete
<1>4. ASSUME NEW r \in Runs, Simulate(t, r)
      PROVE  Others(t) /\ Simulates(t)
  BY <1>4, BeginAt DEF Simulate, Simulates, Others
<1>5. ASSUME NEW r \in Runs, Approve(t, r)
      PROVE  Others(t) /\ task'[t].pc = "approve"
  BY <1>5, BeginAt DEF Approve
<1> QED
  BY <1>1, <1>2, <1>3, <1>4, <1>5 DEF Request, Upload, Retry, Delete, Simulate, Approve, rest, At

\* Every step keeps the invariant about drafts: only Commit inserts one.
LEMMA DraftStep == TypeInv /\ LockInv /\ DraftInv /\ [Next]_vars => DraftInv'
<1> SUFFICES ASSUME TypeInv, LockInv, DraftInv, [Next]_vars PROVE DraftInv'
  OBVIOUS
<1>1. ASSUME NEW t \in Tasks, Request(t) PROVE DraftInv'
  <2>1. /\ Others(t) /\ task[t].pc = "idle" /\ UNCHANGED purchases
        /\ task'[t].pc # "commit"
    BY <1>1, RequestAt DEF Simulates
  <2> QED
    BY <2>1, DraftKept DEF Others
<1>2. ASSUME purchases' \subseteq purchases, UNCHANGED task PROVE DraftInv'
  BY <1>2, DraftKept
<1> QED
  BY <1>1, <1>2, DraftWork DEF Next, StorageDelete, LegacyDelete, RemovePurchase, ChatCounted, vars

\* A document never has two purchase drafts, although their number has no unique
\* index and a commit may have been applied without its job's knowledge.
THEOREM NoDuplicateDraft == Spec => []OneDraftPerRun
<1>1. DraftInv => OneDraftPerRun
  BY DEF DraftInv
<1> QED
  BY TypeInit, TypeStep, LockInit, LockStep, DraftInit, DraftStep, <1>1, PTL DEF Spec

-----------------------------------------------------------------------------
\* One charge per document.

Over == {"processed", "deleted"}

\* What JobChargedOnce says of the jobs' records.
JobChargedOnce ==
    \A r \in Runs : usage["job"][r] <= 1 /\ (usage["job"][r] = 1 => status[r] \in Over)

OnceInv == ChargeInv /\ JobChargedOnce

\* Nothing is charged at first.
LEMMA OnceInit == Init => OnceInv
  BY DEF Init, OnceInv, ChargeInv, JobChargedOnce, Finishing, At, IdleTask, Writers

\* Only markFailed takes a run back that is over, and only a claim of a run that
\* is not over starts a job.
LEMMA OverStep ==
  ASSUME TypeInv, LockInv, NEW t \in Tasks, Work(t)
  PROVE  LET r == task[t].run
         IN  /\ \A q \in Runs \ {r} : status'[q] = status[q] /\ usage'["job"][q] = usage["job"][q]
             /\ status[r] \in Over /\ task[t].pc # "mark" => status'[r] \in Over
             /\ task'[t].pc \in Executing /\ task[t].pc \notin Executing => status[r] \notin Over
             /\ task'[t].pc = "usage" => status'[r] \in Over
             /\ task[t].pc # "usage" => usage'["job"][r] = usage["job"][r]
             /\ task[t].pc = "usage" => usage'["job"][r] \in {usage["job"][r], usage["job"][r] + 1}
<1> DEFINE r == task[t].run
<1>0. Moves(t) /\ status \in [Runs -> Statuses] /\ usage["job"] \in [Runs \union {NoRun} -> Nat]
  BY ControlFlow DEF TypeInv, TypeOK, Writers
<1>1. CASE StoreFile(t) \/ CheckQuota(t) \/ Extract(t) \/ Find(t) \/ CountFailure(t) \/ NextAttempt(t)
  BY <1>0, <1>1 DEF StoreFile, CheckQuota, Extract, Find, CountFailure, NextAttempt, rest, At,
     Moves, Successors, Executing
<1>2. CASE CreateRun(t)
  <2>1. task[t].pc = "create" /\ status[r] = "none"
    BY <1>2 DEF CreateRun, At, LockInv, UploadAlone
  <2> QED
    BY <1>0, <1>2, <2>1 DEF CreateRun, Moves, Successors, Executing, Over
<1>3. CASE Reopen(t)
  <2>1. task[t].pc = "cas" /\ task[t].seen \in {"pending", "failed"}
    BY <1>3 DEF Reopen, At, LockInv, SeenRetryable
  <2> QED
    BY <1>0, <1>3, <2>1 DEF Reopen, Reopenable, Moves, Successors, Executing, Over
<1>4. CASE Erase(t)
  BY <1>0, <1>4 DEF Erase, DropRow, At, Moves, Successors, Executing, Over
<1>5. CASE Acquire(t)
  <2>1. task[t].pc = "acquire" /\ UNCHANGED usage
    BY <1>5 DEF Acquire, At
  <2>2. CASE Claimable(r) /\ Lock(r)
    BY <1>0, <2>1, <2>2 DEF Claimable, Lock, Moves, Successors, Executing, Over
  <2>3. CASE UNCHANGED status /\ NotLocked(t)
    <3>1. task'[t].pc # "core"
      <4> DEFINE s == [task[t] EXCEPT !.inline = FALSE]
      <4>1. s.pc = "acquire" /\ (Become(t, s) \/ End(t))
        BY <2>1, <2>3 DEF NotLocked, TypeInv, TypeOK, TaskStates
      <4> HIDE DEF s
      <4> QED
        BY <4>1, BecomeAt, EndAt
    <3> QED
      BY <1>0, <2>1, <2>3, <3>1 DEF Moves, Successors, Executing, Over
  <2> QED
    BY <1>5, <2>2, <2>3 DEF Acquire
<1>6. CASE Commit(t)
  <2>1. task[t].pc = "commit" /\ UNCHANGED usage
    BY <1>6 DEF Commit, At
  <2>2. CatchCommit(t) => task'[t].pc # "usage"
    <3> DEFINE s == [task[t] EXCEPT !.pc = IF task[t].inline THEN "mark" ELSE "count",
                                    !.draft = {}, !.creates = FALSE]
    <3>1. s.pc # "usage" /\ (CatchCommit(t) => Become(t, s))
      BY DEF CatchCommit, TypeInv, TypeOK, TaskStates
    <3> HIDE DEF s
    <3> QED
      BY <3>1, BecomeAt
  <2>3. \/ status' = [status EXCEPT ![r] = "processed"]
        \/ UNCHANGED status /\ CatchCommit(t)
    BY <1>6 DEF Commit, CommitWrites
  <2> QED
    BY <1>0, <2>1, <2>2, <2>3 DEF Moves, Successors, Executing, Over
<1>7. CASE RecordUsage(t)
  <2>1. usage'["job"] \in [Runs \union {NoRun} -> Nat] /\ (\A q \in Runs \ {r} : usage'["job"][q] = usage["job"][q])
        /\ usage'["job"][r] \in {usage["job"][r], usage["job"][r] + 1}
    BY <1>0, <1>7, ChargeAt DEF RecordUsage, Moves, Writers
  <2> QED
    BY <1>0, <1>7, <2>1 DEF RecordUsage, At, Moves, Successors, Executing, Over
<1>8. CASE MarkFailed(t)
  BY <1>0, <1>8 DEF MarkFailed, At, Moves, Successors, Executing, Over
<1>9. CASE Remove(t)
  BY <1>0, <1>9 DEF Remove, DropRow, At, Moves, Successors, Executing, Over
<1>10. CASE RecordLegacyUsage(t)
  <2>1. \A q \in Runs : usage'["job"][q] = usage["job"][q]
    BY <1>0, <1>10, ChargeAt DEF RecordLegacyUsage, Moves, Writers
  <2> QED
    BY <1>0, <1>10, <2>1 DEF RecordLegacyUsage, At, Moves, Successors, Executing, Over
<1> QED
  BY <1>1, <1>2, <1>3, <1>4, <1>5, <1>6, <1>7, <1>8, <1>9, <1>10 DEF Work

\* A job that charges is the run's last one.
LEMMA OnceWork ==
  ASSUME TypeInv, LockInv, OnceInv, NEW t \in Tasks, Work(t)
  PROVE  OnceInv'
<1> DEFINE r == task[t].run
           Later(u, q) == task'[u].run = q /\ task'[u].pc \in Executing \union {"usage"}
<1>0. Moves(t) /\ usage["job"] \in [Runs \union {NoRun} -> Nat]
  BY ControlFlow DEF TypeInv, TypeOK, Writers
<1>1. \A u \in Tasks : task[u].pc # "idle" => task[u].run \in Runs
  BY DEF TypeInv, ServesRun
<1>2. /\ \A q \in Runs \ {r} : status'[q] = status[q] /\ usage'["job"][q] = usage["job"][q]
      /\ status[r] \in Over /\ task[t].pc # "mark" => status'[r] \in Over
      /\ task'[t].pc \in Executing /\ task[t].pc \notin Executing => status[r] \notin Over
      /\ task'[t].pc = "usage" => status'[r] \in Over
      /\ task[t].pc # "usage" => usage'["job"][r] = usage["job"][r]
      /\ task[t].pc = "usage" => usage'["job"][r] \in {usage["job"][r], usage["job"][r] + 1}
  BY OverStep
<1>3. \A u \in Tasks, q \in Runs : Later(u, q) =>
         \/ Finishing(u, q)
         \/ u = t /\ q = r /\ status[r] \notin Over
  BY <1>0, <1>1, <1>2, NoRunAssumption DEF Finishing, Moves, Others, Successors, Executing
<1>4. Finishing(t, r) => usage["job"][r] = 0
  BY <1>0 DEF OnceInv, ChargeInv, Moves
<1>5. status[r] \notin Over => usage["job"][r] = 0
  BY <1>0 DEF OnceInv, JobChargedOnce, Over, Moves
<1>6. JobChargedOnce'
  BY <1>0, <1>2, <1>4, <1>5 DEF OnceInv, JobChargedOnce, ChargeInv, Over, Finishing, Executing, Moves, At
<1>7. ASSUME NEW q \in Runs, usage'["job"][q] # 0, NEW u \in Tasks, Later(u, q)
      PROVE  FALSE
  <2>1. CASE q # r
    BY <1>2, <1>3, <1>7, <2>1 DEF OnceInv, ChargeInv
  <2>2. CASE q = r /\ task[t].pc = "usage"
    <3>1. task'[t].pc = "idle" /\ u # t
      BY <1>0, <1>7, <2>2, NoRunAssumption DEF Moves, Successors, Finishing, Executing
    <3> QED
      BY <1>3, <1>7, <2>2, <3>1 DEF OnceInv, ChargeInv, At
  <2>3. CASE q = r /\ task[t].pc # "usage"
    BY <1>0, <1>2, <1>3, <1>5, <1>7, <2>3 DEF OnceInv, ChargeInv, Moves
  <2> QED
    BY <2>1, <2>2, <2>3
<1>8. ASSUME NEW w \in Tasks, task'[w].pc = "usage"
      PROVE  /\ status'[task'[w].run] \in Over
             /\ usage'["job"][task'[w].run] = 0
             /\ \A u \in Tasks \ {w} : ~Later(u, task'[w].run)
  <2>1. CASE w = t
    <3>1. task[t].pc = "commit" /\ task'[t].run = r
      BY <1>0, <1>8, <2>1 DEF Moves, Successors
    <3>2. \A u \in Tasks \ {t} : ~Finishing(u, r)
      BY <1>0, <3>1 DEF LockInv, Exclusive, Holds, OnceInv, ChargeInv, At, Finishing, Executing, Moves
    <3>3. \A u \in Tasks \ {t} : ~Later(u, r)
      BY <1>0, <1>3, <3>2 DEF Moves
    <3> QED
      BY <1>2, <1>4, <1>8, <2>1, <3>1, <3>3 DEF Finishing, Executing
  <2>2. CASE w # t
    <3> DEFINE q == task[w].run
    <3>1. task'[w] = task[w] /\ task[w].pc = "usage" /\ q \in Runs
      BY <1>0, <1>1, <1>8, <2>2 DEF Moves, Others
    <3>2. status[q] \in Over /\ usage["job"][q] = 0 /\ \A u \in Tasks \ {w} : ~Finishing(u, q)
      BY <3>1 DEF OnceInv, ChargeInv, At, Over
    <3>3. q = r => task[t].pc \notin Executing \union {"usage"}
      BY <2>2, <3>2 DEF Finishing
    <3>4. status'[q] \in Over /\ usage'["job"][q] = 0
      BY <1>2, <3>1, <3>2, <3>3 DEF Executing
    <3>5. \A u \in Tasks \ {w} : ~Later(u, q)
      BY <1>3, <3>1, <3>2
    <3> QED
      BY <3>1, <3>4, <3>5
  <2> QED
    BY <2>1, <2>2
<1>9. ChargeInv'
  BY <1>7, <1>8 DEF ChargeInv, At, Over, Finishing
<1> QED
  BY <1>6, <1>9 DEF OnceInv

\* Every step keeps the invariant about charges; a deleted row stays charged.
LEMMA OnceStep == TypeInv /\ LockInv /\ OnceInv /\ [Next]_vars => OnceInv'
<1> SUFFICES ASSUME TypeInv, LockInv, OnceInv, [Next]_vars PROVE OnceInv'
  OBVIOUS
<1> USE DEF OnceInv, ChargeInv, JobChargedOnce, Finishing, At, Executing
<1>0. \A t \in Tasks : task[t].pc # "idle" => task[t].run \in Runs
  BY DEF TypeInv, ServesRun
<1>1. ASSUME NEW t \in Tasks, Request(t) PROVE OnceInv'
  <2>1. /\ Others(t) /\ task[t].pc = "idle" /\ UNCHANGED usage
        /\ task'[t].pc \notin Executing \union {"usage"}
    BY <1>1, RequestAt DEF Simulates
  <2>2. CASE UNCHANGED status
    BY <2>1, <2>2 DEF Others
  <2>3. CASE Simulates(t)
    <3>1. PICK r \in Runs : status[r] = "none" /\ status' = [status EXCEPT ![r] = "simulated"]
      BY <2>3 DEF Simulates, FreshRun
    <3>2. \A q \in Runs : status'[q] = IF q = r THEN "simulated" ELSE status[q]
      BY <3>1 DEF TypeInv, TypeOK
    <3> QED
      BY <1>0, <2>1, <3>1, <3>2 DEF Others, Over
  <2> QED
    BY <1>1, <2>2, <2>3, RequestAt
<1>2. ASSUME NEW r \in Runs, LegacyDelete(r) PROVE OnceInv'
  <2>1. \A q \in Runs : status'[q] = IF q = r THEN "deleted" ELSE status[q]
    BY <1>2 DEF LegacyDelete, DropRow, TypeInv, TypeOK
  <2> QED
    BY <1>0, <1>2, <2>1 DEF LegacyDelete, Over
<1>3. ASSUME UNCHANGED <<status, task>>, \A r \in Runs : usage'["job"][r] = usage["job"][r] PROVE OnceInv'
  BY <1>0, <1>3
<1>4. ChatCounted => \A r \in Runs : usage'["job"][r] = usage["job"][r]
  BY ChargeAt DEF ChatCounted, Writers
<1> QED
  BY <1>1, <1>2, <1>3, <1>4, OnceWork DEF Next, StorageDelete, RemovePurchase, ChatCounted, vars

\* What ChargedOnce says of the legacy endpoints' records.
LegacyChargedOnce ==
    \A r \in Runs :
       /\ usage["approval"][r] <= 1
       /\ usage["approval"][r] = 1 => status[r] = "deleted"
       /\ usage["simulation"][r] <= 1
       /\ usage["simulation"][r] = 1 => usage["job"][r] = 0

LegacyOnceInv == LegacyInv /\ LegacyChargedOnce

\* Nobody has called a legacy endpoint at first.
LEMMA LegacyInit == Init => LegacyOnceInv
  BY DEF Init, LegacyOnceInv, LegacyInv, LegacyAlone, LegacyChargedOnce, JobLabels, At, IdleTask, Writers

\* What a step of work in progress does to its row, as far as the endpoints that
\* approve and simulate are concerned: nothing makes a row a simulated one, no
\* deleted row comes back, and an approval goes on only after it deleted the row.
LEMMA LegacyRow ==
  ASSUME TypeInv, LockInv, NEW t \in Tasks, Work(t)
  PROVE  LET r == task[t].run
         IN  /\ \A q \in Runs \ {r} : status'[q] = status[q]
             /\ status'[r] = "simulated" => status[r] = "simulated"
             /\ status[r] = "simulated" /\ task[t].pc \notin JobLabels => status'[r] \in {"simulated", "deleted"}
             /\ status[r] = "deleted" => status'[r] = "deleted"
             /\ task'[t].pc \in JobLabels /\ task[t].pc \notin JobLabels => status[r] = "none"
             /\ task'[t].pc = "approved" => status[r] \in Stored /\ status'[r] = "deleted"
<1> DEFINE r == task[t].run
<1>0. Moves(t) /\ status \in [Runs -> Statuses]
  BY ControlFlow DEF TypeInv, TypeOK
<1> USE <1>0 DEF Moves, Successors, JobLabels, Executing, At, Exists, Stored
<1>1. CASE StoreFile(t) \/ CheckQuota(t) \/ Extract(t) \/ Find(t) \/ CountFailure(t) \/ NextAttempt(t) \/ RecordUsage(t)
  BY <1>1 DEF StoreFile, CheckQuota, Extract, Find, CountFailure, NextAttempt, RecordUsage, rest, LockInv, UploadAlone
<1>2. CASE CreateRun(t)
  <2>1. task[t].pc = "create" /\ status[r] = "none"
    BY <1>2 DEF CreateRun, LockInv, UploadAlone
  <2> QED
    BY <1>2, <2>1 DEF CreateRun
<1>3. CASE Reopen(t)
  <2>1. task[t].pc = "cas" /\ task[t].seen \in {"pending", "failed"}
    BY <1>3 DEF Reopen, LockInv, SeenRetryable
  <2> QED
    BY <1>3, <2>1 DEF Reopen, Reopenable
<1>4. CASE Erase(t)
  BY <1>4 DEF Erase, Erasable, DropRow
<1>5. CASE Acquire(t)
  BY <1>5 DEF Acquire, Claimable, Lock
<1>6. CASE Commit(t)
  BY <1>6 DEF Commit, CommitWrites, CanCommit
<1>7. CASE MarkFailed(t)
  BY <1>7 DEF MarkFailed
<1>8. CASE Remove(t)
  <2>1. task'[t].pc = "approved" => Exists(r) /\ DropRow(r)
    BY <1>8, EndAt DEF Remove
  <2> QED
    BY <1>8, <2>1 DEF Remove, DropRow
<1>9. CASE RecordLegacyUsage(t)
  BY <1>9 DEF RecordLegacyUsage
<1> QED
  BY <1>1, <1>2, <1>3, <1>4, <1>5, <1>6, <1>7, <1>8, <1>9 DEF Work

\* A step of work in progress writes one record at most: its own writer's, for its
\* own run, as its last act.
LEMMA LegacyRecord ==
  ASSUME TypeInv, NEW t \in Tasks, Work(t), NEW w \in Writers, NEW q \in Runs \union {NoRun},
         usage'[w][q] # usage[w][q]
  PROVE  /\ q = task[t].run /\ usage'[w][q] = usage[w][q] + 1 /\ task'[t].pc = "idle"
         /\ UNCHANGED status
         /\ \/ w = "job" /\ At(t, "usage")
            \/ w = "approval" /\ At(t, "approved")
            \/ w = "simulation" /\ At(t, "simulated")
<1>0. Moves(t)
  BY ControlFlow
<1>1. CASE RecordUsage(t)
  BY <1>0, <1>1, ChargeAt DEF RecordUsage, Moves, Successors, At, Writers
<1>2. CASE RecordLegacyUsage(t)
  <2>1. CASE At(t, "simulated") /\ Charge("simulation", task[t].run)
    BY <1>0, <1>2, <2>1, ChargeAt DEF RecordLegacyUsage, Moves, Successors, At, Writers
  <2>2. CASE At(t, "approved") /\ Charge("approval", task[t].run)
    BY <1>0, <1>2, <2>2, ChargeAt DEF RecordLegacyUsage, Moves, Successors, At, Writers
  <2> QED
    BY <1>2, <2>1, <2>2 DEF RecordLegacyUsage
<1>3. CASE ~RecordUsage(t) /\ ~RecordLegacyUsage(t)
  <2>1. UNCHANGED usage
    BY <1>3 DEF Work, StoreFile, CreateRun, CheckQuota, Reopen, Erase, Acquire, Extract, Find, Commit,
       CountFailure, NextAttempt, MarkFailed, Remove, rest
  <2> QED
    BY <2>1
<1> QED
  BY <1>1, <1>2, <1>3

\* A row and the tasks that serve it keep the invariant in a step of work in
\* progress: one clause each.
LEMMA LegacyWork ==
  ASSUME TypeInv, LockInv, OnceInv, LegacyOnceInv, NEW t \in Tasks, Work(t)
  PROVE  LegacyOnceInv'
<1> DEFINE r == task[t].run
           OnlyOther(q) == \A u \in Tasks : task[u].run = q => task[u].pc \notin JobLabels
<1>0. Moves(t) /\ usage \in [Writers -> [Runs \union {NoRun} -> Nat]]
  BY ControlFlow DEF TypeInv, TypeOK
<1>a. \A u \in Tasks : task[u].pc # "idle" => task[u].run \in Runs
  BY DEF TypeInv, ServesRun
<1>1. /\ \A q \in Runs \ {r} : status'[q] = status[q]
      /\ status'[r] = "simulated" => status[r] = "simulated"
      /\ status[r] = "simulated" /\ task[t].pc \notin JobLabels => status'[r] \in {"simulated", "deleted"}
      /\ status[r] = "deleted" => status'[r] = "deleted"
      /\ task'[t].pc \in JobLabels /\ task[t].pc \notin JobLabels => status[r] = "none"
      /\ task'[t].pc = "approved" => status[r] \in Stored /\ status'[r] = "deleted"
  BY LegacyRow
<1>2. \A w \in Writers, q \in Runs : usage'[w][q] # usage[w][q] =>
         /\ q = r /\ usage'[w][q] = usage[w][q] + 1 /\ task'[t].pc = "idle"
         /\ UNCHANGED status
         /\ \/ w = "job" /\ At(t, "usage")
            \/ w = "approval" /\ At(t, "approved")
            \/ w = "simulation" /\ At(t, "simulated")
  BY LegacyRecord
<1>3. task'[t].pc # "simulated" /\ (task'[t].pc # "idle" => task'[t].run = r) /\ Others(t) /\ r \in Runs
  BY <1>0 DEF Moves, Successors
<1>4. \A q \in Runs : usage["approval"][q] # 0 => status[q] = "deleted"
  <2> SUFFICES ASSUME NEW q \in Runs, usage["approval"][q] # 0 PROVE status[q] = "deleted"
    OBVIOUS
  <2>1. usage["approval"][q] \in Nat /\ usage["approval"][q] <= 1
    BY <1>0 DEF LegacyOnceInv, LegacyChargedOnce, Writers
  <2> QED
    BY <2>1 DEF LegacyOnceInv, LegacyChargedOnce
<1>5. LegacyAlone("approved", "approval")'
  <2>1. ASSUME NEW v \in Tasks, At(v, "approved")'
        PROVE  /\ usage'["approval"][task'[v].run] = 0
               /\ \A u \in Tasks \ {v} : ~(At(u, "approved")' /\ task'[u].run = task'[v].run)
    <3>1. CASE v = t
      <4>1. task'[v].run = r /\ status[r] # "deleted"
        BY <1>1, <1>3, <2>1, <3>1 DEF At, Stored
      <4>2. usage'["approval"][r] = 0
        BY <1>2, <1>3, <1>4, <2>1, <3>1, <4>1 DEF At, Writers
      <4>3. \A u \in Tasks \ {t} : ~(At(u, "approved") /\ task[u].run = r)
        BY <4>1 DEF LegacyOnceInv, LegacyInv
      <4> QED
        BY <1>3, <3>1, <4>1, <4>2, <4>3 DEF Others, At
    <3>2. CASE v # t
      <4> DEFINE q == task[v].run
      <4>1. task'[v] = task[v] /\ At(v, "approved") /\ q \in Runs
        BY <1>3, <1>a, <2>1, <3>2 DEF Others, At
      <4>2. /\ usage["approval"][q] = 0 /\ status[q] = "deleted"
            /\ \A u \in Tasks \ {v} : ~(At(u, "approved") /\ task[u].run = q)
        BY <4>1 DEF LegacyOnceInv, LegacyInv, LegacyAlone
      <4>3. usage'["approval"][q] = 0
        BY <1>2, <3>2, <4>1, <4>2 DEF Writers
      <4>4. ~(At(t, "approved")' /\ task'[t].run = q)
        BY <1>1, <1>3, <4>2 DEF At, Stored
      <4> QED
        BY <1>3, <4>1, <4>2, <4>3, <4>4 DEF Others, At
    <3> QED
      BY <3>1, <3>2
  <2>2. ASSUME NEW q \in Runs, usage'["approval"][q] # 0, NEW v \in Tasks
        PROVE  ~(At(v, "approved")' /\ task'[v].run = q)
    BY <2>1, <2>2
  <2> QED
    BY <2>1, <2>2 DEF LegacyAlone, At
<1>6. \A q \in Runs : \A v \in Tasks : At(v, "simulated")' /\ task'[v].run = q =>
         v # t /\ At(v, "simulated") /\ task'[v] = task[v] /\ task[v].run = q
  BY <1>3 DEF Others, At
<1>7. LegacyAlone("simulated", "simulation")'
  <2>1. ASSUME NEW v \in Tasks, At(v, "simulated")'
        PROVE  /\ usage'["simulation"][task'[v].run] = 0
               /\ \A u \in Tasks \ {v} : ~(At(u, "simulated")' /\ task'[u].run = task'[v].run)
    <3> DEFINE q == task[v].run
    <3>1. v # t /\ At(v, "simulated") /\ task'[v] = task[v] /\ q \in Runs
      BY <1>3, <1>a, <2>1 DEF Others, At
    <3>2. /\ usage["simulation"][q] = 0
          /\ \A u \in Tasks \ {v} : ~(At(u, "simulated") /\ task[u].run = q)
      BY <3>1 DEF LegacyOnceInv, LegacyInv, LegacyAlone
    <3>3. usage'["simulation"][q] = 0
      BY <1>2, <3>1, <3>2 DEF Writers
    <3> QED
      BY <1>6, <3>1, <3>2, <3>3
  <2>2. ASSUME NEW q \in Runs, usage'["simulation"][q] # 0, NEW v \in Tasks
        PROVE  ~(At(v, "simulated")' /\ task'[v].run = q)
    BY <2>1, <2>2
  <2> QED
    BY <2>1, <2>2 DEF LegacyAlone, At
<1>8. \A v \in Tasks : At(v, "approved")' => status'[task'[v].run] = "deleted"
  <2> SUFFICES ASSUME NEW v \in Tasks, At(v, "approved")' PROVE status'[task'[v].run] = "deleted"
    OBVIOUS
  <2>1. CASE v = t
    BY <1>1, <1>3, <2>1 DEF At
  <2>2. CASE v # t
    <3>1. task'[v] = task[v] /\ At(v, "approved") /\ task[v].run \in Runs
      BY <1>3, <1>a, <2>2 DEF Others, At
    <3> QED
      BY <1>1, <3>1 DEF LegacyOnceInv, LegacyInv
  <2> QED
    BY <2>1, <2>2
\* A row that is served by no job stays so, and is charged by no job, unless it
\* is about to be created.
<1>9. ASSUME NEW q \in Runs, status[q] # "none", OnlyOther(q), usage["job"][q] = 0
      PROVE  OnlyOther(q)' /\ usage'["job"][q] = 0
  <2>1. q = r => task[t].pc \notin JobLabels
    BY <1>9
  <2>2. usage'["job"][q] = 0
    BY <1>2, <1>9, <2>1 DEF At, JobLabels, Writers
  <2>3. OnlyOther(q)'
    <3> SUFFICES ASSUME NEW u \in Tasks, task'[u].run = q PROVE task'[u].pc \notin JobLabels
      OBVIOUS
    <3>1. CASE u = t
      BY <1>1, <1>3, <1>9, <2>1, <3>1 DEF JobLabels, Executing
    <3>2. CASE u # t
      BY <1>3, <1>9, <3>2 DEF Others
    <3> QED
      BY <3>1, <3>2
  <2> QED
    BY <2>2, <2>3
<1>10. ASSUME NEW q \in Runs, status[q] \in {"simulated", "deleted"}, OnlyOther(q)
       PROVE  status'[q] \in {"simulated", "deleted"}
  <2>1. q = r => task[t].pc \notin JobLabels
    BY <1>10
  <2> QED
    BY <1>1, <1>10, <2>1
<1>11. \A v \in Tasks : At(v, "simulated")' =>
          /\ status'[task'[v].run] \in {"simulated", "deleted"}
          /\ usage'["job"][task'[v].run] = 0
          /\ \A u \in Tasks : task'[u].run = task'[v].run => task'[u].pc \notin JobLabels
  <2> SUFFICES ASSUME NEW v \in Tasks, At(v, "simulated")'
               PROVE  /\ status'[task'[v].run] \in {"simulated", "deleted"}
                      /\ usage'["job"][task'[v].run] = 0
                      /\ \A u \in Tasks : task'[u].run = task'[v].run => task'[u].pc \notin JobLabels
    OBVIOUS
  <2> DEFINE q == task[v].run
  <2>1. At(v, "simulated") /\ task'[v] = task[v] /\ q \in Runs
    BY <1>3, <1>a DEF Others, At
  <2>2. status[q] \in {"simulated", "deleted"} /\ usage["job"][q] = 0 /\ OnlyOther(q)
    BY <2>1 DEF LegacyOnceInv, LegacyInv
  <2>3. status'[q] \in {"simulated", "deleted"} /\ usage'["job"][q] = 0 /\ OnlyOther(q)'
    BY <1>9, <1>10, <2>1, <2>2
  <2> QED
    BY <2>1, <2>3
<1>12. \A q \in Runs : usage["simulation"][q] # 0 =>
          status[q] \in {"simulated", "deleted"} /\ OnlyOther(q) /\ usage["job"][q] = 0
  <2> SUFFICES ASSUME NEW q \in Runs, usage["simulation"][q] # 0 PROVE usage["job"][q] = 0
    BY DEF LegacyOnceInv, LegacyInv
  <2>1. usage["simulation"][q] \in Nat /\ usage["simulation"][q] <= 1
    BY <1>0 DEF LegacyOnceInv, LegacyChargedOnce, Writers
  <2> QED
    BY <2>1 DEF LegacyOnceInv, LegacyChargedOnce
<1>13. \A q \in Runs : usage'["simulation"][q] # 0 =>
          status'[q] \in {"simulated", "deleted"} /\ OnlyOther(q)' /\ usage'["job"][q] = 0
  <2> SUFFICES ASSUME NEW q \in Runs, usage'["simulation"][q] # 0
               PROVE  status'[q] \in {"simulated", "deleted"} /\ OnlyOther(q)' /\ usage'["job"][q] = 0
    OBVIOUS
  <2>1. CASE usage["simulation"][q] # 0
    BY <1>9, <1>10, <1>12, <2>1
  <2>2. CASE usage["simulation"][q] = 0
    <3>1. q = r /\ At(t, "simulated")
      BY <1>2, <2>2 DEF Writers
    <3>2. status[q] \in {"simulated", "deleted"} /\ usage["job"][q] = 0 /\ OnlyOther(q)
      BY <3>1 DEF LegacyOnceInv, LegacyInv
    <3> QED
      BY <1>9, <1>10, <3>2
  <2> QED
    BY <2>1, <2>2
<1>14. \A q \in Runs : status'[q] = "simulated" => usage'["job"][q] = 0 /\ OnlyOther(q)'
  <2> SUFFICES ASSUME NEW q \in Runs, status'[q] = "simulated" PROVE usage'["job"][q] = 0 /\ OnlyOther(q)'
    OBVIOUS
  <2>1. status[q] = "simulated"
    BY <1>1
  <2>2. usage["job"][q] = 0 /\ OnlyOther(q)
    BY <2>1 DEF LegacyOnceInv, LegacyInv
  <2> QED
    BY <1>9, <2>1, <2>2
<1>15. LegacyInv'
  BY <1>5, <1>7, <1>8, <1>11, <1>13, <1>14 DEF LegacyInv
<1>16. LegacyChargedOnce'
  <2> SUFFICES ASSUME NEW q \in Runs
               PROVE  /\ usage'["approval"][q] <= 1
                      /\ usage'["approval"][q] = 1 => status'[q] = "deleted"
                      /\ usage'["simulation"][q] <= 1
                      /\ usage'["simulation"][q] = 1 => usage'["job"][q] = 0
    BY DEF LegacyChargedOnce
  <2>1. /\ usage["approval"][q] <= 1 /\ usage["simulation"][q] <= 1
        /\ \A w \in Writers : usage[w][q] \in Nat
    BY <1>0 DEF LegacyOnceInv, LegacyChargedOnce
  <2>2. CASE usage'["approval"][q] # usage["approval"][q]
    <3>1. q = r /\ At(t, "approved") /\ UNCHANGED status /\ usage'["approval"][q] = usage["approval"][q] + 1
          /\ usage'["simulation"][q] = usage["simulation"][q]
      BY <1>2, <2>2 DEF Writers, At
    <3>2. usage["approval"][q] = 0 /\ status[q] = "deleted"
      BY <3>1 DEF LegacyOnceInv, LegacyInv, LegacyAlone
    <3> QED
      BY <1>13, <2>1, <3>1, <3>2
  <2>3. CASE usage'["simulation"][q] # usage["simulation"][q]
    <3>1. q = r /\ At(t, "simulated") /\ usage'["simulation"][q] = usage["simulation"][q] + 1
          /\ usage'["approval"][q] = usage["approval"][q] /\ UNCHANGED status
      BY <1>2, <2>3 DEF Writers, At
    <3>2. usage["simulation"][q] = 0
      BY <3>1 DEF LegacyOnceInv, LegacyInv, LegacyAlone
    <3> QED
      BY <1>4, <1>13, <2>1, <3>1, <3>2
  <2>4. CASE usage'["approval"][q] = usage["approval"][q] /\ usage'["simulation"][q] = usage["simulation"][q]
    <3>1. status[q] = "deleted" => status'[q] = "deleted"
      BY <1>1
    <3> QED
      BY <1>4, <1>13, <2>1, <2>4, <3>1
  <2> QED
    BY <2>2, <2>3, <2>4
<1> QED
  BY <1>15, <1>16 DEF LegacyOnceInv

\* A request finds no record of a fresh run, and a simulation of it no job.
LEMMA LegacyRequest ==
  ASSUME TypeInv, OnceInv, LegacyOnceInv, NEW t \in Tasks, Request(t)
  PROVE  LegacyOnceInv'
<1>0. /\ Others(t) /\ task[t].pc = "idle" /\ UNCHANGED usage
      /\ usage \in [Writers -> [Runs \union {NoRun} -> Nat]]
  BY RequestAt DEF TypeInv, TypeOK
<1>1. \A u \in Tasks : task[u].pc # "idle" => task[u].run \in Runs
  BY DEF TypeInv, ServesRun
<1> USE DEF LegacyOnceInv, LegacyInv, LegacyAlone, LegacyChargedOnce, At
<1>2. CASE Simulates(t)
  <2>1. PICK r \in Runs :
          /\ FreshRun(r) /\ status' = [status EXCEPT ![r] = "simulated"]
          /\ (task'[t].pc = "simulated" /\ task'[t].run = r) \/ UNCHANGED task
    BY <1>2 DEF Simulates
  <2>2. \A q \in Runs : status'[q] = IF q = r THEN "simulated" ELSE status[q]
    BY <2>1 DEF TypeInv, TypeOK
  <2>3. status[r] = "none" /\ \A u \in Tasks : task[u].run # r
    BY <2>1 DEF FreshRun
  <2>4. usage["simulation"][r] = 0 /\ usage["approval"][r] = 0 /\ usage["job"][r] = 0
    <3>1. \A w \in Writers : usage[w][r] \in Nat
      BY <1>0
    <3>2. usage["approval"][r] <= 1 /\ usage["job"][r] <= 1
      BY DEF OnceInv, JobChargedOnce
    <3>3. usage["approval"][r] # 1 /\ usage["job"][r] # 1 /\ usage["simulation"][r] = 0
      BY <2>3 DEF OnceInv, JobChargedOnce, Over
    <3> QED
      BY <3>1, <3>2, <3>3 DEF Writers
  <2>5. \A u \in Tasks : u # t => task'[u] = task[u] /\ task'[u].run # r
    BY <1>0, <2>3 DEF Others
  <2>6. task'[t].pc \in {"simulated", "idle"} /\ (task'[t].pc = "simulated" => task'[t].run = r)
    BY <1>0, <2>1
  <2>7. LegacyAlone("approved", "approval")'
    BY <1>0, <1>1, <2>5, <2>6
  <2>8. LegacyAlone("simulated", "simulation")'
    BY <1>0, <1>1, <2>4, <2>5, <2>6
  <2>9. LegacyInv'
    <3>1. \A v \in Tasks : At(v, "approved")' => status'[task'[v].run] = "deleted"
      BY <1>0, <1>1, <2>2, <2>5, <2>6
    <3>2. \A q \in Runs : status'[q] = "simulated" =>
             usage'["job"][q] = 0 /\ \A u \in Tasks : task'[u].run = q => task'[u].pc \notin JobLabels
      BY <1>0, <2>2, <2>4, <2>5, <2>6 DEF JobLabels, Executing
    <3>3. \A q \in Runs : usage'["simulation"][q] # 0 =>
             /\ status'[q] \in {"simulated", "deleted"}
             /\ \A u \in Tasks : task'[u].run = q => task'[u].pc \notin JobLabels
      BY <1>0, <2>2, <2>4, <2>5, <2>6 DEF JobLabels, Executing
    <3>4. \A v \in Tasks : At(v, "simulated")' =>
             /\ status'[task'[v].run] \in {"simulated", "deleted"}
             /\ usage'["job"][task'[v].run] = 0
             /\ \A u \in Tasks : task'[u].run = task'[v].run => task'[u].pc \notin JobLabels
      <4> SUFFICES ASSUME NEW v \in Tasks, At(v, "simulated")'
                   PROVE  /\ status'[task'[v].run] \in {"simulated", "deleted"}
                          /\ usage'["job"][task'[v].run] = 0
                          /\ \A u \in Tasks : task'[u].run = task'[v].run => task'[u].pc \notin JobLabels
        OBVIOUS
      <4>1. CASE v = t
        BY <2>2, <2>6, <3>2, <4>1
      <4>2. CASE v # t
        <5>1. task'[v] = task[v] /\ task[v].run \in Runs /\ task[v].run # r
          BY <1>1, <2>3, <2>5, <4>2
        <5> QED
          BY <1>0, <2>2, <2>5, <2>6, <5>1 DEF JobLabels, Executing
      <4> QED
        BY <4>1, <4>2
    <3> QED
      BY <2>7, <2>8, <3>1, <3>2, <3>3, <3>4
  <2>10. LegacyChargedOnce'
    BY <1>0, <2>2, <2>4
  <2> QED
    BY <2>9, <2>10
<1>3. CASE task'[t].pc \in {"store", "quota", "erase", "approve"} /\ UNCHANGED status
  <2>1. \A u \in Tasks : u # t => task'[u] = task[u]
    BY <1>0 DEF Others
  <2>2. LegacyAlone("approved", "approval")' /\ LegacyAlone("simulated", "simulation")'
    BY <1>0, <1>1, <1>3, <2>1
  <2>3. task'[t].pc \in JobLabels => \E r \in Runs : Retry(t, r)
    <3>1. \A r \in Runs : (Upload(t, r) => task'[t].pc = "store") /\ (Delete(t, r) => task'[t].pc = "erase")
                          /\ (Approve(t, r) => task'[t].pc = "approve")
      BY BeginAt DEF Upload, Delete, Approve
    <3>2. \A r \in Runs : ~Simulate(t, r)
      BY <1>3 DEF Simulate, FreshRun, TypeInv, TypeOK
    <3> QED
      BY <3>1, <3>2 DEF Request, JobLabels, Executing
  <2>4. task'[t].pc \in JobLabels => status[task'[t].run] \in {"pending", "failed"}
    <3> SUFFICES ASSUME NEW r \in Runs, Retry(t, r) PROVE task'[t].run = r /\ status[r] \in {"pending", "failed"}
      BY <2>3
    <3> DEFINE s == [IdleTask EXCEPT !.pc = "quota", !.run = r, !.seen = status[r]]
    <3>1. s.run = r /\ Become(t, s)
      BY DEF Retry, IdleTask
    <3> HIDE DEF s
    <3> QED
      BY <3>1, BecomeAt DEF Retry, Retryable
  <2> QED
    BY <1>0, <1>1, <1>3, <2>1, <2>2, <2>4
<1> QED
  BY <1>2, <1>3, RequestAt

\* Every step keeps the invariant about the legacy endpoints' records.
LEMMA LegacyStep == TypeInv /\ LockInv /\ OnceInv /\ LegacyOnceInv /\ [Next]_vars => LegacyOnceInv'
<1> SUFFICES ASSUME TypeInv, LockInv, OnceInv, LegacyOnceInv, [Next]_vars PROVE LegacyOnceInv'
  OBVIOUS
<1> USE DEF LegacyOnceInv, LegacyInv, LegacyAlone, LegacyChargedOnce, At
<1>0. \A t \in Tasks : task[t].pc # "idle" => task[t].run \in Runs
  BY DEF TypeInv, ServesRun
<1>1. ASSUME NEW r \in Runs, LegacyDelete(r) PROVE LegacyOnceInv'
  <2>1. \A q \in Runs : status'[q] = IF q = r THEN "deleted" ELSE status[q]
    BY <1>1 DEF LegacyDelete, DropRow, TypeInv, TypeOK
  <2>2. UNCHANGED <<usage, task>>
    BY <1>1 DEF LegacyDelete
  <2> QED
    BY <1>0, <2>1, <2>2
<1>2. ASSUME UNCHANGED <<status, task>>, \A w \in Writers \ {"chat"}, r \in Runs : usage'[w][r] = usage[w][r]
      PROVE  LegacyOnceInv'
  <2>1. \A r \in Runs : /\ usage'["job"][r] = usage["job"][r]
                       /\ usage'["approval"][r] = usage["approval"][r]
                       /\ usage'["simulation"][r] = usage["simulation"][r]
    BY <1>2 DEF Writers
  <2> QED
    BY <1>0, <1>2, <2>1
<1>3. ChatCounted => \A w \in Writers \ {"chat"}, r \in Runs : usage'[w][r] = usage[w][r]
  BY ChargeAt DEF ChatCounted, Writers
<1> QED
  BY <1>1, <1>2, <1>3, LegacyWork, LegacyRequest DEF Next, StorageDelete, RemovePurchase, ChatCounted, vars

\* A job charges its document at most once and only when it was extracted; the
\* legacy approval adds one charge at most, however many overlap, and only when
\* the row is gone.
THEOREM NoDoubleCharge == Spec => []ChargedOnce
<1>1. OnceInv /\ LegacyOnceInv => ChargedOnce
  BY DEF OnceInv, JobChargedOnce, LegacyOnceInv, LegacyChargedOnce, ChargedOnce, Over
<1> QED
  BY TypeInit, TypeStep, LockInit, LockStep, OnceInit, OnceStep, LegacyInit, LegacyStep, <1>1, PTL DEF Spec

-----------------------------------------------------------------------------
\* The whole inductive invariant holds in every reachable state: of rows, side
\* stores, tasks, locks, drafts and charges.
THEOREM JobsCorrect == Spec => []JobInv
<1>1. OnceInv /\ LegacyOnceInv => ChargedOnce
  BY DEF OnceInv, JobChargedOnce, LegacyOnceInv, LegacyChargedOnce, ChargedOnce, Over
<1>2. TypeInv /\ LockInv /\ DraftInv /\ OnceInv /\ LegacyOnceInv => JobInv
  BY <1>1 DEF JobInv, TypeInv, DraftInv, OnceInv, LegacyOnceInv
<1> QED
  BY TypeInit, TypeStep, LockInit, LockStep, DraftInit, DraftStep, OnceInit, OnceStep, LegacyInit, LegacyStep,
     <1>2, PTL DEF Spec

-----------------------------------------------------------------------------
\* The document stays.

\* The database answers every statement as it executes it.
NoStatementFails == Faults \intersect {"db", "ack"} = {}

\* There is no row at first.
LEMMA DocumentInit == Init => DocumentInv
  BY DEF Init, DocumentInv, Uploaded, Exists, Stored, IdleTask, At

\* Only an upload brings a row with a document into being: a job that runs does
\* not run on a simulated row.
LEMMA RowsFromUploads ==
  ASSUME TypeInv, LockInv, LegacyOnceInv, NEW t \in Tasks, Work(t), ~CreateRun(t),
         NEW q \in Runs, Uploaded(q)'
  PROVE  Uploaded(q)
<1> DEFINE r == task[t].run
<1>1. status \in [Runs -> Statuses] /\ task[t] \in TaskStates /\ Moves(t)
  BY ControlFlow DEF TypeInv, TypeOK
<1>2. /\ \A w \in Runs \ {r} : status'[w] = status[w]
      /\ status[r] = "simulated" /\ task[t].pc \notin JobLabels => status'[r] \in {"simulated", "deleted"}
  BY LegacyRow
<1>3. status[r] = "simulated" => task[t].pc \notin JobLabels
  BY <1>1 DEF LegacyOnceInv, LegacyInv, Moves
<1>4. status[q] # "simulated"
  BY <1>2, <1>3 DEF Uploaded, Exists, Stored
<1>5. CASE Reopen(t)
  <2>1. Reopenable(t) => status[r] \in {"pending", "failed"}
    BY <1>5 DEF Reopen, At, Reopenable, LockInv, SeenRetryable
  <2> QED
    BY <1>1, <1>4, <1>5, <2>1 DEF Reopen, Uploaded, Exists, Stored
<1>6. CASE ~Reopen(t)
  BY <1>1, <1>4, <1>6 DEF Work, StoreFile, CheckQuota, Erase, DropRow, Acquire, Claimable, Lock, Extract, Find,
     Commit, CommitWrites, CanCommit, RecordUsage, CountFailure, NextAttempt, MarkFailed, Remove,
     RecordLegacyUsage, rest, Uploaded, Exists, Stored
<1> QED
  BY <1>5, <1>6

\* A step of work keeps the documents: an upload stores its document before the
\* row is created, and a DELETE ends with its row gone.
LEMMA DocumentWork ==
  ASSUME TypeInv, LockInv, LegacyOnceInv, DocumentInv, NoStatementFails, NEW t \in Tasks, Work(t)
  PROVE  DocumentInv'
<1> DEFINE r == task[t].run
<1>0. Moves(t) /\ r \in Runs
  BY ControlFlow DEF Moves
<1>1. \A u \in Tasks \ {t} : task'[u] = task[u]
  BY <1>0 DEF Moves, Others
<1>2. "db" \notin Faults /\ "ack" \notin Faults
  BY DEF NoStatementFails
<1>3. CASE StoreFile(t)
  <2>1. UNCHANGED <<status, deleting>> /\ files \subseteq files' /\ task[t].pc = "store"
        /\ ((Goto(t, "create") /\ r \in files') \/ End(t))
    BY <1>3 DEF StoreFile, At
  <2>2. r \notin deleting
    BY <2>1 DEF DocumentInv
  <2>3. \/ task'[t].pc = "create" /\ task'[t].run = r /\ r \in files'
        \/ task'[t].pc = "idle"
    BY <1>0, <2>1, EndAt, GotoAt DEF Labels
  <2> QED
    BY <1>1, <2>1, <2>2, <2>3 DEF DocumentInv, Uploaded, Exists, At
<1>4. CASE CreateRun(t)
  <2>1. /\ status' = [status EXCEPT ![r] = "pending"] /\ UNCHANGED <<files, deleting>>
        /\ task[t].pc = "create"
    BY <1>2, <1>4 DEF CreateRun, At
  <2>2. r \in files \ deleting
    BY <2>1 DEF DocumentInv, At
  <2>3. task'[t].pc \notin {"store", "create"}
    BY <1>0, <2>1 DEF Moves, Successors
  <2>4. \A q \in Runs \ {r} : status'[q] = status[q]
    BY <2>1
  <2> QED
    BY <1>1, <2>1, <2>2, <2>3, <2>4 DEF DocumentInv, Uploaded, Exists, At
<1>5. CASE Erase(t)
  <2>1. UNCHANGED <<files, deleting>> /\ task[t].pc = "erase"
        /\ (status' = [status EXCEPT ![r] = "deleted"] \/ (~Exists(r) /\ UNCHANGED status))
    BY <1>2, <1>5 DEF Erase, Erasable, DropRow, At
  <2>0. status \in [Runs -> Statuses]
    BY DEF TypeInv, TypeOK
  <2>2. status'[r] \notin Stored /\ \A q \in Runs \ {r} : status'[q] = status[q]
    <3>1. CASE status' = [status EXCEPT ![r] = "deleted"]
      <4>1. status'[r] = "deleted" /\ \A q \in Runs \ {r} : status'[q] = status[q]
        BY <1>0, <2>0, <3>1
      <4> QED
        BY <4>1 DEF Stored
    <3>2. CASE ~Exists(r) /\ UNCHANGED status
      BY <3>2 DEF Exists
    <3> QED
      BY <2>1, <3>1, <3>2
  <2>3. task'[t].pc = "idle"
    BY <1>0, <2>1 DEF Moves, Successors
  <2>4. ASSUME NEW q \in Runs, Uploaded(q)'
        PROVE  \/ q \in files' \ deleting'
               \/ \E u \in Tasks : At(u, "erase")' /\ task'[u].run = q
    <3>1. q # r /\ Uploaded(q)
      BY <2>2, <2>4 DEF Uploaded, Exists
    <3>2. CASE q \in files \ deleting
      BY <2>1, <3>2
    <3>3. ASSUME NEW u \in Tasks, At(u, "erase"), task[u].run = q
          PROVE  \E w \in Tasks : At(w, "erase")' /\ task'[w].run = q
      <4>1. task'[u] = task[u]
        BY <1>1, <3>1, <3>3
      <4> QED
        BY <3>3, <4>1 DEF At
    <3> QED
      BY <3>1, <3>2, <3>3 DEF DocumentInv
  <2>5. \A u \in Tasks : task'[u].pc \in {"store", "create"} => task'[u] = task[u]
    BY <1>1, <2>3
  <2> QED
    BY <2>1, <2>4, <2>5 DEF DocumentInv, At
<1>6. CASE ~StoreFile(t) /\ ~CreateRun(t) /\ ~Erase(t)
  <2>1. UNCHANGED <<files, deleting>> /\ task[t].pc \notin {"store", "create", "erase", "idle"}
    BY <1>6 DEF Work, CheckQuota, Reopen, Acquire, Extract, Find, Commit, RecordUsage, CountFailure,
       NextAttempt, MarkFailed, Remove, RecordLegacyUsage, rest, At
  <2>2. task'[t].pc \notin {"store", "create"}
    BY <1>0, <2>1 DEF Moves, Successors
  <2>3. \A q \in Runs : Uploaded(q)' => Uploaded(q)
    BY <1>6, RowsFromUploads
  <2> QED
    BY <1>1, <2>1, <2>2, <2>3 DEF DocumentInv, At
<1> QED
  BY <1>3, <1>4, <1>5, <1>6

\* Requests and deletes keep the documents: a document is new to an upload, and
\* a storage delete is that of a DELETE about to drop the row.
LEMMA DocumentStep ==
  ASSUME NoStatementFails
  PROVE  TypeInv /\ LockInv /\ LegacyOnceInv /\ DocumentInv /\ [Next]_vars => DocumentInv'
<1> SUFFICES ASSUME TypeInv, LockInv, LegacyOnceInv, DocumentInv, [Next]_vars PROVE DocumentInv'
  OBVIOUS
<1>1. ASSUME NEW t \in Tasks, NEW r \in Runs, Upload(t, r) PROVE DocumentInv'
  <2>1. Others(t) /\ task'[t].pc = "store" /\ task'[t].run = r /\ task[t].pc = "idle"
        /\ r \notin deleting /\ UNCHANGED <<status, files, deleting>>
    BY <1>1, BeginAt DEF Upload, FreshRun, rest, At
  <2> QED
    BY <2>1 DEF DocumentInv, Others, Uploaded, Exists, At
<1>2. ASSUME NEW t \in Tasks, NEW r \in Runs, Retry(t, r) PROVE DocumentInv'
  <2>1. Others(t) /\ task'[t].pc \notin {"store", "create", "erase"} /\ task[t].pc = "idle"
        /\ UNCHANGED <<status, files, deleting>>
    <3> DEFINE s == [IdleTask EXCEPT !.pc = "quota", !.run = r, !.seen = status[r]]
    <3>1. s.pc = "quota" /\ Become(t, s)
      BY <1>2 DEF Retry, IdleTask
    <3> HIDE DEF s
    <3> QED
      BY <1>2, <3>1, BecomeAt DEF Retry, rest, At
  <2> QED
    BY <2>1 DEF DocumentInv, Others, Uploaded, Exists, At
<1>3. ASSUME NEW t \in Tasks, NEW r \in Runs, Delete(t, r) PROVE DocumentInv'
  <2>1. Others(t) /\ task'[t].pc = "erase" /\ task'[t].run = r /\ task[t].pc = "idle"
        /\ Exists(r) /\ deleting' = deleting \union {r} /\ UNCHANGED <<status, files>>
    BY <1>3, BeginAt DEF Delete, Deletable, At
  <2>2. \A u \in Tasks : task[u].pc \in {"store", "create"} => task[u].run # r
    BY <2>1 DEF LockInv, UploadAlone, Exists, Stored
  <2> QED
    BY <2>1, <2>2 DEF DocumentInv, Others, Uploaded, Exists, At
<1>4. ASSUME NEW r \in Runs, StorageDelete(r) PROVE DocumentInv'
  <2>1. r \in deleting /\ deleting' = deleting \ {r} /\ UNCHANGED <<status, task>>
        /\ files \ {r} \subseteq files'
    BY <1>4 DEF StorageDelete
  <2>2. \A t \in Tasks : task[t].pc = "create" => task[t].run # r
    BY <2>1 DEF DocumentInv
  <2> QED
    BY <2>1, <2>2 DEF DocumentInv, Uploaded, Exists, At
<1>5. ASSUME NEW r \in Runs, LegacyDelete(r) PROVE DocumentInv'
  <2>1. UNCHANGED <<files, deleting, task>> /\ \A q \in Runs : status'[q] = IF q = r THEN "deleted" ELSE status[q]
    BY <1>5 DEF LegacyDelete, DropRow, TypeInv, TypeOK
  <2> QED
    BY <2>1 DEF DocumentInv, Uploaded, Exists, Stored, At
<1>6. CASE UNCHANGED <<status, files, deleting, task>>
  BY <1>6 DEF DocumentInv, Uploaded, Exists, At
<1>7. ASSUME NEW t \in Tasks, NEW r \in Runs, Simulate(t, r) PROVE DocumentInv'
  <2>1. /\ \A q \in Runs : status'[q] = IF q = r THEN "simulated" ELSE status[q]
        /\ UNCHANGED <<files, deleting>> /\ task[t].pc = "idle"
    BY <1>7 DEF Simulate, At, TypeInv, TypeOK
  <2>2. CASE Begin(t, r, "simulated")
    <3>1. Others(t) /\ task'[t].pc = "simulated"
      BY <2>2, BeginAt
    <3> QED
      BY <2>1, <3>1 DEF DocumentInv, Others, Uploaded, Exists, At
  <2>3. CASE UNCHANGED task
    BY <2>1, <2>3 DEF DocumentInv, Uploaded, Exists, At
  <2> QED
    BY <1>7, <2>2, <2>3 DEF Simulate
<1>8. ASSUME NEW t \in Tasks, NEW r \in Runs, Approve(t, r) PROVE DocumentInv'
  <2>1. Others(t) /\ task'[t].pc = "approve" /\ task[t].pc = "idle" /\ UNCHANGED <<status, files, deleting>>
    BY <1>8, BeginAt DEF Approve, rest, At
  <2> QED
    BY <2>1 DEF DocumentInv, Others, Uploaded, Exists, At
<1> QED
  BY <1>1, <1>2, <1>3, <1>4, <1>5, <1>6, <1>7, <1>8, DocumentWork
  DEF Next, Request, RemovePurchase, ChatCounted, vars

\* Unless a statement of the database fails, a document that can still be
\* processed is in the bucket, but for the moment in which a DELETE has sent the
\* storage delete and not yet dropped the row.
THEOREM DocumentsKept == NoStatementFails => (Spec => []DocumentKept)
<1> SUFFICES ASSUME NoStatementFails PROVE Spec => []DocumentKept
  OBVIOUS
<1>1. DocumentInv => DocumentKept
  BY DEF DocumentInv, DocumentKept
<1>2. TypeInv /\ LockInv /\ LegacyOnceInv /\ DocumentInv /\ [Next]_vars => DocumentInv'
  BY DocumentStep
<1> QED
  BY TypeInit, TypeStep, LockInit, LockStep, OnceInit, OnceStep, LegacyInit, LegacyStep, DocumentInit,
     <1>1, <1>2, PTL DEF Spec

-----------------------------------------------------------------------------
\* How far the quota is overrun.

\* A writer's records of a run are numbered from one.
LEMMA RecordsAt ==
  ASSUME NEW w \in Writers, NEW a
  PROVE  a \in RecordsOf(w) <=> \E q \in Runs \union {NoRun} : \E n \in 1 .. usage[w][q] : a = <<w, q, n>>
  BY DEF RecordsOf

\* recordUsage adds one record, to its writer's.
LEMMA RecordAdded ==
  ASSUME TypeInv, NEW w \in Writers, NEW r \in Runs \union {NoRun}, Charge(w, r)
  PROVE  /\ \A v \in Writers \ {w} : RecordsOf(v)' = RecordsOf(v)
         /\ IsFiniteSet(RecordsOf(w)) =>
              IsFiniteSet(RecordsOf(w)') /\ Cardinality(RecordsOf(w)') <= Cardinality(RecordsOf(w)) + 1
<1> PICK x : x = <<w, r, usage[w][r] + 1>>
  OBVIOUS
<1>0. /\ usage \in [Writers -> [Runs \union {NoRun} -> Nat]]
      /\ usage' \in [Writers -> [Runs \union {NoRun} -> Nat]]
      /\ usage'[w][r] = usage[w][r] + 1
      /\ \A v \in Writers, q \in Runs \union {NoRun} : (v # w \/ q # r) => usage'[v][q] = usage[v][q]
  BY ChargeAt DEF TypeInv, TypeOK
<1>1. ASSUME NEW v \in Writers, v # w PROVE RecordsOf(v)' = RecordsOf(v)
  BY <1>0, <1>1 DEF RecordsOf
<1>2. RecordsOf(w)' \subseteq RecordsOf(w) \union {x}
  <2> SUFFICES ASSUME NEW a, a \in RecordsOf(w)', a # x PROVE a \in RecordsOf(w)
    OBVIOUS
  <2>1. PICK q \in Runs \union {NoRun} : \E n \in 1 .. usage'[w][q] : a = <<w, q, n>>
    BY DEF RecordsOf
  <2>2. PICK n \in 1 .. usage'[w][q] : a = <<w, q, n>>
    BY <2>1
  <2>3. n \in 1 .. usage[w][q]
    <3>1. usage[w][q] \in Nat
      BY <1>0
    <3>2. CASE q = r
      <4>1. n # usage[w][r] + 1
        BY <2>2, <3>2
      <4> QED
        BY <1>0, <2>2, <3>1, <3>2, <4>1
    <3>3. CASE q # r
      BY <1>0, <2>2, <3>3
    <3> QED
      BY <3>2, <3>3
  <2> QED
    BY <2>2, <2>3, RecordsAt
<1>3. ASSUME IsFiniteSet(RecordsOf(w))
      PROVE  IsFiniteSet(RecordsOf(w)') /\ Cardinality(RecordsOf(w)') <= Cardinality(RecordsOf(w)) + 1
  <2>1. /\ IsFiniteSet(RecordsOf(w) \union {x})
        /\ Cardinality(RecordsOf(w) \union {x}) =
             IF x \in RecordsOf(w) THEN Cardinality(RecordsOf(w)) ELSE Cardinality(RecordsOf(w)) + 1
    BY <1>3, FS_AddElement
  <2>2. IsFiniteSet(RecordsOf(w)') /\ Cardinality(RecordsOf(w)') <= Cardinality(RecordsOf(w) \union {x})
    BY <1>2, <2>1, FS_Subset
  <2>3. /\ Cardinality(RecordsOf(w)) \in Nat /\ Cardinality(RecordsOf(w)') \in Nat
        /\ Cardinality(RecordsOf(w) \union {x}) \in Nat
    BY <1>3, <2>1, <2>2, FS_CardinalityType
  <2> QED
    BY <2>1, <2>2, <2>3
<1> QED
  BY <1>1, <1>3

\* The records nobody asked the plan for stay finite, and are no job's.
LEMMA UncheckedAdded ==
  ASSUME TypeInv, NEW w \in {"approval", "simulation", "chat"}, NEW r \in Runs \union {NoRun}, Charge(w, r),
         IsFiniteSet(UncheckedRecords)
  PROVE  IsFiniteSet(UncheckedRecords)' /\ UNCHANGED UsageRecords
<1>1. \A v \in {"approval", "simulation", "chat"} : IsFiniteSet(RecordsOf(v)) /\ v \in Writers
  BY FS_Subset DEF UncheckedRecords, Writers
<1>2. /\ \A v \in Writers \ {w} : RecordsOf(v)' = RecordsOf(v)
      /\ IsFiniteSet(RecordsOf(w)')
  BY <1>1, RecordAdded
<1>3. IsFiniteSet(RecordsOf("approval")') /\ IsFiniteSet(RecordsOf("simulation")') /\ IsFiniteSet(RecordsOf("chat")')
  BY <1>1, <1>2
<1>4. IsFiniteSet(UncheckedRecords)'
  BY <1>3, FS_Union DEF UncheckedRecords
<1>5. "job" \in Writers \ {w}
  BY DEF Writers
<1> QED
  BY <1>2, <1>4, <1>5 DEF UsageRecords

\* Nothing is used at first.
LEMMA QuotaInit ==
  ASSUME IsFiniteSet(Tasks), Tasks # {}
  PROVE  Init => QuotaInv
<1> SUFFICES ASSUME Init PROVE QuotaInv
  OBVIOUS
<1>1. UsageRecords = {} /\ UncheckedRecords = {}
  <2>1. ASSUME NEW w \in Writers PROVE RecordsOf(w) = {}
    <3>1. \A q \in Runs \union {NoRun} : usage[w][q] = 0
      BY <2>1 DEF Init
    <3> QED
      BY <3>1, RecordsAt
  <2> QED
    BY <2>1 DEF UsageRecords, UncheckedRecords, Writers
<1>2. Admitted = {}
  BY DEF Init, Admitted, IdleTask
<1>3. Cardinality(Tasks) \in Nat /\ Cardinality(Tasks) # 0
  BY FS_CardinalityType, FS_EmptySet
<1>4. /\ IsFiniteSet(UsageRecords) /\ IsFiniteSet(UncheckedRecords)
      /\ Cardinality(UsageRecords) = 0 /\ Cardinality(Admitted) = 0
  BY <1>1, <1>2, FS_EmptySet
<1> QED
  BY <1>3, <1>4, BoundsAssumption DEF QuotaInv

\* Who is admitted finds room; who records was admitted, and is not any more.
LEMMA QuotaStep ==
  ASSUME IsFiniteSet(Tasks)
  PROVE  TypeInv /\ QuotaInv /\ [Next]_vars => QuotaInv'
<1> SUFFICES ASSUME TypeInv, QuotaInv, [Next]_vars PROVE QuotaInv'
  OBVIOUS
<1>0. /\ Cardinality(Tasks) \in Nat /\ Cardinality(UsageRecords) \in Nat /\ Limit \in Nat
      /\ IsFiniteSet(Admitted) /\ Cardinality(Admitted) \in Nat
      /\ IsFiniteSet(Admitted') /\ Cardinality(Admitted') \in Nat
      /\ Cardinality(Admitted') <= Cardinality(Tasks)
      /\ Cardinality(UsageRecords) + Cardinality(Admitted) < Limit + Cardinality(Tasks)
      /\ IsFiniteSet(UsageRecords) /\ IsFiniteSet(UncheckedRecords) /\ Cardinality(UncheckedRecords) \in Nat
  <2>1. Admitted \subseteq Tasks /\ Admitted' \subseteq Tasks
    BY DEF Admitted
  <2>2. IsFiniteSet(Admitted) /\ IsFiniteSet(Admitted') /\ Cardinality(Admitted') <= Cardinality(Tasks)
    BY <2>1, FS_Subset
  <2> QED
    BY <2>2, FS_CardinalityType, BoundsAssumption DEF QuotaInv
<1>1. ASSUME QuotaAllows, UNCHANGED usage PROVE QuotaInv'
  <2>1. UsageRecords' = UsageRecords /\ UncheckedRecords' = UncheckedRecords
    BY <1>1 DEF UsageRecords, UncheckedRecords, RecordsOf
  <2>2. Cardinality(UsageRecords) < Limit
    BY <1>0, <1>1 DEF QuotaAllows, UsedQuota
  <2> QED
    BY <1>0, <2>1, <2>2 DEF QuotaInv
<1>a. ASSUME UNCHANGED UsageRecords, IsFiniteSet(UncheckedRecords)', Admitted' \subseteq Admitted PROVE QuotaInv'
  <2>1. Cardinality(Admitted') <= Cardinality(Admitted)
    BY <1>0, <1>a, FS_Subset
  <2> QED
    BY <1>0, <1>a, <2>1 DEF QuotaInv
<1>2. ASSUME UNCHANGED usage, Admitted' \subseteq Admitted PROVE QuotaInv'
  <2>1. UsageRecords' = UsageRecords /\ UncheckedRecords' = UncheckedRecords
    BY <1>2 DEF UsageRecords, UncheckedRecords, RecordsOf
  <2> QED
    BY <1>0, <1>2, <1>a, <2>1
<1>3. ASSUME NEW t \in Tasks, Request(t) PROVE QuotaInv'
  <2>1. UNCHANGED usage /\ Others(t) /\ task[t].pc = "idle"
    BY <1>3, RequestAt
  <2>2. CASE QuotaAllows
    BY <1>1, <2>1, <2>2
  <2>3. CASE ~QuotaAllows
    <3>1. task'[t].pc \in {"quota", "erase", "approve", "simulated", "idle"}
      <4>1. ASSUME NEW r \in Runs, Retry(t, r) PROVE task'[t].pc = "quota"
        <5> DEFINE s == [IdleTask EXCEPT !.pc = "quota", !.run = r, !.seen = status[r]]
        <5>1. s.pc = "quota" /\ Become(t, s)
          BY <4>1 DEF Retry, IdleTask
        <5> HIDE DEF s
        <5> QED
          BY <5>1, BecomeAt
      <4>2. ASSUME NEW r \in Runs, Delete(t, r) PROVE task'[t].pc = "erase"
        BY <4>2, BeginAt DEF Delete
      <4>3. ASSUME NEW r \in Runs, Approve(t, r) PROVE task'[t].pc = "approve"
        BY <4>3, BeginAt DEF Approve
      <4>4. ASSUME NEW r \in Runs, Simulate(t, r) PROVE task'[t].pc \in {"simulated", "idle"}
        BY <2>1, <4>4, BeginAt DEF Simulate
      <4> QED
        BY <1>3, <2>3, <4>1, <4>2, <4>3, <4>4 DEF Request, Upload
    <3>2. Admitted' \subseteq Admitted
      BY <2>1, <3>1 DEF Admitted, Others
    <3> QED
      BY <1>2, <2>1, <3>2
  <2> QED
    BY <2>2, <2>3
<1>4. ASSUME NEW t \in Tasks, Work(t) PROVE QuotaInv'
  <2>0. Moves(t) /\ Others(t) /\ task[t].run \in Runs
    BY <1>4, ControlFlow DEF Moves
  <2>1. CASE RecordUsage(t)
    <3>1. task[t].pc = "usage" /\ task'[t].pc = "idle"
      BY <2>0, <2>1 DEF RecordUsage, At, Moves, Successors
    <3>2. Admitted' \subseteq Admitted \ {t} /\ t \in Admitted
      BY <2>0, <3>1 DEF Admitted, Others
    <3>3. IsFiniteSet(Admitted \ {t}) /\ Cardinality(Admitted \ {t}) = Cardinality(Admitted) - 1
      BY <1>0, <3>2, FS_RemoveElement
    <3>4. Cardinality(Admitted') <= Cardinality(Admitted) - 1
      BY <3>2, <3>3, FS_Subset
    <3>5. CASE Charge("job", task[t].run)
      <4>1. /\ \A v \in Writers \ {"job"} : RecordsOf(v)' = RecordsOf(v)
            /\ IsFiniteSet(UsageRecords') /\ Cardinality(UsageRecords') <= Cardinality(UsageRecords) + 1
        BY <1>0, <2>0, <3>5, RecordAdded DEF Writers, UsageRecords
      <4>2. UncheckedRecords' = UncheckedRecords /\ Cardinality(UsageRecords') \in Nat
        BY <4>1, FS_CardinalityType DEF UncheckedRecords, Writers
      <4> QED
        BY <1>0, <3>4, <4>1, <4>2 DEF QuotaInv
    <3>6. CASE UNCHANGED usage
      BY <1>2, <3>2, <3>6
    <3> QED
      BY <2>1, <3>5, <3>6 DEF RecordUsage
  <2>2. CASE CheckQuota(t)
    <3>1. UNCHANGED usage /\ task[t].pc = "quota" /\ (QuotaAllows \/ End(t))
      BY <2>2 DEF CheckQuota, rest, At
    <3>2. CASE QuotaAllows
      BY <1>1, <3>1, <3>2
    <3>3. CASE End(t)
      <4>1. Admitted' \subseteq Admitted
        BY <2>0, <3>3, EndAt DEF Admitted, Others
      <4> QED
        BY <1>2, <3>1, <4>1
    <3> QED
      BY <3>1, <3>2, <3>3
  <2>4. CASE RecordLegacyUsage(t)
    <3>1. task[t].pc \in {"simulated", "approved"} /\ task'[t].pc = "idle"
      BY <2>0, <2>4 DEF RecordLegacyUsage, At, Moves, Successors
    <3>2. Admitted' \subseteq Admitted
      BY <2>0, <3>1 DEF Admitted, Others
    <3>3. CASE UNCHANGED usage
      BY <1>2, <3>2, <3>3
    <3>4. ASSUME NEW w \in {"approval", "simulation", "chat"}, Charge(w, task[t].run) PROVE QuotaInv'
      BY <1>0, <1>a, <2>0, <3>2, <3>4, UncheckedAdded
    <3> QED
      BY <2>4, <3>3, <3>4 DEF RecordLegacyUsage
  <2>3. CASE ~RecordUsage(t) /\ ~CheckQuota(t) /\ ~RecordLegacyUsage(t)
    <3>1. UNCHANGED usage /\ task[t].pc \notin {"idle", "quota", "simulated", "approved"}
      BY <1>4, <2>3 DEF Work, StoreFile, CreateRun, Reopen, Erase, Acquire, Extract, Find, Commit,
         CountFailure, NextAttempt, MarkFailed, Remove, rest, At
    <3>2. /\ task[t].pc = "erase" => task'[t].pc = "idle"
          /\ task[t].pc = "approve" => task'[t].pc \in {"approved", "idle"}
      BY <2>0 DEF Moves, Successors
    <3>3. Admitted' \subseteq Admitted
      BY <2>0, <3>1, <3>2 DEF Admitted, Others
    <3> QED
      BY <1>2, <3>1, <3>3
  <2> QED
    BY <2>1, <2>2, <2>3, <2>4
<1>5. ASSUME UNCHANGED <<usage, task>> PROVE QuotaInv'
  BY <1>2, <1>5 DEF Admitted
<1>6. CASE ChatCounted
  <2>1. Charge("chat", NoRun) /\ Admitted' = Admitted
    BY <1>6 DEF ChatCounted, Admitted
  <2> QED
    BY <1>0, <1>a, <2>1, UncheckedAdded
<1> QED
  BY <1>3, <1>4, <1>5, <1>6 DEF Next, StorageDelete, LegacyDelete, RemovePurchase, vars

\* What is admitted only makes the bound tighter.
LEMMA QuotaHolds ==
  ASSUME IsFiniteSet(Tasks)
  PROVE  QuotaInv => QuotaOverrun
<1> SUFFICES ASSUME QuotaInv PROVE QuotaOverrun
  OBVIOUS
<1>1. IsFiniteSet(Admitted)
  <2>1. Admitted \subseteq Tasks
    BY DEF Admitted
  <2> QED
    BY <2>1, FS_Subset
<1>2. /\ Cardinality(Admitted) \in Nat /\ Cardinality(UsageRecords) \in Nat
      /\ Cardinality(UncheckedRecords) \in Nat /\ Cardinality(Tasks) \in Nat /\ Limit \in Nat
  BY <1>1, FS_CardinalityType, BoundsAssumption DEF QuotaInv
<1> QED
  BY <1>2 DEF QuotaInv, QuotaOverrun, UsedQuota

\* Requests admitted together overrun the plan by less than there are requests,
\* whatever their jobs do, beside what the legacy endpoints and the chats write
\* without asking.
THEOREM QuotaOverrunBounded ==
    IsFiniteSet(Tasks) /\ Tasks # {} => (Spec => []QuotaOverrun)
<1> SUFFICES ASSUME IsFiniteSet(Tasks), Tasks # {} PROVE Spec => []QuotaOverrun
  OBVIOUS
<1>1. TypeInv /\ QuotaInv => QuotaOverrun
  BY QuotaHolds
<1>2. Init => QuotaInv
  BY QuotaInit
<1>3. TypeInv /\ QuotaInv /\ [Next]_vars => QuotaInv'
  BY QuotaStep
<1> QED
  BY TypeInit, TypeStep, <1>1, <1>2, <1>3, PTL DEF Spec

-----------------------------------------------------------------------------
\* How many attempts a row can see.

\* How many attempts a task has left is a number.
LEMMA AttemptsTyped ==
  ASSUME TypeInv, NEW t \in Tasks
  PROVE  AttemptsLeft(t) \in 0 .. MaxRetries /\ (task[t].pc = "idle" => AttemptsLeft(t) = 0)
<1>1. /\ task[t] \in TaskStates /\ MaxRetries \in Nat \ {0} /\ task[t].pc \in Labels
      /\ task[t].attempt \in 0 .. MaxRetries - 1
      /\ (task[t].pc = "delay" => task[t].attempt + 1 < MaxRetries)
  BY BoundsAssumption DEF TypeInv, TypeOK, ServesRun, WillRetry, TaskStates
<1> QED
  BY <1>1 DEF AttemptsLeft, Labels

\* A task has no more attempts ahead after a step but by a request, and one less
\* when it has counted one.
LEMMA AttemptsFall ==
  ASSUME TypeInv, NEW t \in Tasks, Work(t),
         task[t].pc \in {"count", "delay"} => ~task[t].inline
  PROVE  /\ AttemptsLeft(t)' <= AttemptsLeft(t)
         /\ task[t].pc = "count" => AttemptsLeft(t)' <= AttemptsLeft(t) - 1 /\ AttemptsLeft(t) \in Nat \ {0}
         /\ task'[t].pc \in {"count", "delay"} => ~task'[t].inline
<1>0. /\ task[t] \in TaskStates /\ MaxRetries \in Nat \ {0} /\ task[t].pc # "idle"
      /\ task[t].attempt \in 0 .. MaxRetries - 1 /\ task[t].inline \in BOOLEAN
      /\ (task[t].pc = "delay" => task[t].attempt + 1 < MaxRetries)
      /\ AttemptsLeft(t) \in 0 .. MaxRetries
  BY BoundsAssumption, ControlFlow, AttemptsTyped
     DEF TypeInv, TypeOK, ServesRun, WillRetry, TaskStates, Moves
<1>a. ASSUME End(t)
      PROVE  task'[t].pc = "idle" /\ AttemptsLeft(t)' = 0
  BY <1>a, EndAt DEF AttemptsLeft
<1>b. ASSUME NEW l \in Labels, Goto(t, l)
      PROVE  task'[t].pc = l /\ task'[t].inline = task[t].inline /\ task'[t].attempt = task[t].attempt
  BY <1>b, GotoAt
<1>1. CASE StoreFile(t) \/ CheckQuota(t) \/ Extract(t) \/ RecordUsage(t) \/ Erase(t) \/ RecordLegacyUsage(t)
  <2>1. /\ task[t].pc \in {"store", "quota", "core", "usage", "erase", "simulated", "approved"}
        /\ \/ End(t)
           \/ task[t].pc \in {"store", "quota"} /\ \E l \in {"create", "cas"} : Goto(t, l)
           \/ task[t].pc = "core" /\ \E l \in {"find", "mark", "count"} :
                 Goto(t, l) /\ (l = "count" => ~task[t].inline) /\ (l = "mark" => task[t].inline)
    BY <1>1 DEF StoreFile, CheckQuota, Extract, RecordUsage, Erase, RecordLegacyUsage, Catch, At
  <2>2. CASE End(t)
    BY <1>0, <1>a, <2>1, <2>2
  <2>3. ASSUME NEW l \in {"create", "cas"}, Goto(t, l), task[t].pc \in {"store", "quota"}
        PROVE  AttemptsLeft(t)' <= AttemptsLeft(t) /\ task'[t].pc = l
    BY <1>0, <1>b, <2>3 DEF AttemptsLeft, Labels
  <2>4. ASSUME NEW l \in {"find", "mark", "count"}, Goto(t, l), task[t].pc = "core",
               l = "count" => ~task[t].inline, l = "mark" => task[t].inline
        PROVE  AttemptsLeft(t)' <= AttemptsLeft(t) /\ (l = "count" => ~task'[t].inline) /\ task'[t].pc = l
    <3>1. task'[t].pc = l /\ task'[t].inline = task[t].inline /\ task'[t].attempt = task[t].attempt
      BY <1>b, <2>4 DEF Labels
    <3>2. AttemptsLeft(t) = IF task[t].inline THEN MaxRetries ELSE MaxRetries - task[t].attempt
      BY <2>4 DEF AttemptsLeft
    <3>3. CASE task[t].inline
      <4>1. task'[t].inline /\ l # "count"
        BY <2>4, <3>1, <3>3
      <4>2. AttemptsLeft(t)' = MaxRetries
        BY <2>4, <3>1, <4>1 DEF AttemptsLeft
      <4> QED
        BY <1>0, <3>1, <3>2, <3>3, <4>1, <4>2
    <3>4. CASE ~task[t].inline
      <4>1. ~task'[t].inline /\ l # "mark"
        BY <2>4, <3>1, <3>4
      <4>2. AttemptsLeft(t)' = MaxRetries - task[t].attempt
        BY <2>4, <3>1, <4>1 DEF AttemptsLeft
      <4> QED
        BY <1>0, <3>1, <3>2, <3>4, <4>1, <4>2
    <3> QED
      BY <3>3, <3>4
  <2> QED
    BY <2>1, <2>2, <2>3, <2>4
<1>2. CASE CreateRun(t) \/ Reopen(t) \/ Acquire(t)
  <2>1. task[t].pc \in {"create", "cas", "acquire"} /\ AttemptsLeft(t) = MaxRetries
    BY <1>2 DEF CreateRun, Reopen, Acquire, At, AttemptsLeft
  <2>2. task'[t].pc \in {"idle", "acquire", "core"}
    BY <2>1, ControlFlow DEF Moves, Successors
  <2>3. TypeInv'
    BY TypeWork
  <2>4. AttemptsLeft(t)' \in 0 .. MaxRetries
    <3>1. task'[t].attempt \in 0 .. MaxRetries - 1
      BY <2>3 DEF TypeInv, TypeOK, TaskStates
    <3> QED
      BY <1>0, <2>2, <3>1 DEF AttemptsLeft
  <2> QED
    BY <1>0, <2>1, <2>2, <2>4
<1>3. CASE Find(t) \/ Commit(t)
  <2>1. task[t].pc \in {"find", "commit"}
    BY <1>3 DEF Find, Commit, At
  <2>2. /\ task'[t].inline = task[t].inline /\ task'[t].attempt = task[t].attempt
        /\ task'[t].pc \in {"commit", "usage", "mark", "count"}
        /\ (task'[t].pc = "count" => ~task[t].inline) /\ (task'[t].pc = "mark" => task[t].inline)
    <3>1. ASSUME NEW d, NEW new,
                 Become(t, [task[t] EXCEPT !.pc = "commit", !.draft = d, !.creates = new])
          PROVE  task'[t].inline = task[t].inline /\ task'[t].attempt = task[t].attempt /\ task'[t].pc = "commit"
      <4> DEFINE s == [task[t] EXCEPT !.pc = "commit", !.draft = d, !.creates = new]
      <4>1. s.inline = task[t].inline /\ s.attempt = task[t].attempt /\ s.pc = "commit" /\ Become(t, s)
        BY <1>0, <3>1 DEF TaskStates
      <4> HIDE DEF s
      <4> QED
        BY <4>1, BecomeAt
    <3>2. ASSUME CatchCommit(t)
          PROVE  /\ task'[t].inline = task[t].inline /\ task'[t].attempt = task[t].attempt
                 /\ task'[t].pc = IF task[t].inline THEN "mark" ELSE "count"
      <4> DEFINE l == IF task[t].inline THEN "mark" ELSE "count"
                 s == [task[t] EXCEPT !.pc = l, !.draft = {}, !.creates = FALSE]
      <4>1. s.inline = task[t].inline /\ s.attempt = task[t].attempt /\ s.pc = l /\ Become(t, s)
        BY <1>0, <3>2 DEF TaskStates, CatchCommit
      <4> HIDE DEF s
      <4> QED
        BY <4>1, BecomeAt
    <3>3. \/ \E d, new : Become(t, [task[t] EXCEPT !.pc = "commit", !.draft = d, !.creates = new])
          \/ CatchCommit(t) \/ Goto(t, "usage")
          \/ Goto(t, IF task[t].inline THEN "mark" ELSE "count")
      BY <1>3 DEF Find, Commit, Catch
    <3>4. ASSUME Goto(t, IF task[t].inline THEN "mark" ELSE "count")
          PROVE  /\ task'[t].inline = task[t].inline /\ task'[t].attempt = task[t].attempt
                 /\ task'[t].pc = IF task[t].inline THEN "mark" ELSE "count"
      BY <1>b, <3>4 DEF Labels
    <3>5. ASSUME Goto(t, "usage")
          PROVE  task'[t].inline = task[t].inline /\ task'[t].attempt = task[t].attempt /\ task'[t].pc = "usage"
      BY <1>b, <3>5 DEF Labels
    <3> QED
      BY <3>1, <3>2, <3>3, <3>4, <3>5
  <2>3. AttemptsLeft(t) = IF task[t].inline THEN MaxRetries ELSE MaxRetries - task[t].attempt
    BY <2>1 DEF AttemptsLeft
  <2>4. CASE task[t].inline
    <3>1. task'[t].inline /\ task'[t].pc \in {"commit", "usage", "mark"}
      BY <2>2, <2>4
    <3>2. AttemptsLeft(t)' \in {0, MaxRetries}
      BY <3>1 DEF AttemptsLeft
    <3> QED
      BY <1>0, <2>1, <2>3, <2>4, <3>1, <3>2
  <2>5. CASE ~task[t].inline
    <3>1. ~task'[t].inline /\ task'[t].pc \in {"commit", "usage", "count"}
      BY <2>2, <2>5
    <3>2. AttemptsLeft(t)' \in {0, MaxRetries - task[t].attempt}
      BY <2>2, <3>1 DEF AttemptsLeft
    <3> QED
      BY <1>0, <2>1, <2>3, <2>5, <3>1, <3>2
  <2> QED
    BY <2>4, <2>5
<1>4. CASE CountFailure(t)
  <2>1. task[t].pc = "count" /\ ~task[t].inline /\ AttemptsLeft(t) = MaxRetries - task[t].attempt
        /\ (End(t) \/ Goto(t, IF WillRetry(t) THEN "delay" ELSE "mark"))
    BY <1>0, <1>4 DEF CountFailure, At, AttemptsLeft
  <2>2. CASE End(t)
    BY <1>0, <1>a, <2>1, <2>2
  <2>3. ASSUME Goto(t, IF WillRetry(t) THEN "delay" ELSE "mark")
        PROVE  /\ task'[t].inline = task[t].inline /\ task'[t].attempt = task[t].attempt
               /\ task'[t].pc = IF WillRetry(t) THEN "delay" ELSE "mark"
    BY <1>b, <2>3 DEF Labels
  <2>4. CASE Goto(t, IF WillRetry(t) THEN "delay" ELSE "mark")
    BY <1>0, <2>1, <2>3, <2>4 DEF AttemptsLeft
  <2> QED
    BY <2>1, <2>2, <2>4
<1>5. CASE NextAttempt(t)
  <2> DEFINE s == [task[t] EXCEPT !.pc = "core", !.attempt = @ + 1]
  <2>1. s.pc = "core" /\ s.inline = task[t].inline /\ s.attempt = task[t].attempt + 1 /\ Become(t, s)
        /\ task[t].pc = "delay"
    BY <1>0, <1>5 DEF NextAttempt, TaskStates, At
  <2> HIDE DEF s
  <2>2. task'[t].pc = "core" /\ task'[t].inline = task[t].inline /\ task'[t].attempt = task[t].attempt + 1
    BY <2>1, BecomeAt
  <2> QED
    BY <1>0, <2>1, <2>2 DEF AttemptsLeft
<1>6. CASE MarkFailed(t)
  <2>1. task[t].pc = "mark"
    BY <1>6 DEF MarkFailed, At
  <2>2. CASE End(t)
    BY <1>0, <1>a, <2>1, <2>2
  <2>3. CASE ~End(t)
    <3> DEFINE s == [task[t] EXCEPT !.pc = "acquire", !.inline = FALSE]
    <3>1. s.pc = "acquire" /\ task[t].inline /\ Become(t, s)
      BY <1>0, <1>6, <2>3 DEF MarkFailed, AfterMark, TaskStates
    <3> HIDE DEF s
    <3>2. task'[t].pc = "acquire"
      BY <3>1, BecomeAt
    <3> QED
      BY <1>0, <2>1, <3>1, <3>2 DEF AttemptsLeft
  <2> QED
    BY <2>2, <2>3
<1>7. CASE Remove(t)
  <2>1. task[t].pc = "approve" /\ task'[t].pc \in {"approved", "idle"}
    BY <1>7, ControlFlow DEF Remove, At, Moves, Successors
  <2> QED
    BY <1>0, <2>1 DEF AttemptsLeft
<1> QED
  BY <1>1, <1>2, <1>3, <1>4, <1>5, <1>6, <1>7 DEF Work

\* What is ahead of a row is made of the attempts of the tasks that serve it.
LEMMA AttemptsBounded ==
  ASSUME IsFiniteSet(Tasks), NEW S \in SUBSET (Tasks \X (1 .. MaxRetries))
  PROVE  IsFiniteSet(S) /\ Cardinality(S) \in Nat /\ Cardinality(S) <= MaxRetries * Cardinality(Tasks)
<1>0. MaxRetries \in Nat /\ MaxRetries # 0
  BY BoundsAssumption
<1>1. IsFiniteSet(1 .. MaxRetries) /\ Cardinality(1 .. MaxRetries) = MaxRetries
  BY <1>0, FS_Interval
<1>2. IsFiniteSet(Tasks \X (1 .. MaxRetries))
      /\ Cardinality(Tasks \X (1 .. MaxRetries)) = Cardinality(Tasks) * MaxRetries
  BY <1>1, FS_Product
<1>3. IsFiniteSet(S) /\ Cardinality(S) <= Cardinality(Tasks \X (1 .. MaxRetries))
  BY <1>2, FS_Subset
<1>4. Cardinality(S) \in Nat /\ Cardinality(Tasks) \in Nat
  BY <1>3, FS_CardinalityType
<1>5. Cardinality(Tasks) * MaxRetries = MaxRetries * Cardinality(Tasks)
  BY <1>0, <1>4
<1> QED
  BY <1>2, <1>3, <1>4, <1>5

\* The attempts ahead of a row are no more than the tasks have among them.
LEMMA AheadFinite ==
  ASSUME IsFiniteSet(Tasks), NEW r
  PROVE  /\ IsFiniteSet(AttemptsAhead(r)) /\ Cardinality(AttemptsAhead(r)) \in Nat
         /\ Cardinality(AttemptsAhead(r)) <= MaxRetries * Cardinality(Tasks)
<1>1. AttemptsAhead(r) \subseteq Tasks \X (1 .. MaxRetries)
  BY DEF AttemptsAhead
<1> QED
  BY <1>1, AttemptsBounded

\* A task that steps on, or ends, adds nothing to what is ahead.
LEMMA AheadFalls ==
  ASSUME NEW t \in Tasks, Others(t), task'[t].run \in {task[t].run, NoRun}, NEW r \in Runs,
         AttemptsLeft(t)' <= AttemptsLeft(t), AttemptsLeft(t) \in Nat, AttemptsLeft(t)' \in Nat
  PROVE  AttemptsAhead(r)' \subseteq AttemptsAhead(r)
<1> SUFFICES ASSUME NEW u \in Tasks, NEW k \in 1 .. MaxRetries,
                    task'[u].run = r, k <= AttemptsLeft(u)'
             PROVE  task[u].run = r /\ k <= AttemptsLeft(u)
  BY DEF AttemptsAhead
<1>0. r # NoRun
  BY NoRunAssumption
<1>1. CASE u = t
  <2>1. task[u].run = r
    BY <1>0, <1>1
  <2>2. k <= AttemptsLeft(t)'
    BY <1>1
  <2> QED
    BY <1>1, <2>1, <2>2
<1>2. CASE u # t
  <2>1. task'[u] = task[u]
    BY <1>2 DEF Others
  <2>2. AttemptsLeft(u)' = AttemptsLeft(u)
    BY <2>1 DEF AttemptsLeft
  <2> QED
    BY <2>1, <2>2
<1> QED
  BY <1>1, <1>2

\* A row may see what it has seen and what is ahead.
RowBounded(r) ==
    /\ status[r] = "none" => retryCount[r] = 0
    /\ retryCount[r] + Cardinality(AttemptsAhead(r)) < MaxManualRetries + MaxRetries * Cardinality(Tasks)

\* No attempt is ahead of a row at first.
LEMMA RetryInit ==
  ASSUME IsFiniteSet(Tasks)
  PROVE  Init => RetryInv
<1> SUFFICES ASSUME Init PROVE RetryInv
  OBVIOUS
<1>1. \A t \in Tasks : task[t].pc = "idle" /\ task[t].run = NoRun
  BY DEF Init, IdleTask
<1>2. ASSUME NEW r \in Runs PROVE RowBounded(r)
  <2>1. retryCount[r] = 0
    BY DEF Init
  <2>2. AttemptsAhead(r) = {}
    BY <1>1, NoRunAssumption DEF AttemptsAhead
  <2>3. Cardinality(AttemptsAhead(r)) = 0
    BY <2>2, FS_EmptySet
  <2>4. Cardinality(Tasks) \in Nat /\ MaxRetries \in Nat /\ MaxManualRetries \in Nat \ {0}
    BY FS_CardinalityType, BoundsAssumption
  <2>5. MaxRetries * Cardinality(Tasks) \in Nat
    BY <2>4
  <2> QED
    BY <2>1, <2>3, <2>4, <2>5 DEF RowBounded
<1> QED
  BY <1>1, <1>2 DEF RetryInv, RowBounded

\* Where fewer attempts were made than the manual limit, there is room for all
\* that any tasks can have ahead.
LEMMA RoomBelowLimit ==
  ASSUME IsFiniteSet(Tasks), NEW r \in Runs, retryCount'[r] \in Nat, retryCount'[r] < MaxManualRetries,
         status'[r] = "none" => retryCount'[r] = 0
  PROVE  RowBounded(r)'
<1>1. Cardinality(AttemptsAhead(r)') \in Nat
      /\ Cardinality(AttemptsAhead(r)') <= MaxRetries * Cardinality(Tasks)
  <2>1. AttemptsAhead(r)' \subseteq Tasks \X (1 .. MaxRetries)
    BY DEF AttemptsAhead
  <2> QED
    BY <2>1, AttemptsBounded
<1>2. MaxRetries * Cardinality(Tasks) \in Nat
  <2>1. Cardinality(Tasks) \in Nat /\ MaxRetries \in Nat
    BY FS_CardinalityType, BoundsAssumption
  <2> QED
    BY <2>1
<1> QED
  BY <1>1, <1>2, BoundsAssumption DEF RowBounded

\* Where nothing is counted, less is ahead.
LEMMA RoomKept ==
  ASSUME IsFiniteSet(Tasks), TypeInv, NEW r \in Runs, RowBounded(r), retryCount'[r] = retryCount[r],
         AttemptsAhead(r)' \subseteq AttemptsAhead(r), status'[r] = "none" => status[r] = "none"
  PROVE  RowBounded(r)'
<1>1. Cardinality(AttemptsAhead(r)') <= Cardinality(AttemptsAhead(r))
  BY AheadFinite, FS_Subset
<1>2. Cardinality(AttemptsAhead(r)') \in Nat /\ Cardinality(AttemptsAhead(r)) \in Nat
      /\ MaxRetries * Cardinality(Tasks) \in Nat /\ retryCount[r] \in Nat
  <2>1. IsFiniteSet(AttemptsAhead(r)) /\ IsFiniteSet(AttemptsAhead(r)')
    BY AheadFinite, FS_Subset
  <2>2. Cardinality(Tasks) \in Nat /\ MaxRetries \in Nat
    BY FS_CardinalityType, BoundsAssumption
  <2> QED
    BY <2>1, <2>2, FS_CardinalityType DEF TypeInv, TypeOK
<1>3. retryCount[r] + Cardinality(AttemptsAhead(r)) < MaxManualRetries + MaxRetries * Cardinality(Tasks)
  BY DEF RowBounded
<1>4. retryCount[r] + Cardinality(AttemptsAhead(r)') < MaxManualRetries + MaxRetries * Cardinality(Tasks)
  BY <1>1, <1>2, <1>3, BoundsAssumption
<1> QED
  BY <1>4 DEF RowBounded

\* A row never goes back to where it was before its upload.
LEMMA RowsStayKnown ==
  ASSUME TypeInv, LockInv, [Next]_vars, NEW r \in Runs, status'[r] = "none"
  PROVE  status[r] = "none"
<1>1. status \in [Runs -> Statuses]
  BY DEF TypeInv, TypeOK
<1>2. ASSUME NEW t \in Tasks, Reopen(t) PROVE status[r] = "none"
  BY <1>1, <1>2 DEF Reopen
<1>3. ASSUME NEW t \in Tasks, Work(t), ~Reopen(t) PROVE status[r] = "none"
  BY <1>1, <1>3 DEF Work, StoreFile, CreateRun, CheckQuota, Erase, DropRow, Acquire, Lock, Extract, Find,
     Commit, CommitWrites, RecordUsage, CountFailure, NextAttempt, MarkFailed, Remove, RecordLegacyUsage, rest
<1>4. ASSUME NEW t \in Tasks, Request(t) PROVE status[r] = "none"
  BY <1>1, <1>4, RequestAt DEF Simulates
<1>5. ASSUME NEW q \in Runs, LegacyDelete(q) PROVE status[r] = "none"
  BY <1>1, <1>5 DEF LegacyDelete, DropRow
<1> QED
  BY <1>2, <1>3, <1>4, <1>5 DEF Next, StorageDelete, RemovePurchase, ChatCounted, vars

\* Work counts the attempts that were ahead, and no others.
LEMMA RetryWork ==
  ASSUME IsFiniteSet(Tasks), TypeInv, LockInv, RetryInv, NEW t \in Tasks, Work(t)
  PROVE  RetryInv'
<1> PICK o : o = task[t].run
  OBVIOUS
<1>0. Moves(t) /\ Others(t) /\ o \in Runs /\ TypeInv'
      /\ task'[t].run \in {task[t].run, NoRun} /\ [Next]_vars
  BY ControlFlow, TypeWork DEF Moves, Next
<1>1. /\ AttemptsLeft(t)' <= AttemptsLeft(t)
      /\ (task[t].pc = "count" => AttemptsLeft(t)' <= AttemptsLeft(t) - 1 /\ AttemptsLeft(t) \in Nat \ {0})
      /\ (task'[t].pc \in {"count", "delay"} => ~task'[t].inline)
  <2>1. task[t].pc \in {"count", "delay"} => ~task[t].inline
    BY DEF RetryInv
  <2> QED
    BY <2>1, AttemptsFall
<1>2. AttemptsLeft(t) \in 0 .. MaxRetries
  BY AttemptsTyped
<1>3. AttemptsLeft(t)' \in 0 .. MaxRetries
  <2>1. /\ task'[t] \in TaskStates /\ MaxRetries \in Nat \ {0} /\ task'[t].pc \in Labels
        /\ task'[t].attempt \in 0 .. MaxRetries - 1
        /\ (task'[t].pc = "delay" => task'[t].attempt + 1 < MaxRetries)
    BY <1>0, BoundsAssumption DEF TypeInv, TypeOK, ServesRun, WillRetry, TaskStates
  <2> QED
    BY <2>1 DEF AttemptsLeft, Labels
<1> DEFINE left == AttemptsLeft(t)
<1>4. ASSUME NEW r \in Runs PROVE AttemptsAhead(r)' \subseteq AttemptsAhead(r) /\ RowBounded(r)
  <2>1. left \in Nat /\ left' \in Nat
    BY <1>2, <1>3, BoundsAssumption
  <2> QED
    BY <1>0, <1>1, <2>1, AheadFalls DEF RetryInv, RowBounded
<1>5. ASSUME NEW r \in Runs PROVE RowBounded(r)'
  <2>1. status'[r] = "none" => status[r] = "none"
    BY <1>0, RowsStayKnown
  <2>2. CASE retryCount'[r] = retryCount[r]
    BY <1>4, <2>1, <2>2, RoomKept
  <2>3. CASE retryCount'[r] # retryCount[r]
    <3>1. CountFailure(t)
      BY <2>3 DEF Work, StoreFile, CreateRun, CheckQuota, Reopen, Erase, Acquire, Extract, Find, Commit,
         RecordUsage, NextAttempt, MarkFailed, Remove, RecordLegacyUsage, rest
    <3>2. task[t].pc = "count" /\ Exists(o) /\ UNCHANGED status
          /\ retryCount' = [retryCount EXCEPT ![o] = @ + 1]
      BY <2>3, <3>1 DEF CountFailure, At
    <3>3. r = o /\ retryCount'[r] = retryCount[r] + 1 /\ status'[r] # "none" /\ retryCount[r] \in Nat
      BY <2>3, <3>2 DEF TypeInv, TypeOK, Exists, Stored
    <3> PICK k : k = AttemptsLeft(t)
      OBVIOUS
    <3>4. k \in 1 .. MaxRetries /\ AttemptsLeft(t)' <= k - 1
      BY <1>1, <1>2, <3>2
    <3>5. <<t, k>> \in AttemptsAhead(r)
      BY <3>3, <3>4 DEF AttemptsAhead
    <3>6. <<t, k>> \notin AttemptsAhead(r)'
      <4> SUFFICES ASSUME <<t, k>> \in AttemptsAhead(r)' PROVE FALSE
        OBVIOUS
      <4>1. k <= AttemptsLeft(t)'
        BY DEF AttemptsAhead
      <4> QED
        BY <1>3, <3>4, <4>1, BoundsAssumption
    <3>7. AttemptsAhead(r)' \subseteq AttemptsAhead(r) \ {<<t, k>>}
      BY <1>4, <3>6
    <3>8. /\ IsFiniteSet(AttemptsAhead(r) \ {<<t, k>>})
          /\ Cardinality(AttemptsAhead(r) \ {<<t, k>>}) = Cardinality(AttemptsAhead(r)) - 1
      BY <3>5, AheadFinite, FS_RemoveElement
    <3>9. /\ Cardinality(AttemptsAhead(r)') <= Cardinality(AttemptsAhead(r)) - 1
          /\ IsFiniteSet(AttemptsAhead(r)')
      BY <3>7, <3>8, FS_Subset
    <3>10. Cardinality(AttemptsAhead(r)') \in Nat /\ Cardinality(AttemptsAhead(r)) \in Nat
           /\ MaxRetries * Cardinality(Tasks) \in Nat
      <4>1. Cardinality(Tasks) \in Nat /\ MaxRetries \in Nat
        BY FS_CardinalityType, BoundsAssumption
      <4> QED
        BY <3>9, <4>1, AheadFinite, FS_CardinalityType
    <3>11. retryCount[r] + Cardinality(AttemptsAhead(r)) < MaxManualRetries + MaxRetries * Cardinality(Tasks)
      BY <1>4 DEF RowBounded
    <3>12. retryCount'[r] + Cardinality(AttemptsAhead(r)') < MaxManualRetries + MaxRetries * Cardinality(Tasks)
      BY <3>3, <3>9, <3>10, <3>11, BoundsAssumption
    <3> QED
      BY <3>3, <3>12 DEF RowBounded
  <2> QED
    BY <2>2, <2>3
<1>6. \A u \in Tasks : task'[u].pc \in {"count", "delay"} => ~task'[u].inline
  BY <1>0, <1>1 DEF RetryInv, Others
<1> QED
  BY <1>5, <1>6 DEF RetryInv, RowBounded

\* A request begins below the manual limit, or has nothing ahead.
LEMMA RetryRequest ==
  ASSUME IsFiniteSet(Tasks), TypeInv, LockInv, RetryInv, NEW t \in Tasks, Request(t)
  PROVE  RetryInv'
<1>0. /\ Others(t) /\ task[t].pc = "idle"
      /\ task'[t].pc \in {"store", "quota", "erase", "approve", "simulated", "idle"}
      /\ UNCHANGED retryCount /\ [Next]_vars
  BY RequestAt DEF Simulates, Request, Upload, Retry, Delete, Simulate, Approve, rest, Next
<1>1. PICK o \in Runs : Upload(t, o) \/ Retry(t, o) \/ Delete(t, o) \/ Simulate(t, o) \/ Approve(t, o)
  BY DEF Request
<1>2. task'[t].pc \in {"store", "quota"} => task'[t].run = o /\ retryCount[o] < MaxManualRetries
  <2>1. CASE Upload(t, o)
    BY <2>1, BeginAt, BoundsAssumption DEF Upload, FreshRun, RetryInv
  <2>2. CASE Retry(t, o)
    <3> DEFINE s == [IdleTask EXCEPT !.pc = "quota", !.run = o, !.seen = status[o]]
    <3>1. s.run = o /\ Become(t, s) /\ retryCount[o] < MaxManualRetries
      BY <2>2 DEF Retry, Retryable, IdleTask
    <3> HIDE DEF s
    <3> QED
      BY <3>1, BecomeAt
  <2>3. CASE Delete(t, o)
    BY <2>3, BeginAt DEF Delete
  <2>4. CASE Approve(t, o)
    BY <2>4, BeginAt DEF Approve
  <2>5. CASE Simulate(t, o)
    <3>1. task'[t].pc \in {"simulated", "idle"}
      BY <1>0, <2>5, BeginAt DEF Simulate
    <3> QED
      BY <3>1
  <2> QED
    BY <1>1, <2>1, <2>2, <2>3, <2>4, <2>5
<1>4. ASSUME NEW r \in Runs PROVE RowBounded(r)'
  <2>0. /\ retryCount'[r] = retryCount[r] /\ retryCount[r] \in Nat /\ RowBounded(r)
        /\ status'[r] = "none" => status[r] = "none"
    BY <1>0, RowsStayKnown DEF TypeInv, TypeOK, RetryInv, RowBounded
  <2>1. CASE retryCount[r] < MaxManualRetries
    BY <2>0, <2>1, RoomBelowLimit DEF RowBounded
  <2>2. CASE ~(retryCount[r] < MaxManualRetries)
    <3>1. task'[t].pc \in {"store", "quota"} => task'[t].run # r
      BY <1>2, <2>2
    <3>2. AttemptsAhead(r)' \subseteq AttemptsAhead(r)
      <4> SUFFICES ASSUME NEW u \in Tasks, NEW k \in 1 .. MaxRetries,
                          task'[u].run = r, k <= AttemptsLeft(u)'
                   PROVE  task[u].run = r /\ k <= AttemptsLeft(u)
        BY DEF AttemptsAhead
      <4>1. CASE u = t
        <5>1. task'[t].pc \in {"erase", "approve", "simulated", "idle"}
          BY <1>0, <3>1, <4>1
        <5>2. AttemptsLeft(u)' = 0
          BY <4>1, <5>1 DEF AttemptsLeft
        <5> QED
          BY <5>2
      <4>2. CASE u # t
        <5>1. task'[u] = task[u]
          BY <1>0, <4>2 DEF Others
        <5>2. AttemptsLeft(u)' = AttemptsLeft(u)
          BY <5>1 DEF AttemptsLeft
        <5> QED
          BY <5>1, <5>2
      <4> QED
        BY <4>1, <4>2
    <3> QED
      BY <2>0, <3>2, RoomKept
  <2> QED
    BY <2>1, <2>2
<1>5. \A u \in Tasks : task'[u].pc \in {"count", "delay"} => ~task'[u].inline
  BY <1>0 DEF RetryInv, Others
<1> QED
  BY <1>4, <1>5 DEF RetryInv, RowBounded

\* A row is attempted only out of what is ahead of it, and a request joins it only
\* below the manual limit.
LEMMA RetryStep ==
  ASSUME IsFiniteSet(Tasks)
  PROVE  TypeInv /\ LockInv /\ RetryInv /\ [Next]_vars => RetryInv'
<1> SUFFICES ASSUME TypeInv, LockInv, RetryInv, [Next]_vars PROVE RetryInv'
  OBVIOUS
<1>1. ASSUME UNCHANGED <<retryCount, task>> PROVE RetryInv'
  <2>1. ASSUME NEW r \in Runs PROVE RowBounded(r)'
    <3>1. AttemptsAhead(r)' = AttemptsAhead(r)
      BY <1>1 DEF AttemptsAhead, AttemptsLeft
    <3>2. status'[r] = "none" => status[r] = "none"
      BY RowsStayKnown
    <3> QED
      BY <1>1, <3>1, <3>2 DEF RetryInv, RowBounded
  <2> QED
    BY <1>1, <2>1 DEF RetryInv, RowBounded
<1> QED
  BY <1>1, RetryRequest, RetryWork DEF Next, StorageDelete, LegacyDelete, RemovePurchase, ChatCounted, vars

\* A document sees fewer attempts than the manual limit and one job for each
\* request that may be in flight, although retry() compares the count of a
\* statement before with the status of the next.
THEOREM RetryOverrunBounded == IsFiniteSet(Tasks) => (Spec => []RetryOverrun)
<1> SUFFICES ASSUME IsFiniteSet(Tasks) PROVE Spec => []RetryOverrun
  OBVIOUS
<1>1. TypeInv /\ RetryInv => RetryOverrun
  <2> SUFFICES ASSUME TypeInv, RetryInv, NEW r \in Runs
               PROVE  retryCount[r] < MaxManualRetries + MaxRetries * Cardinality(Tasks)
    BY DEF RetryOverrun
  <2>1. Cardinality(AttemptsAhead(r)) \in Nat /\ retryCount[r] \in Nat
    BY AheadFinite DEF TypeInv, TypeOK
  <2>2. MaxRetries * Cardinality(Tasks) \in Nat /\ MaxManualRetries \in Nat
    <3>1. Cardinality(Tasks) \in Nat /\ MaxRetries \in Nat
      BY FS_CardinalityType, BoundsAssumption
    <3> QED
      BY <3>1, BoundsAssumption
  <2>3. retryCount[r] + Cardinality(AttemptsAhead(r)) < MaxManualRetries + MaxRetries * Cardinality(Tasks)
    BY DEF RetryInv
  <2> QED
    BY <2>1, <2>2, <2>3
<1>2. Init => RetryInv
  BY RetryInit
<1>3. TypeInv /\ LockInv /\ RetryInv /\ [Next]_vars => RetryInv'
  BY RetryStep
<1> QED
  BY TypeInit, TypeStep, LockInit, LockStep, <1>1, <1>2, <1>3, PTL DEF Spec

-----------------------------------------------------------------------------
\* The pipeline implements its contract, when every statement that is applied
\* is reported as applied.

\* Over a run while its job runs only a DELETE can come.
Running == {"processing", "deleted"}

\* Nothing runs and there is no draft at first.
LEMMA OverInit == Init => OverInv
  BY DEF Init, OverInv, IdleTask, Executing

\* What a step that changes no status but run r's has to respect.
KeepsOver(t, r) ==
    /\ Others(t)
    /\ \A q \in Runs \ {r} : status'[q] = status[q]
    /\ task'[t].pc \in Executing => task'[t].run = r /\ status'[r] \in Running
    /\ \A u \in Tasks \ {t} : Holds(u, r) => status'[r] \in Running
    /\ status[r] \in Over => status'[r] \in Over
    /\ \A p \in purchases' : p \notin purchases => p.run = r /\ status'[r] \in Over

\* A step that respects the run it touches keeps the invariant.
LEMMA OverKept ==
  ASSUME TypeInv, OverInv, NEW t \in Tasks, NEW r \in Runs, KeepsOver(t, r)
  PROVE  OverInv'
<1>1. \A u \in Tasks : task[u].pc # "idle" => task[u].run \in Runs
  BY DEF TypeInv, ServesRun
<1>2. \A p \in purchases : p.run \in Runs
  BY DEF TypeInv, TypeOK, Purchases
<1>3. ASSUME NEW u \in Tasks, task'[u].pc \in Executing
      PROVE  status'[task'[u].run] \in Running
  <2>1. CASE u = t
    BY <1>3, <2>1 DEF KeepsOver
  <2>2. CASE u # t
    <3>1. task'[u] = task[u] /\ task[u].pc \in Executing /\ task[u].run \in Runs
      BY <1>1, <1>3, <2>2 DEF KeepsOver, Others, Executing
    <3>2. task[u].run = r => Holds(u, r)
      BY <3>1 DEF Holds
    <3> QED
      BY <2>2, <3>1, <3>2 DEF KeepsOver, OverInv, Running
  <2> QED
    BY <2>1, <2>2
<1>4. \A p \in purchases' : status'[p.run] \in Over
  BY <1>2 DEF KeepsOver, OverInv, Over
<1> QED
  BY <1>3, <1>4 DEF OverInv, Running, Over

\* The steps of work in progress keep the invariant: the only commit a job does
\* not know of is one that was reported as failed.
LEMMA OverWork ==
  ASSUME "ack" \notin Faults, TypeInv, LockInv, OverInv, NEW t \in Tasks, Work(t)
  PROVE  OverInv'
<1> DEFINE r == task[t].run
<1>0. Moves(t) /\ r \in Runs /\ Others(t) /\ status \in [Runs -> Statuses]
  BY ControlFlow DEF TypeInv, TypeOK, Moves
<1>a. \A u \in Tasks : Holds(u, r) => status[r] \in Running
  BY DEF OverInv, Holds, Running
<1>b. task[t].pc \in Executing => status[r] \in Running /\ \A u \in Tasks \ {t} : ~Holds(u, r)
  BY <1>0 DEF OverInv, Running, LockInv, Exclusive, Holds
<1> USE DEF KeepsOver, Running, Over
<1>1. CASE UNCHANGED <<status, purchases>> /\ (task'[t].pc \in Executing => task[t].pc \in Executing)
  <2>1. task'[t].pc \in Executing => task'[t].run = r
    BY <1>0 DEF Moves, Executing
  <2> QED
    BY <1>0, <1>1, <1>a, <1>b, <2>1, OverKept
<1>2. CASE StoreFile(t) \/ CheckQuota(t) \/ Extract(t) \/ Find(t) \/ RecordUsage(t) \/ CountFailure(t)
           \/ NextAttempt(t) \/ RecordLegacyUsage(t)
  <2>1. UNCHANGED <<status, purchases>>
    BY <1>2 DEF StoreFile, CheckQuota, Extract, Find, RecordUsage, CountFailure, NextAttempt,
       RecordLegacyUsage, rest
  <2>2. task[t].pc \in {"store", "quota", "core", "find", "usage", "count", "delay", "simulated", "approved"}
    BY <1>2 DEF StoreFile, CheckQuota, Extract, Find, RecordUsage, CountFailure, NextAttempt,
       RecordLegacyUsage, At
  <2>3. task'[t].pc \in Executing => task[t].pc \in Executing
    BY <1>0, <2>2 DEF Moves, Successors, Executing
  <2> QED
    BY <1>1, <2>1, <2>3
<1>3. CASE CreateRun(t)
  <2>1. task[t].pc = "create" /\ UNCHANGED purchases
        /\ (UNCHANGED status \/ status' = [status EXCEPT ![r] = "pending"])
    BY <1>3 DEF CreateRun, At
  <2>2. status[r] = "none" /\ task'[t].pc \notin Executing
    BY <1>0, <2>1 DEF LockInv, UploadAlone, Moves, Successors, Executing
  <2> QED
    BY <1>0, <1>a, <2>1, <2>2, OverKept
<1>4. CASE Reopen(t)
  <2>1. task[t].pc = "cas" /\ UNCHANGED purchases
    BY <1>4 DEF Reopen, At
  <2>2. task'[t].pc \notin Executing
    BY <1>0, <2>1 DEF Moves, Successors, Executing
  <2>3. CASE UNCHANGED status
    BY <1>1, <2>1, <2>2, <2>3
  <2>4. CASE Reopenable(t) /\ status' = [status EXCEPT ![r] = "pending"]
    <3>1. status[r] \in {"pending", "failed"}
      BY <2>1, <2>4 DEF Reopenable, LockInv, SeenRetryable
    <3> QED
      BY <1>0, <1>a, <2>1, <2>2, <2>4, <3>1, OverKept
  <2> QED
    BY <1>4, <2>3, <2>4 DEF Reopen
<1>5. CASE Erase(t) \/ Remove(t)
  <2>1. task[t].pc \in {"erase", "approve"} /\ UNCHANGED purchases
        /\ (UNCHANGED status \/ status' = [status EXCEPT ![r] = "deleted"])
    BY <1>5 DEF Erase, Remove, At, DropRow
  <2>2. task'[t].pc \notin Executing
    BY <1>0, <2>1 DEF Moves, Successors, Executing
  <2> QED
    BY <1>0, <1>a, <2>1, <2>2, OverKept
<1>6. CASE Acquire(t)
  <2>1. task[t].pc = "acquire" /\ UNCHANGED purchases
    BY <1>6 DEF Acquire, At
  <2>2. CASE Claimable(r) /\ Lock(r)
    <3>1. status[r] \in {"pending", "failed"} /\ status' = [status EXCEPT ![r] = "processing"]
      BY <2>2 DEF Claimable, Lock
    <3>2. task'[t].pc \in Executing => task'[t].run = r
      BY <1>0 DEF Moves, Executing
    <3> QED
      BY <1>0, <1>a, <2>1, <3>1, <3>2, OverKept
  <2>3. CASE UNCHANGED status /\ NotLocked(t)
    <3>1. task'[t].pc \notin Executing
      <4> DEFINE s == [task[t] EXCEPT !.inline = FALSE]
      <4>1. s.pc = "acquire" /\ (Become(t, s) \/ End(t))
        BY <2>1, <2>3 DEF NotLocked, TypeInv, TypeOK, TaskStates
      <4> HIDE DEF s
      <4> QED
        BY <4>1, BecomeAt, EndAt DEF Executing
    <3> QED
      BY <1>1, <2>1, <2>3, <3>1
  <2> QED
    BY <1>6, <2>2, <2>3 DEF Acquire
<1>7. CASE Commit(t)
  <2>1. task[t].pc = "commit"
    BY <1>7 DEF Commit, At
  <2>2. CASE UNCHANGED <<status, purchases>>
    BY <1>1, <2>1, <2>2 DEF Executing
  <2>3. CASE CommitWrites(t) /\ Goto(t, "usage")
    <3>1. task'[t].pc = "usage"
      BY <2>3, GotoAt DEF Labels
    <3>2. status' = [status EXCEPT ![r] = "processed"]
      BY <2>3 DEF CommitWrites
    <3>3. \A p \in purchases' : p \notin purchases => p.run = r
      BY <2>3 DEF CommitWrites
    <3> QED
      BY <1>0, <1>b, <2>1, <3>1, <3>2, <3>3, OverKept DEF Executing
  <2> QED
    BY <1>7, <2>2, <2>3 DEF Commit
<1>8. CASE MarkFailed(t)
  <2>1. task[t].pc = "mark" /\ UNCHANGED purchases
        /\ (UNCHANGED status \/ (Exists(r) /\ status' = [status EXCEPT ![r] = "failed"]))
    BY <1>8 DEF MarkFailed, At
  <2>2. task'[t].pc \notin Executing
    BY <1>0, <2>1 DEF Moves, Successors, Executing
  <2>3. Exists(r) => status[r] = "processing"
    BY <1>b, <2>1 DEF Exists, Stored, Executing
  <2> QED
    BY <1>0, <1>b, <2>1, <2>2, <2>3, OverKept DEF Executing
<1> QED
  BY <1>2, <1>3, <1>4, <1>5, <1>6, <1>7, <1>8 DEF Work

\* Every step keeps the invariant; deleting a row is the end of its run.
LEMMA OverInvStep ==
  ASSUME "ack" \notin Faults, TypeInv, LockInv, OverInv, [Next]_vars
  PROVE  OverInv'
<1>1. ASSUME NEW t \in Tasks, Request(t) PROVE OverInv'
  <2>1. /\ Others(t) /\ task[t].pc = "idle" /\ UNCHANGED purchases
        /\ task'[t].pc \notin Executing
    BY <1>1, RequestAt DEF Simulates, Executing
  <2>2. CASE UNCHANGED status
    BY <2>1, <2>2 DEF Others, OverInv
  <2>3. CASE Simulates(t)
    <3>1. PICK r \in Runs : FreshRun(r) /\ status' = [status EXCEPT ![r] = "simulated"]
      BY <2>3 DEF Simulates
    <3>2. \A q \in Runs \ {r} : status'[q] = status[q]
      BY <3>1 DEF TypeInv, TypeOK
    <3>3. status[r] = "none" /\ \A u \in Tasks : ~Holds(u, r)
      BY <3>1 DEF FreshRun, Holds
    <3>4. KeepsOver(t, r)
      BY <2>1, <3>2, <3>3 DEF KeepsOver, Over
    <3> QED
      BY <3>4, OverKept
  <2> QED
    BY <1>1, <2>2, <2>3, RequestAt
<1>2. ASSUME NEW r \in Runs, LegacyDelete(r) PROVE OverInv'
  <2>1. \A q \in Runs : status'[q] = IF q = r THEN "deleted" ELSE status[q]
    BY <1>2 DEF LegacyDelete, DropRow, TypeInv, TypeOK
  <2>2. \A u \in Tasks : task[u].pc \in Executing => task[u].run \in Runs
    BY DEF TypeInv, ServesRun, Executing
  <2>3. \A p \in purchases : p.run \in Runs
    BY DEF TypeInv, TypeOK, Purchases
  <2> QED
    BY <1>2, <2>1, <2>2, <2>3 DEF LegacyDelete, OverInv
<1>3. CASE UNCHANGED <<status, task>> /\ purchases' \subseteq purchases
  BY <1>3 DEF OverInv
<1> QED
  BY <1>1, <1>2, <1>3, OverWork DEF Next, StorageDelete, RemovePurchase, ChatCounted, vars

-----------------------------------------------------------------------------
\* The contract's view of the pipeline's state.
Phases == [r \in Runs |-> PhaseOf(status[r])]
Drafted == {p.run : p \in purchases}
Charged == {r \in Runs : usage["job"][r] > 0}

\* The phase behind each status.
LEMMA PhaseValues ==
  /\ PhaseOf("none") = "absent" /\ PhaseOf("pending") = "open" /\ PhaseOf("processing") = "open"
  /\ PhaseOf("processed") = "done" /\ PhaseOf("simulated") = "done" /\ PhaseOf("failed") = "failed" /\ PhaseOf("deleted") = "gone"
  BY DEF PhaseOf, Open

\* A step that changes one row's status is a move of its phase.
LEMMA PhaseMoves ==
  ASSUME TypeInv, NEW r \in Runs, NEW s, status' = [status EXCEPT ![r] = s],
         NEW from, PhaseOf(status[r]) \in from
  PROVE  Contract!Move(r, from, PhaseOf(s))
<1>1. status \in [Runs -> Statuses]
  BY DEF TypeInv, TypeOK
<1>2. \A q \in Runs : status'[q] = IF q = r THEN s ELSE status[q]
  BY <1>1
<1>3. [q \in Runs |-> PhaseOf(status'[q])] = [[q \in Runs |-> PhaseOf(status[q])] EXCEPT ![r] = PhaseOf(s)]
  <2>1. ASSUME NEW q \in Runs
        PROVE  PhaseOf(status'[q]) = IF q = r THEN PhaseOf(s) ELSE PhaseOf(status[q])
    <3>1. CASE q = r
      <4>1. status'[q] = s
        BY <1>2, <3>1
      <4> QED
        BY <3>1, <4>1
    <3>2. CASE q # r
      <4>1. status'[q] = status[q]
        BY <1>2, <3>2
      <4> QED
        BY <3>2, <4>1
    <3> QED
      BY <3>1, <3>2
  <2> QED
    BY <2>1
<1> QED
  BY <1>3 DEF Contract!Move
\* A step that changes none of what the contract sees is invisible to it.
LEMMA Invisible ==
  ASSUME UNCHANGED <<Phases, Drafted, Charged>>
  PROVE  UNCHANGED Contract!vars
  BY DEF Contract!vars, Phases, Drafted, Charged

\* A row that goes from one open status to the other stays open.
LEMMA StaysOpen ==
  ASSUME TypeInv, NEW r \in Runs, NEW s, status' = [status EXCEPT ![r] = s],
         PhaseOf(status[r]) = PhaseOf(s)
  PROVE  UNCHANGED Phases
<1>1. \A q \in Runs : status'[q] = IF q = r THEN s ELSE status[q]
  BY DEF TypeInv, TypeOK
<1>2. ASSUME NEW q \in Runs PROVE PhaseOf(status'[q]) = PhaseOf(status[q])
  <2>1. CASE q = r
    <3>1. status'[q] = s
      BY <1>1, <2>1
    <3> QED
      BY <2>1, <3>1
  <2>2. CASE q # r
    <3>1. status'[q] = status[q]
      BY <1>1, <2>2
    <3> QED
      BY <3>1
  <2> QED
    BY <2>1, <2>2
<1> QED
  BY <1>2 DEF Phases

\* A step of one document is a step of the contract.
LEMMA ContractOf ==
  ASSUME NEW r \in Runs,
         \/ Contract!Submit(r) \/ Contract!Simulate(r) \/ Contract!Complete(r) \/ Contract!Fail(r)
         \/ Contract!Reopen(r) \/ Contract!Discard(r) \/ Contract!Charge(r) \/ Contract!RemoveDraft(r)
  PROVE  Contract!Next
<1>1. CASE Contract!Charge(r) \/ Contract!RemoveDraft(r)
  BY <1>1, Zenon DEF Contract!Next
<1>2. CASE Contract!Submit(r) \/ Contract!Simulate(r) \/ Contract!Complete(r)
  BY <1>2, Zenon DEF Contract!Next
<1>3. CASE Contract!Fail(r) \/ Contract!Reopen(r) \/ Contract!Discard(r)
  BY <1>3, Zenon DEF Contract!Next
<1> QED
  BY <1>1, <1>2, <1>3

\* Every step of work in progress is a step of the contract for its run, or
\* invisible to it.
LEMMA ContractWork ==
  ASSUME "ack" \notin Faults, TypeInv, LockInv, OnceInv, OverInv, NEW t \in Tasks, Work(t)
  PROVE  Contract!Next \/ UNCHANGED Contract!vars
<1> DEFINE r == task[t].run
<1>0. r \in Runs /\ status \in [Runs -> Statuses] /\ usage["job"] \in [Runs \union {NoRun} -> Nat]
  BY ControlFlow DEF TypeInv, TypeOK, Moves, Writers
<1>a. ASSUME UNCHANGED <<status, purchases, usage>> PROVE UNCHANGED Contract!vars
  BY <1>a, Invisible DEF Phases, Drafted, Charged
<1>b. UNCHANGED <<purchases, usage>> => UNCHANGED <<Drafted, Charged>>
  BY DEF Drafted, Charged
<1>1. CASE StoreFile(t) \/ CheckQuota(t) \/ Extract(t) \/ Find(t) \/ CountFailure(t) \/ NextAttempt(t)
  BY <1>1, <1>a DEF StoreFile, CheckQuota, Extract, Find, CountFailure, NextAttempt, rest
<1>2. CASE CreateRun(t)
  <2>1. UNCHANGED <<purchases, usage>>
        /\ (UNCHANGED status \/ status' = [status EXCEPT ![r] = "pending"])
    BY <1>2 DEF CreateRun
  <2>2. CASE status' = [status EXCEPT ![r] = "pending"]
    <3>1. PhaseOf(status[r]) \in {"absent"}
      BY <1>2, PhaseValues DEF CreateRun, At, LockInv, UploadAlone
    <3>2. Contract!Move(r, {"absent"}, "open")
      <4>1. Contract!Move(r, {"absent"}, PhaseOf("pending"))
        BY <1>0, <2>2, <3>1, PhaseMoves
      <4> QED
        BY <4>1, PhaseValues
    <3>3. Contract!Submit(r)
      BY <2>1, <3>2 DEF Contract!Submit
    <3> QED
      BY <1>0, <3>3, ContractOf
  <2> QED
    BY <1>a, <2>1, <2>2
<1>3. CASE Reopen(t)
  <2>1. UNCHANGED <<purchases, usage>>
    BY <1>3 DEF Reopen
  <2>2. CASE Reopenable(t) /\ status' = [status EXCEPT ![r] = "pending"]
    <3>1. status[r] \in {"pending", "failed"}
      BY <1>3, <2>2 DEF Reopen, At, Reopenable, LockInv, SeenRetryable
    <3>2. CASE status[r] = "pending"
      <4>1. UNCHANGED Phases
        BY <1>0, <2>2, <3>2, PhaseValues, StaysOpen
      <4> QED
        BY <1>b, <2>1, <4>1, Invisible
    <3>3. CASE status[r] = "failed"
      <4>1. PhaseOf(status[r]) \in {"failed"}
        BY <3>3, PhaseValues
      <4>2. Contract!Move(r, {"failed"}, PhaseOf("pending"))
        BY <1>0, <2>2, <4>1, PhaseMoves
      <4>3. Contract!Move(r, {"failed"}, "open")
        BY <4>2, PhaseValues
      <4>4. Contract!Reopen(r)
        BY <2>1, <4>3 DEF Contract!Reopen
      <4> QED
        BY <1>0, <4>4, ContractOf
    <3> QED
      BY <3>1, <3>2, <3>3
  <2>3. CASE UNCHANGED status
    BY <1>a, <2>1, <2>3
  <2> QED
    BY <1>3, <2>2, <2>3 DEF Reopen
<1>4. CASE Erase(t) \/ Remove(t)
  <2>1. UNCHANGED <<purchases, usage>>
        /\ (UNCHANGED status \/ (Exists(r) /\ status' = [status EXCEPT ![r] = "deleted"]))
    BY <1>4 DEF Erase, Remove, DropRow, Erasable
  <2>2. CASE Exists(r) /\ status' = [status EXCEPT ![r] = "deleted"]
    <3>1. PhaseOf(status[r]) \in {"open", "done", "failed"}
      BY <2>2, PhaseValues DEF Exists, Stored
    <3>2. Contract!Move(r, {"open", "done", "failed"}, PhaseOf("deleted"))
      BY <1>0, <2>2, <3>1, PhaseMoves
    <3>3. Contract!Move(r, {"open", "done", "failed"}, "gone")
      BY <3>2, PhaseValues
    <3>4. Contract!Discard(r)
      BY <2>1, <3>3 DEF Contract!Discard
    <3> QED
      BY <1>0, <3>4, ContractOf
  <2> QED
    BY <1>a, <2>1, <2>2
<1>5. CASE Acquire(t)
  <2>1. UNCHANGED <<purchases, usage>>
    BY <1>5 DEF Acquire
  <2>2. CASE Claimable(r) /\ Lock(r)
    <3>1. status[r] \in {"pending", "failed"} /\ status' = [status EXCEPT ![r] = "processing"]
      BY <2>2 DEF Claimable, Lock
    <3>2. CASE status[r] = "pending"
      <4>1. UNCHANGED Phases
        BY <1>0, <3>1, <3>2, PhaseValues, StaysOpen
      <4> QED
        BY <1>b, <2>1, <4>1, Invisible
    <3>3. CASE status[r] = "failed"
      <4>1. PhaseOf(status[r]) \in {"failed"}
        BY <3>3, PhaseValues
      <4>2. Contract!Move(r, {"failed"}, PhaseOf("processing"))
        BY <1>0, <3>1, <4>1, PhaseMoves
      <4>3. Contract!Move(r, {"failed"}, "open")
        BY <4>2, PhaseValues
      <4>4. Contract!Reopen(r)
        BY <2>1, <4>3 DEF Contract!Reopen
      <4> QED
        BY <1>0, <4>4, ContractOf
    <3> QED
      BY <3>1, <3>2, <3>3
  <2>3. CASE UNCHANGED status
    BY <1>a, <2>1, <2>3
  <2> QED
    BY <1>5, <2>2, <2>3 DEF Acquire
<1>6. CASE Commit(t)
  <2>1. UNCHANGED usage /\ task[t].pc = "commit"
    BY <1>6 DEF Commit, At
  <2>2. CASE UNCHANGED <<status, purchases>>
    BY <1>a, <2>1, <2>2
  <2>3. CASE CanCommit(t) /\ CommitWrites(t)
    <3>1. status' = [status EXCEPT ![r] = "processed"]
      BY <2>3 DEF CommitWrites
    <3>2. status[r] = "processing"
      BY <2>1, <2>3 DEF CanCommit, Exists, Stored, OverInv, Executing
    <3>3. r \notin Drafted
      BY <3>2 DEF Drafted, OverInv
    <3>4. Drafted' \in {Drafted, Drafted \union {r}}
      <4>1. CASE UNCHANGED purchases
        BY <4>1 DEF Drafted
      <4>2. ASSUME NEW p \in [run : {r}, id : DraftIds], purchases' = purchases \union {p}
            PROVE  Drafted' = Drafted \union {r}
        BY <4>2 DEF Drafted
      <4> QED
        BY <2>3, <4>1, <4>2 DEF CommitWrites
    <3>5. PhaseOf(status[r]) \in {"open"}
      BY <3>2, PhaseValues
    <3>6. Contract!Move(r, {"open"}, PhaseOf("processed"))
      BY <1>0, <3>1, <3>5, PhaseMoves
    <3>7. Contract!Move(r, {"open"}, "done")
      BY <3>6, PhaseValues
    <3>8. ASSUME NEW d \in Runs, d = r PROVE Contract!Complete(d)
      BY <2>1, <3>3, <3>4, <3>7, <3>8 DEF Contract!Complete, Drafted
    <3> QED
      BY <1>0, <3>8, ContractOf
  <2> QED
    BY <1>6, <2>2, <2>3 DEF Commit
<1>7. CASE RecordUsage(t)
  <2>1. UNCHANGED <<status, purchases>> /\ task[t].pc = "usage"
    BY <1>7 DEF RecordUsage, At
  <2>2. CASE UNCHANGED usage
    BY <1>a, <2>1, <2>2
  <2>3. CASE Charge("job", r)
    <3>1. status[r] \in {"processed", "deleted"} /\ usage["job"][r] = 0
      BY <2>1 DEF OnceInv, ChargeInv, At
    <3>2. PhaseOf(status[r]) \in {"done", "gone"}
      BY <3>1, PhaseValues
    <3>a. usage'["job"][r] = 1 /\ \A q \in Runs : q # r => usage'["job"][q] = usage["job"][q]
      BY <1>0, <2>3, <3>1, ChargeAt DEF Writers
    <3>3. r \notin Charged /\ Charged' = Charged \union {r}
      BY <1>0, <3>1, <3>a DEF Charged
    <3>4. ASSUME NEW d \in Runs, d = r PROVE Contract!Charge(d)
      BY <1>0, <2>1, <3>2, <3>3, <3>4 DEF Contract!Charge, Charged
    <3> QED
      BY <1>0, <3>4, ContractOf
  <2> QED
    BY <1>7, <2>2, <2>3 DEF RecordUsage
<1>8. CASE MarkFailed(t)
  <2>1. UNCHANGED <<purchases, usage>> /\ task[t].pc = "mark"
        /\ (UNCHANGED status \/ (Exists(r) /\ status' = [status EXCEPT ![r] = "failed"]))
    BY <1>8 DEF MarkFailed, At
  <2>2. CASE Exists(r) /\ status' = [status EXCEPT ![r] = "failed"]
    <3>1. status[r] = "processing"
      BY <2>1, <2>2 DEF Exists, Stored, OverInv, Executing
    <3>2. PhaseOf(status[r]) \in {"open"}
      BY <3>1, PhaseValues
    <3>3. Contract!Move(r, {"open"}, PhaseOf("failed"))
      BY <1>0, <2>2, <3>2, PhaseMoves
    <3>4. Contract!Move(r, {"open"}, "failed")
      BY <3>3, PhaseValues
    <3>5. Contract!Fail(r)
      BY <2>1, <3>4 DEF Contract!Fail
    <3> QED
      BY <1>0, <3>5, ContractOf
  <2> QED
    BY <1>a, <2>1, <2>2
<1>9. CASE RecordLegacyUsage(t)
  <2>1. UNCHANGED <<status, purchases>> /\ \A q \in Runs : usage'["job"][q] = usage["job"][q]
    BY <1>0, <1>9, ChargeAt DEF RecordLegacyUsage, Writers
  <2> QED
    BY <2>1, Invisible DEF Phases, Drafted, Charged
<1> QED
  BY <1>1, <1>2, <1>3, <1>4, <1>5, <1>6, <1>7, <1>8, <1>9 DEF Work

\* Every step of the pipeline is a step of the contract or invisible to it.
LEMMA ContractStep ==
  ASSUME "ack" \notin Faults, TypeInv, LockInv, DraftInv, OnceInv, OverInv, [Next]_vars
  PROVE  Contract!Next \/ UNCHANGED Contract!vars
<1>a. ASSUME UNCHANGED <<status, purchases, usage>> PROVE UNCHANGED Contract!vars
  BY <1>a, Invisible DEF Phases, Drafted, Charged
<1>1. ASSUME NEW t \in Tasks, Request(t) PROVE Contract!Next \/ UNCHANGED Contract!vars
  <2>1. UNCHANGED <<purchases, usage>> /\ (UNCHANGED status \/ Simulates(t))
    BY <1>1, RequestAt
  <2>2. CASE Simulates(t)
    <3>1. PICK r \in Runs : status[r] = "none" /\ status' = [status EXCEPT ![r] = "simulated"]
      BY <2>2 DEF Simulates, FreshRun
    <3>2. PhaseOf(status[r]) \in {"absent"}
      BY <3>1, PhaseValues
    <3>3. Contract!Move(r, {"absent"}, PhaseOf("simulated"))
      BY <3>1, <3>2, PhaseMoves
    <3>4. Contract!Move(r, {"absent"}, "done")
      BY <3>3, PhaseValues
    <3>5. Contract!Simulate(r)
      BY <2>1, <3>4 DEF Contract!Simulate
    <3> QED
      BY <3>5, ContractOf
  <2> QED
    BY <1>a, <2>1, <2>2
<1>2. ASSUME NEW r \in Runs, LegacyDelete(r) PROVE Contract!Next
  <2>1. UNCHANGED <<purchases, usage>> /\ Exists(r) /\ status' = [status EXCEPT ![r] = "deleted"]
    BY <1>2 DEF LegacyDelete, DropRow
  <2>2. PhaseOf(status[r]) \in {"open", "done", "failed"}
    BY <2>1, PhaseValues DEF Exists, Stored
  <2>3. Contract!Move(r, {"open", "done", "failed"}, PhaseOf("deleted"))
    BY <2>1, <2>2, PhaseMoves
  <2>4. Contract!Move(r, {"open", "done", "failed"}, "gone")
    BY <2>3, PhaseValues
  <2>5. Contract!Discard(r)
    BY <2>1, <2>4 DEF Contract!Discard
  <2> QED
    BY <2>5, ContractOf
<1>3. ASSUME NEW p \in purchases, RemovePurchase(p) PROVE Contract!Next
  <2>1. UNCHANGED <<status, usage>> /\ purchases' = purchases \ {p} /\ p.run \in Runs
    BY <1>3 DEF RemovePurchase, TypeInv, TypeOK, Purchases
  <2>2. Drafted' = Drafted \ {p.run} /\ p.run \in Drafted
    BY <2>1 DEF Drafted, DraftInv, OneDraftPerRun
  <2>3. Contract!RemoveDraft(p.run)
    BY <2>1, <2>2 DEF Contract!RemoveDraft, Drafted
  <2> QED
    BY <2>1, <2>3, ContractOf
<1>4. ASSUME NEW r \in Runs, StorageDelete(r) PROVE UNCHANGED Contract!vars
  BY <1>4, <1>a DEF StorageDelete
<1>5. CASE UNCHANGED vars
  BY <1>5, <1>a DEF vars
<1>6. CASE ChatCounted
  <2>1. UNCHANGED <<status, purchases>> /\ \A q \in Runs : usage'["job"][q] = usage["job"][q]
    BY <1>6, ChargeAt DEF ChatCounted, Writers
  <2> QED
    BY <2>1, Invisible DEF Phases, Drafted, Charged
<1> QED
  BY <1>1, <1>2, <1>3, <1>4, <1>5, <1>6, ContractWork DEF Next

\* The pipeline implements its contract: a document is completed at most once,
\* together with its draft and its link, never fails or reopens once complete,
\* and its job charges it once, however many requests and attempts work on it.
THEOREM PipelineImplements == "ack" \notin Faults => (Spec => ImplementsContract)
<1> SUFFICES ASSUME "ack" \notin Faults PROVE Spec => ImplementsContract
  OBVIOUS
<1>1. Init => Contract!Init
  BY PhaseValues DEF Init, Contract!Init, Writers
<1>2. TypeInv /\ LockInv /\ OverInv /\ [Next]_vars => OverInv'
  BY OverInvStep
<1>3. TypeInv /\ LockInv /\ DraftInv /\ OnceInv /\ OverInv /\ [Next]_vars
        => [Contract!Next]_Contract!vars
  BY ContractStep
<1> QED
  BY TypeInit, TypeStep, LockInit, LockStep, DraftInit, DraftStep, OnceInit, OnceStep, OverInit,
     <1>1, <1>2, <1>3, PTL DEF Spec, ImplementsContract, Contract!Spec

-----------------------------------------------------------------------------
\* The contract across restarts and the recovery cron, when nobody retries.

\* The rows the cron has, or may find, in its snapshot.
Watched == stale \union {s.run : s \in sweep}

\* Who may still be at work on a row that went ten minutes without a write: a
\* DELETE or an approval, which will drop the row or have dropped it.
Bystanders == {"idle", "erase", "approve", "approved"}

\* What the cron relies on: each row is in its snapshot once, and no job and no
\* retry has one of them.
SweepInv ==
    /\ stale \subseteq Runs
    /\ sweep \subseteq [run : Runs, retryCount : Nat]
    /\ \A s, w \in sweep : s.run = w.run => s = w
    /\ \A t \in Tasks : task[t].pc \notin {"quota", "cas"}
    /\ \A r \in Watched :
          /\ status[r] \in Open \union {"deleted"}
          /\ \A t \in Tasks : task[t].run = r => task[t].pc \in Bystanders

\* What holds of a process that never restarts, and the cron keeps.
PipelineInv == TypeInv /\ LockInv /\ DraftInv /\ OnceInv /\ LegacyOnceInv /\ OverInv

\* The pipeline's own steps keep its invariant.
LEMMA PipelineStep ==
  ASSUME "ack" \notin Faults, PipelineInv, [Next]_vars
  PROVE  PipelineInv'
<1> USE DEF PipelineInv
<1>1. TypeInv'
  BY TypeStep
<1>2. LockInv'
  BY LockStep
<1>3. DraftInv'
  BY DraftStep
<1>4. OnceInv'
  BY OnceStep
<1>5. OverInv'
  BY OverInvStep
<1>6. LegacyOnceInv'
  BY LegacyStep
<1> QED
  BY <1>1, <1>2, <1>3, <1>4, <1>5, <1>6

\* A restart forgets the tasks and nothing they have written.
LEMMA CrashKeeps ==
  ASSUME PipelineInv, Crash
  PROVE  PipelineInv'
<1>0. /\ \A t \in Tasks : task'[t] = IdleTask
      /\ UNCHANGED <<status, retryCount, purchaseId, purchases, files, usage>> /\ deleting' = {}
      /\ task' = [t \in Tasks |-> IdleTask]
  BY DEF Crash
<1>a. IdleTask \in TaskStates
  BY BoundsAssumption DEF IdleTask, TaskStates, Labels, Statuses, Stored
<1>1. IdleTask.pc = "idle" /\ IdleTask.run = NoRun /\ IdleTask \in TaskStates
  BY <1>a DEF IdleTask, TaskStates, Labels, Statuses, Stored
<1>2. TypeInv'
  BY <1>0, <1>1 DEF PipelineInv, TypeInv, TypeOK, ServesRun
<1>3. LockInv'
  BY <1>0, <1>1 DEF LockInv, LockHeld, SeenRetryable, UploadAlone, Exclusive, Holds, Executing
<1>4. DraftInv'
  BY <1>0, <1>1 DEF PipelineInv, DraftInv, InsertsFirstDraft, OneDraftPerRun, At
<1>5. OnceInv'
  BY <1>0, <1>1 DEF PipelineInv, OnceInv, ChargeInv, JobChargedOnce, Finishing, Executing, At
<1>6. OverInv'
  BY <1>0, <1>1 DEF PipelineInv, OverInv, Executing
<1>7. LegacyOnceInv'
  BY <1>0, <1>1 DEF PipelineInv, LegacyOnceInv, LegacyInv, LegacyAlone, LegacyChargedOnce, JobLabels,
     Executing, At
<1> QED
  BY <1>2, <1>3, <1>4, <1>5, <1>6, <1>7 DEF PipelineInv

\* What an update of the cron does to the row and to the snapshot.
LEMMA SweepUpdateAt ==
  ASSUME TypeInv, SweepInv, NEW s \in sweep, SweepUpdate(s)
  PROVE  /\ s.run \in Runs
         /\ UNCHANGED <<purchaseId, purchases, files, deleting, usage, task>>
         /\ \/ UNCHANGED <<status, retryCount, stale>> /\ sweep' = {}
            \/ /\ status[s.run] \in Open
               /\ \/ status' = [status EXCEPT ![s.run] = "pending"]
                  \/ status' = [status EXCEPT ![s.run] = "failed"]
               /\ retryCount' \in [Runs -> Nat]
               /\ stale' = stale \ {s.run} /\ sweep' = sweep \ {s}
<1>1. s.run \in Runs /\ s.run \in Watched /\ retryCount \in [Runs -> Nat]
  BY DEF SweepInv, Watched, TypeInv, TypeOK
<1>2. Exists(s.run) => status[s.run] \in Open
  BY <1>1 DEF SweepInv, Exists, Stored
<1>3. [retryCount EXCEPT ![s.run] = @ + 1] \in [Runs -> Nat]
  BY <1>1
<1> QED
  BY <1>1, <1>2, <1>3 DEF SweepUpdate

\* The cron takes no row from a job, because no job has the rows of its snapshot.
LEMMA SweepUpdateKeeps ==
  ASSUME PipelineInv, SweepInv, NEW s \in sweep, SweepUpdate(s)
  PROVE  PipelineInv'
<1> DEFINE r == s.run
<1>0. /\ r \in Runs /\ UNCHANGED <<purchaseId, purchases, files, deleting, usage, task>>
      /\ \/ UNCHANGED <<status, retryCount>>
         \/ /\ status[r] \in Open /\ retryCount' \in [Runs -> Nat]
            /\ \/ status' = [status EXCEPT ![r] = "pending"]
               \/ status' = [status EXCEPT ![r] = "failed"]
  BY SweepUpdateAt DEF PipelineInv
<1>1. status \in [Runs -> Statuses]
  BY DEF PipelineInv, TypeInv, TypeOK
<1>2. \A t \in Tasks : task[t].run = r => task[t].pc \in Bystanders
  BY DEF SweepInv, Watched
<1>3. \A q \in Runs : q # r => status'[q] = status[q]
  BY <1>0, <1>1
<1>4. status[r] = status'[r] \/ status[r] \in Open
  BY <1>0, <1>1
<1>5. TypeInv'
  BY <1>0, <1>1 DEF PipelineInv, TypeInv, TypeOK, ServesRun, WillRetry, Statuses, Stored
<1>6. \A t \in Tasks : task[t].pc # "idle" => task[t].run \in Runs
  BY DEF PipelineInv, TypeInv, ServesRun
<1>7. LockInv'
  BY <1>0, <1>2, <1>3, <1>6 DEF PipelineInv, LockInv, LockHeld, SeenRetryable, UploadAlone,
     Exclusive, Holds, Executing, Bystanders
<1>8. DraftInv'
  BY <1>0 DEF PipelineInv, DraftInv, InsertsFirstDraft, OneDraftPerRun, At
<1>9. OnceInv'
  BY <1>0, <1>2, <1>3, <1>4, <1>6 DEF PipelineInv, OnceInv, ChargeInv, JobChargedOnce, Over,
     Finishing, Executing, At, Open, Bystanders
<1>10. OverInv'
  <2>1. \A p \in purchases : p.run \in Runs
    BY DEF PipelineInv, TypeInv, TypeOK, Purchases
  <2> QED
    BY <1>0, <1>2, <1>3, <1>4, <1>6, <2>1 DEF PipelineInv, OverInv, Executing, Open, Bystanders
<1>11. LegacyOnceInv'
  <2> USE DEF PipelineInv, LegacyOnceInv, LegacyInv, LegacyAlone, LegacyChargedOnce, At
  <2>1. CASE UNCHANGED status
    BY <1>0, <2>1
  <2>2. CASE status[r] \in Open /\ status'[r] \in {"pending", "failed"}
    <3>1. usage["approval"][r] # 1 /\ usage["simulation"][r] = 0
      BY <1>0, <2>2 DEF Open
    <3>2. \A t \in Tasks : task[t].run = r => task[t].pc \notin {"approved", "simulated"}
      BY <1>2, <2>2 DEF Open, Bystanders
    <3> QED
      BY <1>0, <1>3, <1>6, <2>2, <3>1, <3>2
  <2> QED
    BY <1>0, <1>1, <2>1, <2>2
<1> QED
  BY <1>5, <1>7, <1>8, <1>9, <1>10, <1>11 DEF PipelineInv

\* Nobody retries, so no task is in retry().
LEMMA NoRetry ==
  ASSUME "retry" \notin Requests, TypeInv, SweepInv, [Next]_vars
  PROVE  \A t \in Tasks : task'[t].pc \notin {"quota", "cas"}
<1>0. \A t \in Tasks : task[t].pc \notin {"quota", "cas"}
  BY DEF SweepInv
<1>1. ASSUME NEW t \in Tasks, Request(t)
      PROVE  \A u \in Tasks : task'[u].pc \notin {"quota", "cas"}
  <2>1. ASSUME NEW r \in Runs, Upload(t, r) PROVE Others(t) /\ task'[t].pc = "store"
    BY <2>1, BeginAt DEF Upload
  <2>2. ASSUME NEW r \in Runs, Delete(t, r) PROVE Others(t) /\ task'[t].pc = "erase"
    BY <2>2, BeginAt DEF Delete
  <2>3. \A r \in Runs : ~Retry(t, r)
    BY DEF Retry
  <2>a. ASSUME NEW r \in Runs, Approve(t, r) PROVE Others(t) /\ task'[t].pc = "approve"
    BY <2>a, BeginAt DEF Approve
  <2>b. ASSUME NEW r \in Runs, Simulate(t, r)
        PROVE  Others(t) /\ (task'[t].pc = "simulated" \/ UNCHANGED task)
    BY <2>b, BeginAt DEF Simulate, Others
  <2>4. Others(t) /\ (task'[t].pc \in {"store", "erase", "approve", "simulated"} \/ UNCHANGED task)
    BY <1>1, <2>1, <2>2, <2>3, <2>a, <2>b DEF Request
  <2> QED
    BY <1>0, <2>4 DEF Others
<1>2. ASSUME NEW t \in Tasks, Work(t)
      PROVE  \A u \in Tasks : task'[u].pc \notin {"quota", "cas"}
  <2>1. Moves(t)
    BY <1>2, ControlFlow
  <2>2. task'[t].pc \notin {"quota", "cas"}
    BY <1>0, <2>1 DEF Moves, Successors
  <2> QED
    BY <1>0, <2>1, <2>2 DEF Moves, Others
<1>3. CASE UNCHANGED task
  BY <1>0, <1>3
<1> QED
  BY <1>1, <1>2, <1>3 DEF Next, StorageDelete, LegacyDelete, RemovePurchase, ChatCounted, vars

\* A watched row keeps its status, or is deleted, and stays out of the jobs' hands.
LEMMA WatchedKept ==
  ASSUME "retry" \notin Requests, TypeInv, LockInv, SweepInv, [Next]_vars, NEW r \in Watched
  PROVE  /\ status'[r] \in Open \union {"deleted"}
         /\ \A t \in Tasks : task'[t].run = r => task'[t].pc \in Bystanders
<1>0. /\ r \in Runs /\ status[r] \in Open \union {"deleted"} /\ status \in [Runs -> Statuses]
      /\ \A t \in Tasks : task[t].run = r => task[t].pc \in Bystanders
  BY DEF SweepInv, Watched, TypeInv, TypeOK
<1>1. ASSUME NEW t \in Tasks, Request(t)
      PROVE  /\ status'[r] = status[r]
             /\ \A u \in Tasks : task'[u].run = r => task'[u].pc \in Bystanders
  <2>1. ASSUME NEW q \in Runs, Upload(t, q) PROVE Others(t) /\ task'[t].run # r
    <3>1. q # r
      BY <1>0, <2>1 DEF Upload, FreshRun, Open
    <3> QED
      BY <2>1, <3>1, BeginAt DEF Upload
  <2>2. ASSUME NEW q \in Runs, Delete(t, q) PROVE Others(t) /\ task'[t].pc = "erase"
    BY <2>2, BeginAt DEF Delete
  <2>3. \A q \in Runs : ~Retry(t, q)
    BY DEF Retry
  <2>a. ASSUME NEW q \in Runs, Approve(t, q) PROVE Others(t) /\ task'[t].pc = "approve"
    BY <2>a, BeginAt DEF Approve
  <2>b. ASSUME NEW q \in Runs, Simulate(t, q)
        PROVE  Others(t) /\ (task'[t].run # r \/ UNCHANGED task) /\ status'[r] = status[r]
    <3>1. q # r
      BY <1>0, <2>b DEF Simulate, FreshRun, Open
    <3> QED
      BY <1>0, <2>b, <3>1, BeginAt DEF Simulate, Others
  <2>4. Others(t) /\ (task'[t].run # r \/ task'[t].pc \in {"erase", "approve"} \/ UNCHANGED task)
    BY <1>1, <2>1, <2>2, <2>3, <2>a, <2>b DEF Request
  <2>5. status'[r] = status[r]
    BY <1>1, <2>3, <2>b DEF Request, Upload, Delete, Approve, rest
  <2> QED
    BY <1>0, <2>4, <2>5 DEF Others, Bystanders
<1>2. ASSUME NEW t \in Tasks, Work(t)
      PROVE  /\ status'[r] \in Open \union {"deleted"}
             /\ \A u \in Tasks : task'[u].run = r => task'[u].pc \in Bystanders
  <2>1. Moves(t)
    BY <1>2, ControlFlow
  <2>2. CASE task[t].run # r
    <3>1. status'[r] = status[r]
      BY <1>0, <1>2, <2>2, OverStep
    <3>2. task'[t].run # r
      BY <1>0, <2>1, <2>2, NoRunAssumption DEF Moves
    <3> QED
      BY <1>0, <2>1, <3>1, <3>2 DEF Moves, Others
  <2>3. CASE task[t].run = r
    <3>1. task[t].pc \in {"erase", "approve", "approved"}
      BY <1>0, <2>1, <2>3 DEF Moves, Bystanders
    <3>2. Erase(t) \/ Remove(t) \/ RecordLegacyUsage(t)
      BY <1>2, <3>1 DEF Work, StoreFile, CreateRun, CheckQuota, Reopen, Acquire, Extract, Find, Commit,
         RecordUsage, CountFailure, NextAttempt, MarkFailed, At
    <3>3. status'[r] \in {status[r], "deleted"}
      BY <1>0, <2>3, <3>2 DEF Erase, Remove, RecordLegacyUsage, DropRow
    <3>4. task'[t].pc \in Bystanders
      BY <2>1, <3>1 DEF Moves, Successors, Bystanders
    <3> QED
      BY <1>0, <2>1, <3>3, <3>4 DEF Moves, Others
  <2> QED
    BY <2>2, <2>3
<1>3. ASSUME NEW q \in Runs, LegacyDelete(q)
      PROVE  status'[r] \in {status[r], "deleted"} /\ UNCHANGED task
  BY <1>0, <1>3 DEF LegacyDelete, DropRow
<1>4. CASE UNCHANGED <<status, task>>
  BY <1>0, <1>4
<1> QED
  BY <1>0, <1>1, <1>2, <1>3, <1>4 DEF Next, StorageDelete, RemovePurchase, ChatCounted, vars

\* Every step keeps the cron's invariant.
LEMMA SweepInvStep ==
  ASSUME "retry" \notin Requests, PipelineInv, SweepInv, [RecoveryNext]_recoveryVars
  PROVE  SweepInv'
<1>1. CASE JobStep
  <2>1. [Next]_vars /\ stale' \subseteq stale /\ UNCHANGED sweep
    BY <1>1 DEF JobStep, Stamp
  <2>2. \A t \in Tasks : task'[t].pc \notin {"quota", "cas"}
    BY <2>1, NoRetry DEF PipelineInv
  <2>3. \A r \in Watched :
          /\ status'[r] \in Open \union {"deleted"}
          /\ \A t \in Tasks : task'[t].run = r => task'[t].pc \in Bystanders
    BY <2>1, WatchedKept DEF PipelineInv
  <2> QED
    BY <2>1, <2>2, <2>3 DEF SweepInv, Watched
<1>2. ASSUME NEW r \in Runs, Age(r) PROVE SweepInv'
  <2>1. \A t \in Tasks : task[t].run = r => task[t].pc \in Bystanders
    <3> SUFFICES ASSUME NEW t \in Tasks, task[t].run = r PROVE task[t].pc \in Bystanders
      OBVIOUS
    <3>1. task[t].pc \in Labels \ (Busy \union {"quota", "cas"})
      BY <1>2 DEF Age, SweepInv, PipelineInv, TypeInv, TypeOK, TaskStates
    <3>2. task[t].pc \notin {"store", "create"}
      BY <1>2 DEF Age, Open, PipelineInv, LockInv, UploadAlone
    <3>3. task[t].pc # "usage"
      BY <1>2 DEF Age, Open, PipelineInv, OnceInv, ChargeInv, At
    <3>4. task[t].pc # "simulated"
      BY <1>2 DEF Age, Open, PipelineInv, LegacyOnceInv, LegacyInv, At
    <3> QED
      BY <3>1, <3>2, <3>3, <3>4 DEF Labels, Busy, Executing, Bystanders
  <2>2. status[r] \in Open /\ stale' = stale \union {r} /\ UNCHANGED <<status, task, sweep>>
    BY <1>2 DEF Age, vars
  <2> QED
    BY <2>1, <2>2 DEF SweepInv, Watched
<1>3. CASE Crash
  <2>1. \A t \in Tasks : task'[t].pc = "idle"
    BY <1>3 DEF Crash, IdleTask
  <2> QED
    BY <1>3, <2>1 DEF Crash, SweepInv, Watched, Bystanders
<1>4. CASE SweepStart
  <2>1. PICK batch \in SUBSET Stuck : sweep' = {SweepRow(r) : r \in batch}
    BY <1>4 DEF SweepStart
  <2>2. batch \subseteq stale /\ UNCHANGED <<status, retryCount, task, stale>>
    BY <1>4, <2>1 DEF SweepStart, Stuck, vars
  <2>3. \A r \in Runs : SweepRow(r).run = r /\ SweepRow(r) \in [run : Runs, retryCount : Nat]
    BY DEF SweepRow, PipelineInv, TypeInv, TypeOK
  <2>4. {s.run : s \in sweep'} \subseteq stale
    BY <2>1, <2>2, <2>3 DEF SweepInv
  <2>5. \A s, w \in sweep' : s.run = w.run => s = w
    BY <2>1, <2>2, <2>3 DEF SweepInv
  <2>6. sweep' \subseteq [run : Runs, retryCount : Nat]
    BY <2>1, <2>2, <2>3 DEF SweepInv
  <2> QED
    BY <2>2, <2>4, <2>5, <2>6 DEF SweepInv, Watched
<1>5. ASSUME NEW s \in sweep, SweepUpdate(s) PROVE SweepInv'
  <2>1. /\ s.run \in Runs /\ UNCHANGED task /\ status \in [Runs -> Statuses]
        /\ \/ UNCHANGED <<status, stale>> /\ sweep' = {}
           \/ /\ \E v : status' = [status EXCEPT ![s.run] = v]
              /\ stale' = stale \ {s.run} /\ sweep' = sweep \ {s}
    BY <1>5, SweepUpdateAt DEF PipelineInv, TypeInv, TypeOK
  <2>2. CASE UNCHANGED <<status, stale>> /\ sweep' = {}
    BY <2>1, <2>2 DEF SweepInv, Watched
  <2>3. CASE /\ \E v : status' = [status EXCEPT ![s.run] = v]
             /\ stale' = stale \ {s.run} /\ sweep' = sweep \ {s}
    <3>1. \A r \in Watched' : r \in Watched /\ r # s.run
      BY <2>3 DEF Watched, SweepInv
    <3>2. \A r \in Runs \ {s.run} : status'[r] = status[r]
      BY <2>1, <2>3
    <3>3. Watched \subseteq Runs
      BY DEF Watched, SweepInv
    <3>4. \A r \in Watched' :
            /\ status'[r] \in Open \union {"deleted"}
            /\ \A t \in Tasks : task'[t].run = r => task'[t].pc \in Bystanders
      BY <2>1, <3>1, <3>2, <3>3 DEF SweepInv
    <3> QED
      BY <2>1, <2>3, <3>4 DEF SweepInv
  <2> QED
    BY <2>1, <2>2, <2>3
<1>6. CASE SweepAbort
  BY <1>6 DEF SweepAbort, SweepInv, Watched, vars
<1>7. CASE UNCHANGED recoveryVars
  BY <1>7 DEF recoveryVars, SweepInv, Watched, vars
<1> QED
  BY <1>1, <1>2, <1>3, <1>4, <1>5, <1>6, <1>7 DEF RecoveryNext, Sweep

\* A row the cron reopens is open to the client already; one it gives up fails.
LEMMA SweepUpdateImplements ==
  ASSUME PipelineInv, SweepInv, NEW s \in sweep, SweepUpdate(s)
  PROVE  Contract!Next \/ UNCHANGED Contract!vars
<1> DEFINE r == s.run
<1>0. /\ r \in Runs /\ UNCHANGED <<purchases, usage>>
      /\ \/ UNCHANGED status
         \/ /\ status[r] \in Open
            /\ \/ status' = [status EXCEPT ![r] = "pending"]
               \/ status' = [status EXCEPT ![r] = "failed"]
  BY SweepUpdateAt DEF PipelineInv
<1>1. UNCHANGED <<Drafted, Charged>>
  BY <1>0 DEF Drafted, Charged
<1>2. status[r] \in Open => PhaseOf(status[r]) = "open"
  BY PhaseValues DEF Open
<1>3. CASE UNCHANGED status
  BY <1>1, <1>3, Invisible DEF Phases
<1>4. CASE status[r] \in Open /\ status' = [status EXCEPT ![r] = "pending"]
  <2>1. PhaseOf(status[r]) = PhaseOf("pending")
    BY <1>2, <1>4, PhaseValues
  <2>2. UNCHANGED Phases
    BY <1>0, <1>4, <2>1, StaysOpen DEF PipelineInv
  <2> QED
    BY <1>1, <2>2, Invisible
<1>5. CASE status[r] \in Open /\ status' = [status EXCEPT ![r] = "failed"]
  <2>1. Contract!Move(r, {"open"}, PhaseOf("failed"))
    BY <1>0, <1>2, <1>5, PhaseMoves DEF PipelineInv
  <2>2. Contract!Move(r, {"open"}, "failed")
    BY <2>1, PhaseValues
  <2>3. Contract!Fail(r)
    BY <1>0, <2>2 DEF Contract!Fail
  <2> QED
    BY <1>0, <2>3, ContractOf
<1> QED
  BY <1>0, <1>3, <1>4, <1>5

\* Every step of the process, its restarts and its cron is a step of the contract
\* or invisible to it, and keeps the invariants.
LEMMA RecoveryStep ==
  ASSUME "ack" \notin Faults, PipelineInv, SweepInv, [RecoveryNext]_recoveryVars
  PROVE  PipelineInv' /\ (Contract!Next \/ UNCHANGED Contract!vars)
<1>1. ASSUME [Next]_vars PROVE PipelineInv' /\ (Contract!Next \/ UNCHANGED Contract!vars)
  BY <1>1, PipelineStep, ContractStep DEF PipelineInv
<1>2. CASE Crash
  <2>1. UNCHANGED <<Phases, Drafted, Charged>>
    BY <1>2 DEF Crash, Phases, Drafted, Charged
  <2> QED
    BY <1>2, <2>1, CrashKeeps, Invisible
<1>3. ASSUME NEW s \in sweep, SweepUpdate(s)
      PROVE  PipelineInv' /\ (Contract!Next \/ UNCHANGED Contract!vars)
  BY <1>3, SweepUpdateKeeps, SweepUpdateImplements
<1>4. CASE JobStep
  BY <1>1, <1>4 DEF JobStep
<1>5. CASE UNCHANGED vars
  BY <1>1, <1>5
<1> QED
  BY <1>2, <1>3, <1>4, <1>5 DEF RecoveryNext, Age, Sweep, SweepStart, SweepAbort, recoveryVars

\* A process starts without a cron's snapshot.
LEMMA RecoveryStarts == RecoveryInit => PipelineInv /\ SweepInv
<1> SUFFICES ASSUME RecoveryInit PROVE PipelineInv /\ SweepInv
  OBVIOUS
<1>1. Init /\ stale = {} /\ sweep = {}
  BY DEF RecoveryInit
<1>2. PipelineInv
  BY <1>1, TypeInit, LockInit, DraftInit, OnceInit, LegacyInit, OverInit DEF PipelineInv
<1>3. SweepInv
  BY <1>1 DEF SweepInv, Watched, Init, IdleTask, Bystanders
<1> QED
  BY <1>2, <1>3

\* Also across any number of restarts, and with the cron reopening and giving up
\* the rows they leave behind, the pipeline keeps its contract, unless a user
\* retries a document: the cron resets a row by id, also under the job of a retry.
THEOREM RecoveryImplements ==
    "ack" \notin Faults /\ "retry" \notin Requests => (RecoverySpec => ImplementsContract)
<1> SUFFICES ASSUME "ack" \notin Faults, "retry" \notin Requests
             PROVE  RecoverySpec => ImplementsContract
  OBVIOUS
<1>1. RecoveryInit => PipelineInv /\ SweepInv
  BY RecoveryStarts
<1>2. RecoveryInit => Contract!Init
  BY PhaseValues DEF RecoveryInit, Init, Contract!Init, Writers
<1>3. PipelineInv /\ SweepInv /\ [RecoveryNext]_recoveryVars
        => PipelineInv' /\ [Contract!Next]_Contract!vars
  BY RecoveryStep
<1>4. PipelineInv /\ SweepInv /\ [RecoveryNext]_recoveryVars => SweepInv'
  BY SweepInvStep
<1> QED
  BY <1>1, <1>2, <1>3, <1>4, PTL DEF RecoverySpec, ImplementsContract, Contract!Spec

\* A run is executed by one job at a time, gets one draft and is charged once by
\* its job, and once by an approval, across any number of restarts, and with the
\* cron taking up what they leave behind, unless a user retries a document: the
\* cron would reopen a row that a retry has locked, for another job to lock it
\* again.
THEOREM RecoveryExecutesOnce ==
    "ack" \notin Faults /\ "retry" \notin Requests =>
        (RecoverySpec => [](Exclusive /\ OneDraftPerRun /\ ChargedOnce))
<1> SUFFICES ASSUME "ack" \notin Faults, "retry" \notin Requests
             PROVE  RecoverySpec => [](Exclusive /\ OneDraftPerRun /\ ChargedOnce)
  OBVIOUS
<1>1. PipelineInv /\ SweepInv /\ [RecoveryNext]_recoveryVars => PipelineInv' /\ SweepInv'
  BY RecoveryStep, SweepInvStep
<1>2. OnceInv /\ LegacyOnceInv => ChargedOnce
  BY DEF OnceInv, JobChargedOnce, LegacyOnceInv, LegacyChargedOnce, ChargedOnce, Over
<1>3. PipelineInv => Exclusive /\ OneDraftPerRun /\ ChargedOnce
  BY <1>2 DEF PipelineInv, LockInv, DraftInv
<1> QED
  BY RecoveryStarts, <1>1, <1>3, PTL DEF RecoverySpec

-----------------------------------------------------------------------------
\* The quota across restarts, for requests and faults of every kind.

\* What the cron has in hand are rows.
SweepTyped == stale \subseteq Runs /\ sweep \subseteq [run : Runs, retryCount : Nat]

QuotaAndTypes == TypeInv /\ SweepTyped /\ QuotaInv

\* A step that charges nothing and admits nobody keeps the room there is.
LEMMA QuotaStands ==
  ASSUME IsFiniteSet(Tasks), QuotaInv, UNCHANGED usage, Admitted' \subseteq Admitted
  PROVE  QuotaInv'
<1>1. UsageRecords' = UsageRecords /\ UncheckedRecords' = UncheckedRecords
  BY DEF UsageRecords, UncheckedRecords, RecordsOf
<1>2. IsFiniteSet(Admitted)
  <2>1. Admitted \subseteq Tasks
    BY DEF Admitted
  <2> QED
    BY <2>1, FS_Subset
<1>3. IsFiniteSet(Admitted') /\ Cardinality(Admitted') <= Cardinality(Admitted)
  BY <1>2, FS_Subset
<1>4. /\ Cardinality(Admitted) \in Nat /\ Cardinality(Admitted') \in Nat /\ Cardinality(Tasks) \in Nat
      /\ Cardinality(UsageRecords) \in Nat /\ Limit \in Nat
  BY <1>2, <1>3, FS_CardinalityType, BoundsAssumption DEF QuotaInv
<1> QED
  BY <1>1, <1>3, <1>4 DEF QuotaInv

\* The cron writes no record, and a restart only drops requests.
LEMMA QuotaRecoveryStep ==
  ASSUME IsFiniteSet(Tasks)
  PROVE  QuotaAndTypes /\ [RecoveryNext]_recoveryVars => QuotaAndTypes'
<1> SUFFICES ASSUME QuotaAndTypes, [RecoveryNext]_recoveryVars PROVE QuotaAndTypes'
  OBVIOUS
<1>0. TypeInv /\ SweepTyped /\ QuotaInv /\ retryCount \in [Runs -> Nat] /\ status \in [Runs -> Statuses]
  BY DEF QuotaAndTypes, TypeInv, TypeOK
<1>1. ASSUME [Next]_vars, SweepTyped' PROVE QuotaAndTypes'
  BY <1>0, <1>1, TypeStep, QuotaStep DEF QuotaAndTypes
<1>2. CASE JobStep
  <2>1. SweepTyped'
    BY <1>0, <1>2 DEF JobStep, Stamp, SweepTyped
  <2> QED
    BY <1>1, <1>2, <2>1 DEF JobStep
<1>3. CASE Crash
  <2>0. /\ \A t \in Tasks : task'[t] = IdleTask
        /\ UNCHANGED <<status, retryCount, purchaseId, purchases, files, usage, stale>> /\ deleting' = {}
        /\ task' = [t \in Tasks |-> IdleTask] /\ sweep' = {}
    BY <1>3 DEF Crash
  <2>1. IdleTask \in TaskStates /\ IdleTask.pc = "idle"
    BY BoundsAssumption DEF IdleTask, TaskStates, Labels, Statuses, Stored
  <2>2. TypeInv'
    BY <1>0, <2>0, <2>1 DEF TypeInv, TypeOK, ServesRun
  <2>3. Admitted' \subseteq Admitted
    BY <2>0, <2>1 DEF Admitted
  <2>4. QuotaInv'
    BY <1>0, <2>0, <2>3, QuotaStands
  <2> QED
    BY <1>0, <2>0, <2>2, <2>4 DEF QuotaAndTypes, SweepTyped
<1>4. ASSUME NEW s \in sweep, SweepUpdate(s) PROVE QuotaAndTypes'
  <2>0. s.run \in Runs /\ s.retryCount \in Nat
    BY <1>0 DEF SweepTyped
  <2>1. UNCHANGED <<purchaseId, purchases, files, deleting, usage, task>>
        /\ sweep' \subseteq sweep /\ stale' \subseteq stale
    BY <1>4 DEF SweepUpdate
  <2>2. status' \in [Runs -> Statuses] /\ retryCount' \in [Runs -> Nat]
    <3>1. "pending" \in Statuses /\ "failed" \in Statuses
      BY DEF Statuses, Stored, Open
    <3>2. [status EXCEPT ![s.run] = "pending"] \in [Runs -> Statuses]
          /\ [status EXCEPT ![s.run] = "failed"] \in [Runs -> Statuses]
          /\ [retryCount EXCEPT ![s.run] = @ + 1] \in [Runs -> Nat]
      BY <1>0, <2>0, <3>1
    <3> QED
      BY <1>0, <1>4, <3>2 DEF SweepUpdate
  <2>3. TypeInv'
    BY <1>0, <2>1, <2>2 DEF TypeInv, TypeOK, ServesRun, WillRetry
  <2>4. Admitted' \subseteq Admitted
    BY <2>1 DEF Admitted
  <2>5. QuotaInv'
    BY <1>0, <2>1, <2>4, QuotaStands
  <2> QED
    BY <1>0, <2>1, <2>3, <2>5 DEF QuotaAndTypes, SweepTyped
<1>5. CASE SweepStart
  <2>1. PICK batch \in SUBSET Stuck : sweep' = {SweepRow(r) : r \in batch}
    BY <1>5 DEF SweepStart
  <2>2. SweepTyped'
    BY <1>0, <1>5, <2>1 DEF SweepStart, SweepTyped, SweepRow, Stuck
  <2>3. UNCHANGED vars
    BY <1>5 DEF SweepStart
  <2> QED
    BY <1>1, <2>2, <2>3
<1>6. CASE (\E r \in Runs : Age(r)) \/ SweepAbort \/ UNCHANGED recoveryVars
  <2>1. SweepTyped'
    BY <1>0, <1>6 DEF Age, SweepAbort, SweepTyped, recoveryVars
  <2>2. UNCHANGED vars
    BY <1>6 DEF Age, SweepAbort, recoveryVars
  <2> QED
    BY <1>1, <2>1, <2>2
<1> QED
  BY <1>2, <1>3, <1>4, <1>5, <1>6 DEF RecoveryNext, Sweep

\* The plan is overrun by no more than the requests in flight also across any
\* number of restarts, and whatever the cron and retries do to one another
\* (QuotaOverrun): a document costs at most once per request the gate admitted,
\* beside what the legacy endpoints and the chats write without asking.
THEOREM RecoveryQuotaBounded ==
    IsFiniteSet(Tasks) /\ Tasks # {} => (RecoverySpec => []QuotaOverrun)
<1> SUFFICES ASSUME IsFiniteSet(Tasks), Tasks # {} PROVE RecoverySpec => []QuotaOverrun
  OBVIOUS
<1>1. RecoveryInit => QuotaAndTypes
  BY TypeInit, QuotaInit DEF RecoveryInit, QuotaAndTypes, SweepTyped
<1>2. QuotaAndTypes /\ [RecoveryNext]_recoveryVars => QuotaAndTypes'
  BY QuotaRecoveryStep
<1>3. QuotaAndTypes => QuotaOverrun
  BY QuotaHolds DEF QuotaAndTypes
<1> QED
  BY <1>1, <1>2, <1>3, PTL DEF RecoverySpec
=============================================================================
