--------------------------- MODULE RetentionProofs --------------------------
(***************************************************************************)
(* Proofs about Offboarding and Backups: companies that close, and         *)
(* databases that are restored, for every number of companies, demands and *)
(* days.                                                                   *)
(***************************************************************************)
EXTENDS Offboarding, Backups, FiniteSetTheorems, TLAPS
-----------------------------------------------------------------------------
\* Offboarding: a company is closed once.

\* The initial states are in the invariant.
LEMMA ClosingInit == OffboardingInit => OffboardingInv
  BY OffboardingAssumption
  DEF OffboardingInit, OffboardingInv, OffboardingTypeOK, Named, CutIsLogged, ClosedIsLogged, OneCloser,
      IdleDemand, DemandSteps

\* A set whose members are all equal has one at most.
LEMMA AtMostOne ==
  ASSUME NEW S, \A x, y \in S : x = y
  PROVE  Cardinality(S) <= 1
<1>1. CASE S = {}
  BY <1>1, FS_EmptySet
<1>2. ASSUME NEW x \in S PROVE Cardinality(S) <= 1
  <2>1. S = {x}
    BY <1>2
  <2> QED
    BY <2>1, FS_Singleton
<1> QED
  BY <1>1, <1>2

\* Steps that take no company away and no event, and bring no call to its last
\* steps.
LEMMA NothingCloses ==
  ASSUME OffboardingInv, UNCHANGED company, audit \subseteq audit', OffboardingTypeOK', Named',
         \A r \in Demands : \/ demand'[r] = demand[r]
                            \/ demand'[r].pc \notin {"cut", "closed"}
  PROVE  OffboardingInv'
  BY DEF OffboardingInv, CutIsLogged, ClosedIsLogged, OneCloser

\* Companies go, and what is left of the log names none of them.
LEMMA CompaniesGo ==
  ASSUME OffboardingInv, NEW cs \in SUBSET company,
         company' = company \ cs,
         audit' \subseteq [by : Demands, company : Companies \union {NoCompany}, what : {"exported", "deleted"}],
         \A e \in audit : e.company \notin cs => e \in audit',
         UNCHANGED demand
  PROVE  CutIsLogged' /\ ClosedIsLogged' /\ OneCloser' /\ Named'
<1>1. NoCompany \notin cs
  BY OffboardingAssumption DEF OffboardingInv, OffboardingTypeOK
<1>2. CutIsLogged'
  BY DEF OffboardingInv, CutIsLogged
<1>3. ClosedIsLogged'
  BY <1>1 DEF OffboardingInv, ClosedIsLogged
<1> QED
  BY <1>2, <1>3 DEF OffboardingInv, OneCloser, Named

\* The deletion of a company takes its rows along.
LEMMA CascadeKeeps ==
  ASSUME OffboardingTypeOK, NEW cs \in SUBSET company, Cascade(cs)
  PROVE  /\ company' = company \ cs /\ company' \subseteq Companies
         /\ member' \subseteq People \X Companies
         /\ audit' \subseteq [by : Demands, company : Companies \union {NoCompany}, what : {"exported", "deleted"}]
         /\ \A e \in audit : e.company \notin cs => e \in audit'
         /\ \A e \in audit : e.company \in cs => [by |-> e.by, company |-> NoCompany, what |-> e.what] \in audit'
<1> DEFINE left(e) == IF e.company \in cs THEN [e EXCEPT !.company = NoCompany] ELSE e
<1>1. audit' = {left(e) : e \in audit} /\ company' = company \ cs /\ member' \subseteq member
  BY DEF Cascade
<1>2. ASSUME NEW e \in audit
      PROVE  /\ left(e) \in [by : Demands, company : Companies \union {NoCompany}, what : {"exported", "deleted"}]
             /\ e.company \notin cs => left(e) = e
             /\ e.company \in cs => left(e) = [by |-> e.by, company |-> NoCompany, what |-> e.what]
  BY DEF OffboardingTypeOK
<1> HIDE DEF left
<1> QED
  BY <1>1, <1>2 DEF OffboardingTypeOK

\* A call that takes a step keeps its caller and its company.
LEMMA Advances ==
  ASSUME OffboardingTypeOK, Named, NEW r \in Demands, NEW pc \in DemandSteps,
         demand[r].pc # "idle", Advance(r, pc)
  PROVE  /\ demand' \in [Demands -> [pc : DemandSteps, who : People \union {NoCompany},
                                     company : Companies \union {NoCompany}]]
         /\ demand'[r].pc = pc /\ demand'[r].company = demand[r].company
         /\ demand[r].company \in Companies
         /\ \A o \in Demands \ {r} : demand'[o] = demand[o]
         /\ Named'
  BY DEF OffboardingTypeOK, Advance, Named

\* Every step, and every stutter, keeps the invariant.
LEMMA ClosingNext == OffboardingInv /\ [OffboardingNext]_offboardingVars => OffboardingInv'
<1> SUFFICES ASSUME OffboardingInv, [OffboardingNext]_offboardingVars PROVE OffboardingInv'
  OBVIOUS
<1> USE DEF OffboardingInv
<1>1. CASE \/ \E u \in People : GetToken(u) \/ \E c \in Companies : Join(u, c)
           \/ \E c \in Companies, mark \in Marks : Work(c, mark) \/ Age(c, mark)
           \/ FindInactive \/ UNCHANGED offboardingVars
  <2>1. UNCHANGED <<company, audit, demand>>
    BY <1>1 DEF GetToken, Join, Work, Age, FindInactive, offboardingVars
  <2>2. OffboardingTypeOK'
    BY <1>1, <2>1 DEF GetToken, Join, Work, Age, FindInactive, offboardingVars, OffboardingTypeOK
  <2> QED
    BY <2>1, <2>2, NothingCloses DEF Named
<1>2. ASSUME NEW r \in Demands, NEW u \in People, NEW c \in Companies,
             \/ FindErased(r, u, c)
             \/ \E what \in {"export", "delete"} : CheckMembership(r, u, c, what)
      PROVE  OffboardingInv'
  <2>1. PICK pc \in {"erase", "export", "delete"} :
          demand' = [demand EXCEPT ![r] = [pc |-> pc, who |-> u, company |-> c]]
    BY <1>2 DEF FindErased, CheckMembership
  <2>2. UNCHANGED <<company, member, token, audit, recent, doomed>>
    BY <1>2 DEF FindErased, CheckMembership
  <2>3. OffboardingTypeOK' /\ Named'
    BY <2>1, <2>2 DEF OffboardingTypeOK, Named, DemandSteps
  <2> QED
    BY <2>1, <2>2, <2>3, NothingCloses DEF OffboardingTypeOK
<1>3. ASSUME NEW r \in Demands,
             ExportData(r) \/ CountOthers(r) \/ FailDemand(r) \/ RecordErased(r)
      PROVE  OffboardingInv'
  <2>1. PICK pc \in {"exported", "counted", "refused", "failed"} : Advance(r, pc)
    BY <1>3 DEF ExportData, CountOthers, FailDemand, RecordErased
  <2>2. demand[r].pc # "idle" /\ pc \in DemandSteps
    BY <1>3 DEF ExportData, CountOthers, FailDemand, RecordErased, DemandSteps
  <2>3. /\ demand' \in [Demands -> [pc : DemandSteps, who : People \union {NoCompany},
                                     company : Companies \union {NoCompany}]]
        /\ demand'[r].pc = pc /\ Named' /\ demand[r].company \in Companies
        /\ \A o \in Demands \ {r} : demand'[o] = demand[o]
    BY <2>1, <2>2, Advances
  <2>4. /\ UNCHANGED <<company, member, token, recent, doomed>>
        /\ audit' = audit \/ audit' = audit \union {[by |-> r, company |-> demand[r].company, what |-> "exported"]}
    BY <1>3 DEF ExportData, CountOthers, FailDemand, RecordErased, Record
  <2>5. OffboardingTypeOK'
    BY <2>3, <2>4 DEF OffboardingTypeOK
  <2> QED
    BY <2>3, <2>4, <2>5, NothingCloses
<1>4. ASSUME NEW r \in Demands, CutOff(r) PROVE OffboardingInv'
  <2> DEFINE c == demand[r].company
             event == [by |-> r, company |-> c, what |-> "deleted"]
  <2>1. /\ demand[r].pc = "counted" /\ Advance(r, "cut") /\ audit' = audit \union {event}
        /\ member' \subseteq member /\ token' \subseteq token /\ UNCHANGED <<company, recent, doomed>>
    BY <1>4 DEF CutOff, Record
  <2>2. demand[r].pc # "idle" /\ "cut" \in DemandSteps
    BY <2>1 DEF DemandSteps
  <2>3. /\ demand' \in [Demands -> [pc : DemandSteps, who : People \union {NoCompany},
                                     company : Companies \union {NoCompany}]]
        /\ demand'[r].pc = "cut" /\ demand'[r].company = c /\ c \in Companies /\ Named'
        /\ \A o \in Demands \ {r} : demand'[o] = demand[o]
    BY <2>1, <2>2, Advances
  <2>4. OffboardingTypeOK'
    BY <2>1, <2>3 DEF OffboardingTypeOK
  <2>5. CutIsLogged'
    BY <2>1, <2>3 DEF CutIsLogged
  <2>6. \A o \in Demands : demand'[o].pc = "closed" => demand'[o] = demand[o]
    BY <2>3
  <2>7. ClosedIsLogged'
    BY <2>1, <2>6 DEF ClosedIsLogged
  <2>8. OneCloser'
    BY <2>6 DEF OneCloser
  <2> QED
    BY <2>3, <2>4, <2>5, <2>7, <2>8
<1>5. ASSUME NEW r \in Demands, DeleteCompany(r) PROVE OffboardingInv'
  <2> DEFINE c == demand[r].company
  <2>1. /\ demand[r].pc = "cut" /\ c \in company /\ Cascade({c}) /\ Advance(r, "closed")
        /\ UNCHANGED <<token, recent, doomed>>
    BY <1>5 DEF DeleteCompany, Removable
  <2>2. demand[r].pc # "idle" /\ "closed" \in DemandSteps /\ {c} \in SUBSET company
    BY <2>1 DEF DemandSteps
  <2>3. /\ demand' \in [Demands -> [pc : DemandSteps, who : People \union {NoCompany},
                                     company : Companies \union {NoCompany}]]
        /\ demand'[r].pc = "closed" /\ demand'[r].company = c /\ c \in Companies /\ Named'
        /\ \A o \in Demands \ {r} : demand'[o] = demand[o]
    BY <2>1, <2>2, Advances
  <2>4. /\ company' = company \ {c} /\ company' \subseteq Companies
        /\ member' \subseteq People \X Companies
        /\ audit' \subseteq [by : Demands, company : Companies \union {NoCompany}, what : {"exported", "deleted"}]
        /\ \A e \in audit : e.company # c => e \in audit'
        /\ \A e \in audit : e.company = c => [by |-> e.by, company |-> NoCompany, what |-> e.what] \in audit'
    BY <2>1, <2>2, CascadeKeeps
  <2>5. OffboardingTypeOK'
    BY <2>1, <2>3, <2>4 DEF OffboardingTypeOK
  <2>6. CutIsLogged'
    BY <2>3, <2>4 DEF CutIsLogged
  <2>7. ClosedIsLogged'
    <3>1. [by |-> r, company |-> c, what |-> "deleted"] \in audit
      BY <2>1 DEF CutIsLogged
    <3>2. [by |-> r, company |-> NoCompany, what |-> "deleted"] \in audit'
      BY <2>4, <3>1
    <3>3. NoCompany # c
      BY <2>3, OffboardingAssumption
    <3> QED
      BY <2>3, <2>4, <3>2, <3>3 DEF ClosedIsLogged
  <2>8. OneCloser'
    <3>1. \A o \in Demands : demand[o].pc = "closed" => demand[o].company # c
      BY <2>1 DEF ClosedIsLogged
    <3>2. \A o \in Demands : o = r \/ demand'[o] = demand[o]
      BY <2>3
    <3> QED
      BY <2>3, <3>1, <3>2 DEF OneCloser
  <2> QED
    BY <2>3, <2>5, <2>6, <2>7, <2>8
<1>6. ASSUME NEW r \in Demands, EraseCompany(r) PROVE OffboardingInv'
  <2> DEFINE c == demand[r].company
  <2>1. /\ demand[r].pc = "erase" /\ c \in company /\ Advance(r, "erased")
        /\ company' = company \ {c} /\ member' \subseteq member /\ token' \subseteq token
        /\ audit' = {e \in audit : e.company # c} /\ UNCHANGED <<recent, doomed>>
    BY <1>6 DEF EraseCompany
  <2>2. demand[r].pc # "idle" /\ "erased" \in DemandSteps
    BY <2>1 DEF DemandSteps
  <2>3. /\ demand' \in [Demands -> [pc : DemandSteps, who : People \union {NoCompany},
                                     company : Companies \union {NoCompany}]]
        /\ demand'[r].pc = "erased" /\ c \in Companies /\ Named'
        /\ \A o \in Demands \ {r} : demand'[o] = demand[o]
    BY <2>1, <2>2, Advances
  <2>4. OffboardingTypeOK'
    BY <2>1, <2>3 DEF OffboardingTypeOK
  <2>5. CutIsLogged'
    BY <2>1, <2>3 DEF CutIsLogged
  <2>6. NoCompany # c
    BY <2>3, OffboardingAssumption
  <2>7. ClosedIsLogged'
    BY <2>1, <2>3, <2>6 DEF ClosedIsLogged
  <2>8. OneCloser'
    BY <2>3 DEF OneCloser
  <2> QED
    BY <2>3, <2>4, <2>5, <2>7, <2>8
<1>7. CASE DeleteInactive
  <2>1. CASE doomed \subseteq company /\ Cascade(doomed)
    <3>1. doomed \in SUBSET company
      BY <2>1
    <3>2. /\ company' = company \ doomed /\ company' \subseteq Companies
          /\ member' \subseteq People \X Companies
          /\ audit' \subseteq [by : Demands, company : Companies \union {NoCompany}, what : {"exported", "deleted"}]
          /\ \A e \in audit : e.company \notin doomed => e \in audit'
      BY <2>1, <3>1, CascadeKeeps
    <3>3. UNCHANGED <<token, recent, demand>> /\ doomed' = {}
      BY <1>7 DEF DeleteInactive
    <3>4. CutIsLogged' /\ ClosedIsLogged' /\ OneCloser' /\ Named'
      BY <3>1, <3>2, <3>3, CompaniesGo
    <3>5. OffboardingTypeOK'
      BY <3>2, <3>3 DEF OffboardingTypeOK
    <3> QED
      BY <3>4, <3>5
  <2>2. CASE UNCHANGED <<company, member, audit>>
    <3>1. UNCHANGED <<token, recent, demand>> /\ doomed' = {}
      BY <1>7 DEF DeleteInactive
    <3>2. OffboardingTypeOK' /\ Named'
      BY <2>2, <3>1 DEF OffboardingTypeOK, Named
    <3> QED
      BY <2>2, <3>1, <3>2, NothingCloses
  <2> QED
    BY <1>7, <2>1, <2>2 DEF DeleteInactive
<1> QED
  BY <1>1, <1>2, <1>3, <1>4, <1>5, <1>6, <1>7 DEF OffboardingNext

\* However many of its members delete a company at once, and whatever the other
\* jobs delete meanwhile, one call at most reports that it did, and the log
\* keeps its event (ClosedOnce).
THEOREM CompaniesClosedOnce == OffboardingSpec => []ClosedOnce
<1>1. OffboardingInv => ClosedOnce
  <2> SUFFICES ASSUME OffboardingInv, NEW c \in Companies
               PROVE  LET closers == {r \in Demands : demand[r].pc = "closed" /\ demand[r].company = c} IN
                      /\ Cardinality(closers) <= 1
                      /\ \A r \in closers : /\ c \notin company
                                            /\ [by |-> r, company |-> NoCompany, what |-> "deleted"] \in audit
    BY DEF ClosedOnce
  <2> DEFINE closers == {r \in Demands : demand[r].pc = "closed" /\ demand[r].company = c}
  <2>1. \A r, s \in closers : r = s
    BY DEF OffboardingInv, OneCloser
  <2>2. Cardinality(closers) <= 1
    BY <2>1, AtMostOne
  <2> QED
    BY <2>2 DEF OffboardingInv, ClosedIsLogged
<1> QED
  BY <1>1, ClosingInit, ClosingNext, PTL DEF OffboardingSpec
-----------------------------------------------------------------------------
\* Backups: a restore replaces what was there.

\* The initial states are in the invariant.
LEMMA BackupsInit == BackupInit => BackupInv
  BY DEF BackupInit, BackupInv, TargetSound, RestoreReplaces

\* The script and the verification touch neither a restore nor its target.
LEMMA RestoreUntouched ==
  ASSUME BackupInv, UNCHANGED <<restore, target>>
  PROVE  BackupInv'
  BY DEF BackupInv, TargetSound, RestoreReplaces

\* A restore loads only into a database it has just created, and that can be
\* created only where none is.
LEMMA RestoreRuns ==
  ASSUME BackupInv,
         ChooseFile \/ DropTarget \/ CreateTarget \/ LoadTarget \/ FailRestore \/ EndRestore
  PROVE  BackupInv'
<1> USE DEF BackupInv, TargetSound, RestoreReplaces
<1>1. \A pc : LET moved == [restore EXCEPT !.pc = pc]
              IN  moved.pc = pc /\ DOMAIN moved = {"pc", "day"}
  OBVIOUS
<1>2. CASE ChooseFile \/ EndRestore
  <2>1. UNCHANGED target /\ restore'.pc \in {"drop", "idle"} /\ DOMAIN restore' = {"pc", "day"}
    BY <1>2 DEF ChooseFile, EndRestore
  <2> QED
    BY <2>1
<1>3. CASE DropTarget
  <2>1. target' \in {"none", target} /\ restore' = [restore EXCEPT !.pc = "create"]
    BY <1>3 DEF DropTarget
  <2>2. restore'.pc = "create" /\ DOMAIN restore' = {"pc", "day"}
    BY <1>1, <2>1
  <2> QED
    BY <2>1, <2>2
<1>4. CASE CreateTarget
  <2>1. target = "none" /\ target' = "empty" /\ restore' = [restore EXCEPT !.pc = "load"]
    BY <1>4 DEF CreateTarget, Creatable
  <2>2. restore'.pc = "load" /\ DOMAIN restore' = {"pc", "day"}
    BY <1>1, <2>1
  <2> QED
    BY <2>1, <2>2
<1>5. CASE LoadTarget
  <2>1. target' \in {"restored", "partial"} /\ restore' = [restore EXCEPT !.pc = "succeeded"]
    BY <1>5 DEF LoadTarget
  <2>2. restore'.pc = "succeeded" /\ DOMAIN restore' = {"pc", "day"}
    BY <1>1, <2>1
  <2> QED
    BY <2>1, <2>2
<1>6. CASE FailRestore
  <2>1. target' \in {target, "partial"} /\ restore' = [restore EXCEPT !.pc = "failed"]
    BY <1>6 DEF FailRestore
  <2>2. restore'.pc = "failed" /\ DOMAIN restore' = {"pc", "day"}
    BY <1>1, <2>1
  <2> QED
    BY <2>1, <2>2
<1> QED
  BY <1>2, <1>3, <1>4, <1>5, <1>6

\* Every step, and every stutter, keeps the invariant.
LEMMA BackupsNext == BackupInv /\ [BackupNext]_backupVars => BackupInv'
<1> SUFFICES ASSUME BackupInv, [BackupNext]_backupVars PROVE BackupInv'
  OBVIOUS
<1>1. CASE \/ NextBackupDay \/ Dump \/ WriteFile \/ Upload \/ Clean \/ FailBackup
           \/ FindNewest \/ LoadTemporary \/ QueryTemporary \/ UNCHANGED backupVars
  <2>1. UNCHANGED <<restore, target>>
    BY <1>1 DEF NextBackupDay, Dump, WriteFile, Upload, Clean, FailBackup, FindNewest, LoadTemporary,
       QueryTemporary, backupVars
  <2> QED
    BY <2>1, RestoreUntouched
<1>2. CASE ChooseFile \/ DropTarget \/ CreateTarget \/ LoadTarget \/ FailRestore \/ EndRestore
  BY <1>2, RestoreRuns
<1> QED
  BY <1>1, <1>2 DEF BackupNext

\* However restores follow one another, whatever of a drop, a creation or a load
\* fails: no backup is loaded over the data that was there, and a restore that
\* reports success has left none of it (RestoreReplaces).
THEOREM RestoresReplace == BackupSpec => []RestoreReplaces
<1>1. BackupInv => RestoreReplaces
  BY DEF BackupInv
<1> QED
  BY BackupsInit, BackupsNext, <1>1, PTL DEF BackupSpec
=============================================================================
