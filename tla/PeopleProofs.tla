---------------------------- MODULE PeopleProofs ----------------------------
(***************************************************************************)
(* Proofs about Accounts and Tenancy: what a sign-in, a password and a     *)
(* session are worth however requests overlap, and what companies, users   *)
(* and memberships are left behind, for every number of requests, users,   *)
(* demo requests and companies.                                            *)
(***************************************************************************)
EXTENDS People, SequenceTheorems, TLAPS
-----------------------------------------------------------------------------
\* Accounts.

Fine(t) == TaskTyped(task[t]) /\ TaskSound(task[t])

\* How far the other parts of an account may change under a request.
Onward ==
    /\ now' \in Nat /\ now <= now'
    /\ fails' \in Nat /\ fails <= fails'
    /\ cutoffs' \in Nat /\ cutoffs <= cutoffs'
    /\ raced => raced'
    /\ user.consent => user.consent'
    /\ DOMAIN sessions \subseteq DOMAIN sessions'
    /\ \A s \in DOMAIN sessions : sessions'[s].cred = sessions[s].cred

\* Time passing takes no time and no copy away.
LEMMA TimesGrow ==
  ASSUME now \in Nat, now' \in Nat, now <= now'
  PROVE  /\ Times \subseteq Times' /\ ProfileRows \subseteq ProfileRows'
         /\ AccountCopies \subseteq AccountCopies'
<1>1. 0 .. now \subseteq 0 .. now'
  OBVIOUS
<1>2. Times \subseteq Times'
  BY <1>1 DEF Times
<1>3. ProfileRows \subseteq ProfileRows'
  BY <1>2 DEF ProfileRows
<1>4. AccountCopies \subseteq AccountCopies'
  BY <1>2 DEF AccountCopies
<1> QED
  BY <1>2, <1>3, <1>4

\* What a request carries stays right when others write.
LEMMA TaskKept ==
  ASSUME AccountTypeOK, Onward, NEW t \in Tasks, Fine(t), task'[t] = task[t],
         cutoffs' = cutoffs \/ raced' \/ task[t].pc \notin SigningIn
  PROVE  Fine(t)'
<1> DEFINE c == task[t]
<1>1. {now, fails, cutoffs} \subseteq Nat
  BY DEF AccountTypeOK
<1>2. AccountCopies \subseteq AccountCopies' /\ 0 .. cutoffs \subseteq 0 .. cutoffs'
      /\ 0 .. fails \subseteq 0 .. fails' /\ 0 .. now \subseteq 0 .. now'
  BY <1>1, TimesGrow DEF Onward
<1>3. TaskTyped(task[t])'
  BY <1>2 DEF TaskTyped, Onward, Fine, SignInArgs, PasswordCopies
<1>4. TaskSound(task[t])'
  <2>1. c.pc \in Issuing => c.session \in DOMAIN sessions
    BY DEF Fine, TaskTyped
  <2>2. c.pc \in Issuing => sessions'[c.session].cred = c.cred
    BY <2>1 DEF Onward, Fine, TaskSound
  <2>3. c.pc \in SigningIn => (c.seen.consent => user'.consent) /\ (raced' \/ c.cred = cutoffs')
    BY DEF Onward, Fine, TaskSound
  <2> QED
    BY <2>2, <2>3 DEF Onward, Fine, TaskSound, Reusable
<1> QED
  BY <1>3, <1>4 DEF Fine

\* One request moves, the others are as they were.
LEMMA OneTask ==
  ASSUME AccountTypeOK, TasksSound, Onward, NEW t \in Tasks, NEW row,
         task' = [task EXCEPT ![t] = row],
         TaskTyped(task[t])', TaskSound(task[t])',
         cutoffs' = cutoffs \/ raced' \/ \A u \in Tasks \ {t} : task[u].pc \notin SigningIn
  PROVE  TasksSound'
<1>1. DOMAIN task' = Tasks /\ \A u \in Tasks \ {t} : task'[u] = task[u]
  BY DEF TasksSound
<1>2. ASSUME NEW u \in Tasks PROVE Fine(u)'
  <2>1. CASE u = t
    BY <2>1 DEF Fine
  <2>2. CASE u # t
    BY <1>1, <2>2, TaskKept DEF Fine, TasksSound
  <2> QED
    BY <2>1, <2>2
<1> QED
  BY <1>1, <1>2 DEF TasksSound, Fine

\* A handler that keeps no request leaves those under way right.
LEMMA NoTask ==
  ASSUME AccountTypeOK, TasksSound, Onward, task' = task, cutoffs' = cutoffs
  PROVE  TasksSound'
<1>1. ASSUME NEW u \in Tasks PROVE Fine(u)'
  BY TaskKept DEF Fine, TasksSound
<1> QED
  BY <1>1 DEF TasksSound, Fine

\* The task of a request after it moved.
LEMMA Moved ==
  ASSUME TasksSound, NEW t \in Tasks, NEW row, task' = [task EXCEPT ![t] = row]
  PROVE  task'[t] = row
  BY DEF TasksSound

\* A request that ends carries nothing.
LEMMA Ended ==
  ASSUME AccountTypeOK, TasksSound, Onward, NEW t \in Tasks, End(t),
         cutoffs' = cutoffs \/ raced' \/ \A u \in Tasks \ {t} : task[u].pc \notin SigningIn
  PROVE  TasksSound'
<1>1. task'[t] = IdleTask
  BY Moved DEF End
<1>2. TaskTyped(task[t])'
  BY <1>1 DEF TaskTyped, IdleTask, SigningIn, Issuing, Labels
<1>3. TaskSound(task[t])'
  BY <1>1 DEF TaskSound, IdleTask, SigningIn, Issuing
<1> QED
  BY <1>2, <1>3, OneTask DEF End

\* Requests that only read.
LEMMA OnlyTask ==
  ASSUME AccountInv, TasksSound',
         UNCHANGED <<user, profile, memberships, sessions, links, now, ghosts>>
  PROVE  AccountInv'
<1>1. AccountTypeOK'
  BY DEF AccountInv, AccountTypeOK, ghosts, ProfileRows, SessionRows, Times
<1>2. SessionsSound'
  BY DEF AccountInv, SessionsSound, SessionSound, ghosts
<1>3. LockEarned' /\ HistoryKeepsApart'
  BY DEF AccountInv, LockEarned, HistoryKeepsApart, ghosts
<1> QED
  BY <1>1, <1>2, <1>3 DEF AccountInv

\* A request starts with a copy of rows it read.
LEMMA Carried ==
  ASSUME AccountInv, NEW t \in Tasks, NEW pc, NEW seen, NEW arg, NEW session, NEW cred,
         Carry(t, pc, seen, arg, session, cred),
         UNCHANGED <<user, profile, memberships, sessions, links, now, ghosts>>,
         TaskTyped([pc |-> pc, seen |-> seen, arg |-> arg, session |-> session, cred |-> cred]),
         TaskSound([pc |-> pc, seen |-> seen, arg |-> arg, session |-> session, cred |-> cred])
  PROVE  AccountInv'
<1> DEFINE row == [pc |-> pc, seen |-> seen, arg |-> arg, session |-> session, cred |-> cred]
<1>0. AccountTypeOK /\ TasksSound
  BY DEF AccountInv
<1>1. task' = [task EXCEPT ![t] = row]
  BY DEF Carry
<1>2. task'[t] = row
  BY <1>0, <1>1, Moved
<1> HIDE DEF row
<1>3. TaskTyped(task[t])'
  BY <1>2 DEF row, TaskTyped, AccountCopies, Times, SignInArgs, PasswordCopies, ghosts
<1>4. TaskSound(task[t])'
  BY <1>2 DEF row, TaskSound, ghosts, Reusable
<1>5. Onward
  BY <1>0 DEF Onward, ghosts, AccountTypeOK
<1>6. TasksSound'
  BY <1>0, <1>1, <1>3, <1>4, <1>5, OneTask DEF ghosts
<1> QED
  BY <1>6, OnlyTask
\* The copies a request takes of the rows.
LEMMA CopyTyped ==
  ASSUME AccountTypeOK
  PROVE  /\ Account \in AccountCopies /\ Account.consent = user.consent
         /\ user.password # None => Password \in PasswordCopies
<1> USE DEF AccountTypeOK, ProfileRows
<1>1. Account \in AccountCopies
  BY DEF Account, AccountCopies
<1>2. user.password # None => Password \in PasswordCopies
  BY DEF Password, PasswordCopies
<1> QED
  BY <1>1, <1>2 DEF Account

\* Sign-ins and refreshes start with a copy of what they read.
LEMMA SignInsStart ==
  ASSUME AccountInv, NEW t \in Tasks, LoginRead(t) \/ OAuthRead(t) \/ RefreshRead(t)
  PROVE  AccountInv'
<1>0. AccountTypeOK /\ cutoffs \in 0 .. cutoffs /\ Account \in AccountCopies
      /\ Account.consent = user.consent /\ None \in Secrets \union {None}
  BY CopyTyped DEF AccountInv, AccountTypeOK
<1>1. ASSUME LoginRead(t) PROVE AccountInv'
  <2>1. CASE Start(t, "guess", "wrong", profile.attempts, None, 0)
    <3>1. profile.attempts \in 0 .. fails
      BY <1>0 DEF AccountTypeOK, ProfileRows
    <3> DEFINE row == [pc |-> "wrong", seen |-> profile.attempts, arg |-> None, session |-> 0, cred |-> 0]
    <3>2. TaskTyped(row) /\ TaskSound(row)
      BY <3>1 DEF TaskTyped, TaskSound, Labels, SigningIn, Issuing
    <3> QED
      BY <1>1, <2>1, <3>2, Carried DEF Start, LoginRead
  <2>2. ASSUME NEW accepts \in BOOLEAN, NEW d \in Devices, NEW code \in Secrets \union {None},
               NEW pc \in {"totp", "checked"},
               Start(t, "login", pc, Account, [accepts |-> accepts, code |-> code, device |-> d], cutoffs)
        PROVE  AccountInv'
    <3> DEFINE arg == [accepts |-> accepts, code |-> code, device |-> d]
               row == [pc |-> pc, seen |-> Account, arg |-> arg, session |-> 0, cred |-> cutoffs]
    <3>1. arg \in SignInArgs
      BY DEF SignInArgs
    <3>2. TaskTyped(row)
      BY <1>0, <3>1 DEF TaskTyped, Labels, SigningIn, Issuing
    <3>3. TaskSound(row)
      BY <1>0 DEF TaskSound, SigningIn, Issuing
    <3> QED
      BY <1>1, <2>2, <3>2, <3>3, Carried DEF Start, LoginRead
  <2> QED
    BY <1>1, <2>1, <2>2 DEF LoginRead
<1>2. ASSUME OAuthRead(t) PROVE AccountInv'
  <2>1. PICK d \in Devices : Start(t, "oauth", "issue", Account, [accepts |-> FALSE, code |-> None, device |-> d], cutoffs)
    BY <1>2 DEF OAuthRead
  <2> DEFINE arg == [accepts |-> FALSE, code |-> None, device |-> d]
             row == [pc |-> "issue", seen |-> Account, arg |-> arg, session |-> 0, cred |-> cutoffs]
  <2>2. arg \in SignInArgs
    BY DEF SignInArgs
  <2>3. TaskTyped(row)
    BY <1>0, <2>2 DEF TaskTyped, Labels, SigningIn, Issuing
  <2>4. TaskSound(row)
    BY <1>0 DEF TaskSound, SigningIn, Issuing
  <2> QED
    BY <1>2, <2>1, <2>3, <2>4, Carried DEF Start, OAuthRead
<1>3. ASSUME RefreshRead(t) PROVE AccountInv'
  <2>1. PICK s \in DOMAIN sessions, d \in Devices :
             /\ sessions[s].token = "live"
             /\ Carry(t, "rotate", Account, [accepts |-> FALSE, code |-> None, device |-> d], s, sessions[s].cred)
             /\ UNCHANGED <<user, profile, memberships, sessions, mail, links, forced, now, ghosts>>
    BY <1>3 DEF RefreshRead
  <2>2. sessions[s] \in SessionRows /\ SessionSound(sessions[s])
    BY <1>0 DEF AccountTypeOK, AccountInv, SessionsSound
  <2>3. sessions[s].cred \in 0 .. cutoffs /\ user.consent /\ (raced \/ sessions[s].cred = cutoffs)
    BY <2>1, <2>2 DEF SessionRows, SessionSound
  <2> DEFINE arg == [accepts |-> FALSE, code |-> None, device |-> d]
             row == [pc |-> "rotate", seen |-> Account, arg |-> arg, session |-> s, cred |-> sessions[s].cred]
  <2>4. arg \in SignInArgs
    BY DEF SignInArgs
  <2>5. TaskTyped(row)
    BY <1>0, <2>3, <2>4 DEF TaskTyped, Labels, SigningIn, Issuing
  <2>6. TaskSound(row)
    BY <1>0, <2>3 DEF TaskSound, SigningIn, Issuing
  <2> QED
    BY <2>1, <2>5, <2>6, Carried
<1> QED
  BY <1>1, <1>2, <1>3

\* So do the other requests.
LEMMA OthersStart ==
  ASSUME AccountInv, NEW t \in Tasks,
         ChangeRead(t) \/ ForgotRead(t) \/ ResetRead(t) \/ ResendRead(t) \/ TotpRead(t)
           \/ ToggleRead(t) \/ TrustRead(t)
  PROVE  AccountInv'
<1>0. AccountTypeOK
  BY DEF AccountInv
<1> USE DEF TaskTyped, TaskSound, Labels, SigningIn, Issuing
<1>1. ASSUME ChangeRead(t) PROVE AccountInv'
  <2>1. PICK p \in Passwords : Reusable(Password, p) /\ Start(t, "change", "change", Password, p, 0)
    BY <1>1 DEF ChangeRead
  <2>2. Password \in PasswordCopies
    BY <1>0, <1>1, CopyTyped DEF ChangeRead
  <2> DEFINE row == [pc |-> "change", seen |-> Password, arg |-> p, session |-> 0, cred |-> 0]
  <2>3. TaskTyped(row) /\ TaskSound(row)
    BY <2>1, <2>2
  <2> QED
    BY <1>1, <2>1, <2>3, Carried DEF Start, ChangeRead
<1>2. ASSUME ForgotRead(t) PROVE AccountInv'
  <2> DEFINE row == [pc |-> "forgot", seen |-> None, arg |-> now, session |-> 0, cred |-> 0]
  <2>1. TaskTyped(row) /\ TaskSound(row)
    BY <1>0 DEF AccountTypeOK
  <2> QED
    BY <1>2, <2>1, Carried DEF Start, ForgotRead
<1>3. ASSUME ResetRead(t) PROVE AccountInv'
  <2>1. PICK p \in Passwords : Start(t, "reset", "reset", None, p, 0)
    BY <1>3 DEF ResetRead
  <2> DEFINE row == [pc |-> "reset", seen |-> None, arg |-> p, session |-> 0, cred |-> 0]
  <2>2. TaskTyped(row) /\ TaskSound(row)
    OBVIOUS
  <2> QED
    BY <1>3, <2>1, <2>2, Carried DEF Start, ResetRead
<1>4. ASSUME ResendRead(t) PROVE AccountInv'
  <2> DEFINE row == [pc |-> "resend", seen |-> None, arg |-> None, session |-> 0, cred |-> 0]
  <2>1. TaskTyped(row) /\ TaskSound(row)
    OBVIOUS
  <2> QED
    BY <1>4, <2>1, Carried DEF Start, ResendRead
<1>5. ASSUME TotpRead(t) PROVE AccountInv'
  <2>1. PICK op \in {"confirm", "disable"} : Start(t, "totp", op, None, None, 0)
    BY <1>5 DEF TotpRead
  <2> DEFINE row == [pc |-> op, seen |-> None, arg |-> None, session |-> 0, cred |-> 0]
  <2>2. TaskTyped(row) /\ TaskSound(row)
    OBVIOUS
  <2> QED
    BY <1>5, <2>1, <2>2, Carried DEF Start, TotpRead
<1>6. ASSUME ToggleRead(t) PROVE AccountInv'
  <2>1. CASE Start(t, "toggleStatus", "toggleStatus", user.status, None, 0)
    <3> DEFINE row == [pc |-> "toggleStatus", seen |-> user.status, arg |-> None, session |-> 0, cred |-> 0]
    <3>1. TaskTyped(row) /\ TaskSound(row)
      OBVIOUS
    <3> QED
      BY <1>6, <2>1, <3>1, Carried DEF Start, ToggleRead
  <2>2. CASE Start(t, "toggle2fa", "toggle2fa", profile.enabled, None, 0)
    <3> DEFINE row == [pc |-> "toggle2fa", seen |-> profile.enabled, arg |-> None, session |-> 0, cred |-> 0]
    <3>1. profile.enabled \in BOOLEAN
      BY <1>0 DEF AccountTypeOK, ProfileRows
    <3>2. TaskTyped(row) /\ TaskSound(row)
      BY <3>1
    <3> QED
      BY <1>6, <2>2, <3>2, Carried DEF Start, ToggleRead
  <2> QED
    BY <1>6, <2>1, <2>2 DEF ToggleRead
<1>7. ASSUME TrustRead(t) PROVE AccountInv'
  <2>1. PICK s \in DOMAIN sessions : Start(t, "trust", "trustWrite", profile.trusted, sessions[s].device, 0)
    BY <1>7 DEF TrustRead
  <2>2. profile.trusted \in Seq(Devices) /\ sessions[s].device \in Devices
    <3>1. sessions[s] \in SessionRows
      BY <1>0 DEF AccountTypeOK
    <3>2. sessions[s].device \in Devices
      BY <3>1 DEF SessionRows
    <3>3. profile.trusted \in Seq(Devices)
      BY <1>0 DEF AccountTypeOK, ProfileRows
    <3> QED
      BY <3>2, <3>3
  <2> DEFINE row == [pc |-> "trustWrite", seen |-> profile.trusted, arg |-> sessions[s].device,
                     session |-> 0, cred |-> 0]
  <2>3. TaskTyped(row) /\ TaskSound(row)
    BY <2>2
  <2> QED
    BY <1>7, <2>1, <2>3, Carried DEF Start, TrustRead
<1> QED
  BY <1>1, <1>2, <1>3, <1>4, <1>5, <1>6, <1>7

\* Requests that end, or go on, without writing to the rows above.
LEMMA TasksEnd ==
  ASSUME AccountInv, NEW t \in Tasks, LoginTotp(t) \/ ResendWrite(t) \/ Abort(t)
  PROVE  AccountInv'
<1>0. AccountTypeOK /\ TasksSound
  BY DEF AccountInv
<1>1. /\ UNCHANGED <<user, profile, memberships, sessions, links, now, ghosts>>
      /\ End(t) \/ (At(t, "totp") /\ Goto(t, "checked"))
  BY DEF LoginTotp, ResendWrite, Abort
<1>2. Onward
  BY <1>0, <1>1 DEF Onward, ghosts, AccountTypeOK
<1>3. CASE End(t)
  BY <1>0, <1>1, <1>2, <1>3, Ended, OnlyTask DEF ghosts
<1>4. CASE At(t, "totp") /\ Goto(t, "checked")
  <2> DEFINE row == [task[t] EXCEPT !.pc = "checked"]
  <2>1. task' = [task EXCEPT ![t] = row]
    BY <1>4 DEF Goto
  <2>2. TaskTyped(task[t]) /\ TaskSound(task[t]) /\ task[t].pc = "totp"
    BY <1>0, <1>4 DEF TasksSound, At
  <2>3. TaskTyped(row) /\ TaskSound(row)
    BY <2>2 DEF TaskTyped, TaskSound, Labels, SigningIn, Issuing
  <2>4. row = [pc |-> "checked", seen |-> task[t].seen, arg |-> task[t].arg,
               session |-> task[t].session, cred |-> task[t].cred]
    BY <2>2 DEF TaskTyped
  <2> HIDE DEF row
  <2> QED
    BY <1>1, <2>1, <2>3, <2>4, Carried DEF Carry
<1> QED
  BY <1>1, <1>3, <1>4
-----------------------------------------------------------------------------
\* Changes of the profile.

\* The profile is written: history, count and lock say what is kept.
LEMMA ProfileStep ==
  ASSUME AccountInv, TasksSound', UNCHANGED <<memberships, sessions, now, cutoffs, raced, setBy>>,
         user' \in [status : {"active", "inactive"}, password : Passwords \union {None},
                    consent : BOOLEAN, erased : BOOLEAN],
         user'.password = user.password, user'.consent = user.consent,
         profile' \in ProfileRows, profile'.history = profile.history,
         fails' \in Nat, profile'.attempts <= fails',
         profile'.locked => fails' >= Threshold, links' \subseteq 0 .. now
  PROVE  AccountInv'
<1>1. AccountTypeOK'
  BY DEF AccountInv, AccountTypeOK, ProfileRows, SessionRows, Times
<1>2. SessionsSound'
  BY DEF AccountInv, SessionsSound, SessionSound
<1>3. LockEarned' /\ HistoryKeepsApart'
  BY DEF AccountInv, LockEarned, HistoryKeepsApart
<1> QED
  BY <1>1, <1>2, <1>3 DEF AccountInv

\* The profile written by a request that ends with it.
LEMMA ProfileWritten ==
  ASSUME AccountInv, NEW t \in Tasks, End(t), UNCHANGED <<memberships, sessions, now, cutoffs, raced, setBy>>,
         user' \in [status : {"active", "inactive"}, password : Passwords \union {None},
                    consent : BOOLEAN, erased : BOOLEAN],
         user'.password = user.password, user'.consent = user.consent,
         profile' \in ProfileRows, profile'.history = profile.history,
         fails' \in Nat, fails <= fails', profile'.attempts <= fails',
         profile'.locked => fails' >= Threshold, links' \subseteq 0 .. now
  PROVE  AccountInv'
<1>1. AccountTypeOK /\ TasksSound
  BY DEF AccountInv
<1>2. Onward
  BY <1>1 DEF Onward, AccountTypeOK
<1>3. TasksSound'
  BY <1>1, <1>2, Ended
<1> QED
  BY <1>3, ProfileStep

\* What may be written to a date of the profile.
LEMMA NowIsTime == AccountTypeOK => now \in Times /\ None \in Times
  BY DEF AccountTypeOK, Times

\* markFailedLogin books the failure it counts.
LEMMA FailsBooked ==
  ASSUME AccountInv, NEW t \in Tasks, LoginFails(t)
  PROVE  AccountInv'
<1> DEFINE attempts == NextAttempts(Seen(t))
           half == [profile EXCEPT !.attempts = attempts]
           row == [half EXCEPT !.locked = attempts >= Threshold]
<1>1. AccountTypeOK /\ TaskTyped(task[t]) /\ task[t].pc = "wrong"
  BY DEF AccountInv, TasksSound, LoginFails, At
<1>2. fails \in Nat /\ attempts \in 0 .. fails + 1 /\ fails' = fails + 1
  BY <1>1 DEF AccountTypeOK, TaskTyped, NextAttempts, Seen, LoginFails
<1> HIDE DEF attempts
<1>3. profile \in ProfileRows
  BY <1>1 DEF AccountTypeOK
<1>4. half \in ProfileRows /\ half.attempts = attempts /\ half.history = profile.history
  BY <1>2, <1>3 DEF ProfileRows
<1>5. profile' = [profile EXCEPT !.attempts = attempts, !.locked = attempts >= Threshold]
  BY DEF LoginFails, attempts
<1>6. profile' = row
  BY <1>5
<1> HIDE DEF half
<1>7. (attempts >= Threshold) \in BOOLEAN
  OBVIOUS
<1>8. row \in ProfileRows /\ row.attempts = attempts /\ row.history = profile.history
      /\ (row.locked <=> attempts >= Threshold)
  BY <1>4, <1>7 DEF ProfileRows
<1> HIDE DEF row
<1>9. fails' \in Nat /\ fails <= fails' /\ profile'.attempts <= fails'
      /\ (profile'.locked => fails' >= Threshold)
  BY <1>2, <1>6, <1>8, AccountsAssumption
<1>10. UNCHANGED <<user, memberships, sessions, links, now, cutoffs, raced, setBy>> /\ End(t)
  BY DEF LoginFails
<1> QED
  BY <1>1, <1>6, <1>8, <1>9, <1>10, ProfileWritten DEF AccountTypeOK

\* A profile whose count and lock are not touched.
LEMMA CountsKept ==
  ASSUME AccountInv, NEW t \in Tasks, End(t),
         UNCHANGED <<memberships, sessions, now, fails, cutoffs, raced, setBy>>,
         user' \in [status : {"active", "inactive"}, password : Passwords \union {None},
                    consent : BOOLEAN, erased : BOOLEAN],
         user'.password = user.password, user'.consent = user.consent,
         profile' \in ProfileRows, profile'.history = profile.history,
         profile'.attempts = profile.attempts, profile'.locked = profile.locked,
         links' \subseteq 0 .. now
  PROVE  AccountInv'
<1>1. fails' \in Nat /\ fails <= fails' /\ profile'.attempts <= fails'
      /\ (profile'.locked => fails' >= Threshold)
  BY DEF AccountInv, AccountTypeOK, LockEarned
<1> QED
  BY <1>1, ProfileWritten

\* The writes of requests that read the profile before.
LEMMA ProfileWrites ==
  ASSUME AccountInv, NEW t \in Tasks, ForgotWrite(t) \/ TotpWrite(t) \/ ToggleWrite(t) \/ TrustWrite(t)
  PROVE  AccountInv'
<1>0. AccountTypeOK /\ TaskTyped(task[t]) /\ profile \in ProfileRows
  BY DEF AccountInv, AccountTypeOK, TasksSound
<1>1. ASSUME ForgotWrite(t) PROVE AccountInv'
  <2> DEFINE half == [profile EXCEPT !.resetRequired = TRUE]
             row == [half EXCEPT !.requestedAt = task[t].arg]
  <2>1. task[t].arg \in 0 .. now
    BY <1>0, <1>1 DEF TaskTyped, ForgotWrite, At
  <2>2. half \in ProfileRows /\ half.history = profile.history
        /\ half.attempts = profile.attempts /\ half.locked = profile.locked
    BY <1>0 DEF ProfileRows
  <2>3. profile' = row
    BY <1>1 DEF ForgotWrite
  <2> HIDE DEF half
  <2>4. row \in ProfileRows /\ row.history = profile.history
        /\ row.attempts = profile.attempts /\ row.locked = profile.locked
    BY <2>1, <2>2 DEF ProfileRows, Times
  <2> HIDE DEF row
  <2>5. links' \subseteq 0 .. now
    BY <1>0, <1>1, <2>1 DEF ForgotWrite, AccountTypeOK
  <2> QED
    BY <1>0, <1>1, <2>3, <2>4, <2>5, CountsKept DEF ForgotWrite, AccountTypeOK, ghosts
<1>2. ASSUME TotpWrite(t) PROVE AccountInv'
  <2> DEFINE half(b) == [profile EXCEPT !.enabled = b]
             row == [half(FALSE) EXCEPT !.secret = None]
  <2>1. \A b \in BOOLEAN : /\ half(b) \in ProfileRows /\ half(b).history = profile.history
                           /\ half(b).attempts = profile.attempts /\ half(b).locked = profile.locked
    BY <1>0 DEF ProfileRows
  <2>2. row \in ProfileRows /\ row.history = profile.history
        /\ row.attempts = profile.attempts /\ row.locked = profile.locked
    <3> DEFINE one == half(FALSE)
    <3>1. /\ one \in ProfileRows /\ one.history = profile.history
          /\ one.attempts = profile.attempts /\ one.locked = profile.locked
      BY <2>1
    <3> HIDE DEF one
    <3>2. LET r == [one EXCEPT !.secret = None]
          IN  /\ r \in ProfileRows /\ r.history = profile.history
              /\ r.attempts = profile.attempts /\ r.locked = profile.locked
      BY <3>1 DEF ProfileRows
    <3> QED
      BY <3>2 DEF one
  <2>3. profile' = half(TRUE) \/ profile' = row
    BY <1>2 DEF TotpWrite
  <2>4. /\ profile' \in ProfileRows /\ profile'.history = profile.history
        /\ profile'.attempts = profile.attempts /\ profile'.locked = profile.locked
    <3> HIDE DEF half, row
    <3> QED
      BY <2>1, <2>2, <2>3
  <2> QED
    BY <1>0, <1>2, <2>4, CountsKept DEF TotpWrite, AccountTypeOK, ghosts
<1>3. ASSUME ToggleWrite(t) PROVE AccountInv'
  <2>1. CASE At(t, "toggleStatus")
    <3>1. user' = [user EXCEPT !.status = IF Seen(t) = "active" THEN "inactive" ELSE "active"]
          /\ UNCHANGED profile
      BY <1>3, <2>1 DEF ToggleWrite, At
    <3> QED
      BY <1>0, <1>3, <3>1, CountsKept DEF ToggleWrite, AccountTypeOK, ghosts
  <2>2. CASE At(t, "toggle2fa")
    <3>1. profile' = [profile EXCEPT !.enabled = ~Seen(t)] /\ UNCHANGED user
      BY <1>3, <2>2 DEF ToggleWrite, At
    <3>2. /\ profile' \in ProfileRows /\ profile'.history = profile.history
          /\ profile'.attempts = profile.attempts /\ profile'.locked = profile.locked
      BY <1>0, <3>1 DEF ProfileRows
    <3> QED
      BY <1>0, <1>3, <3>1, <3>2, CountsKept DEF ToggleWrite, AccountTypeOK, ghosts
  <2> QED
    BY <1>3, <2>1, <2>2 DEF ToggleWrite
<1>4. ASSUME TrustWrite(t) PROVE AccountInv'
  <2> DEFINE trusted == Append(Seen(t), task[t].arg)
  <2>1. Seen(t) \in Seq(Devices) /\ task[t].arg \in Devices
    BY <1>0, <1>4 DEF TaskTyped, TrustWrite, At, Seen
  <2>2. trusted \in Seq(Devices)
    BY <2>1, AppendProperties
  <2>3. profile' = profile \/ profile' = [profile EXCEPT !.trusted = trusted]
    BY <1>4 DEF TrustWrite
  <2> HIDE DEF trusted
  <2>4. /\ profile' \in ProfileRows /\ profile'.history = profile.history
        /\ profile'.attempts = profile.attempts /\ profile'.locked = profile.locked
    BY <1>0, <2>2, <2>3 DEF ProfileRows
  <2> QED
    BY <1>0, <1>4, <2>4, CountsKept DEF TrustWrite, AccountTypeOK, ghosts
<1> QED
  BY <1>1, <1>2, <1>3, <1>4
\* A profile changed by a handler that keeps no task.
LEMMA ProfileChanged ==
  ASSUME AccountInv, UNCHANGED <<user, memberships, sessions, links, now, task, ghosts>>,
         profile' \in ProfileRows, profile'.history = profile.history,
         profile'.attempts = profile.attempts, profile'.locked => profile.locked
  PROVE  AccountInv'
<1>1. AccountTypeOK /\ TasksSound
  BY DEF AccountInv
<1>2. Onward
  BY <1>1 DEF Onward, AccountTypeOK, ghosts
<1>3. TasksSound'
  BY <1>1, <1>2, NoTask DEF ghosts
<1>4. fails' \in Nat /\ profile'.attempts <= fails' /\ (profile'.locked => fails' >= Threshold)
  BY <1>1 DEF AccountInv, AccountTypeOK, LockEarned, ghosts
<1> QED
  BY <1>1, <1>3, <1>4, ProfileStep DEF AccountTypeOK, ghosts

\* The handlers that write the profile at once.
LEMMA ProfileHandlers ==
  ASSUME AccountInv, SetupTotp \/ ForcePasswordReset \/ SetTwoFactorRequirement
  PROVE  AccountInv'
<1>0. profile \in ProfileRows
  BY DEF AccountInv, AccountTypeOK
<1>1. ASSUME SetupTotp PROVE AccountInv'
  <2>1. PICK x \in Secrets : profile' = [profile EXCEPT !.secret = x, !.enabled = FALSE]
    BY <1>1 DEF SetupTotp
  <2> DEFINE half == [profile EXCEPT !.secret = x]
             row == [half EXCEPT !.enabled = FALSE]
  <2>2. half \in ProfileRows /\ half.history = profile.history
        /\ half.attempts = profile.attempts /\ half.locked = profile.locked
    BY <1>0 DEF ProfileRows
  <2>3. profile' = row
    BY <2>1
  <2> HIDE DEF half
  <2>4. row \in ProfileRows /\ row.history = profile.history
        /\ row.attempts = profile.attempts /\ row.locked = profile.locked
    BY <2>2 DEF ProfileRows
  <2> HIDE DEF row
  <2> QED
    BY <1>1, <2>3, <2>4, ProfileChanged DEF SetupTotp
<1>2. ASSUME ForcePasswordReset PROVE AccountInv'
  <2>1. /\ profile' \in ProfileRows /\ profile'.history = profile.history
        /\ profile'.attempts = profile.attempts /\ profile'.locked = profile.locked
    BY <1>0, <1>2 DEF ForcePasswordReset, ProfileRows
  <2> QED
    BY <1>2, <2>1, ProfileChanged DEF ForcePasswordReset
<1>3. ASSUME SetTwoFactorRequirement PROVE AccountInv'
  <2>1. PICK b \in BOOLEAN : profile' = [profile EXCEPT !.required = b]
    BY <1>3 DEF SetTwoFactorRequirement
  <2>2. /\ profile' \in ProfileRows /\ profile'.history = profile.history
        /\ profile'.attempts = profile.attempts /\ profile'.locked = profile.locked
    BY <1>0, <2>1 DEF ProfileRows
  <2> QED
    BY <1>3, <2>2, ProfileChanged DEF SetTwoFactorRequirement
<1> QED
  BY <1>1, <1>2, <1>3

\* The last elements of a list are elements of it.
LEMMA KeepLastTyped ==
  ASSUME NEW S, NEW s \in Seq(S), NEW n \in Nat \ {0}
  PROVE  KeepLast(s, n) \in Seq(S)
<1> DEFINE m == IF Len(s) > n THEN Len(s) - n + 1 ELSE 1
<1>1. m \in Int /\ m >= 1 /\ Len(s) \in Int
  OBVIOUS
<1> HIDE DEF m
<1>2. \A i \in m .. Len(s) : s[i] \in S
  BY <1>1
<1>3. SubSeq(s, m, Len(s)) \in Seq(S)
  BY <1>1, <1>2, SubSeqProperties
<1> QED
  BY <1>3 DEF KeepLast, m

\* A sign-in that is being answered goes to its next statement.
LEMMA IssuesOn ==
  ASSUME AccountInv, NEW t \in Tasks, task[t].pc \in Issuing, NEW pc \in Issuing, Goto(t, pc),
         UNCHANGED <<user, sessions, now, ghosts>>
  PROVE  TasksSound'
<1>0. AccountTypeOK /\ TasksSound /\ TaskTyped(task[t]) /\ TaskSound(task[t])
  BY DEF AccountInv, TasksSound
<1> DEFINE row == [task[t] EXCEPT !.pc = pc]
<1>1. task' = [task EXCEPT ![t] = row]
  BY DEF Goto
<1>2. TaskTyped(row) /\ TaskSound(row)
  BY <1>0 DEF TaskTyped, TaskSound, Labels, SigningIn, Issuing
<1>3. task'[t] = row
  BY <1>0, <1>1, Moved
<1> HIDE DEF row
<1>4. TaskTyped(task[t])'
  BY <1>2, <1>3 DEF TaskTyped, AccountCopies, Times, SignInArgs, PasswordCopies, ghosts
<1>5. TaskSound(task[t])'
  BY <1>2, <1>3 DEF TaskSound, ghosts, Reusable
<1>6. Onward
  BY <1>0 DEF Onward, ghosts, AccountTypeOK
<1> QED
  BY <1>0, <1>1, <1>4, <1>5, <1>6, OneTask DEF ghosts

\* The two writes to the profile of issueAuthResponse.
LEMMA IssueKeepsProfile ==
  ASSUME AccountInv, NEW t \in Tasks, IssueProfile(t) \/ IssueTrust(t)
  PROVE  AccountInv'
<1>0. AccountTypeOK /\ TaskTyped(task[t]) /\ profile \in ProfileRows
  BY DEF AccountInv, AccountTypeOK, TasksSound
<1>1. task[t].pc \in {"profile", "trust"}
  BY DEF IssueProfile, IssueTrust, At
<1>2. Seen(t) \in AccountCopies /\ task[t].arg \in SignInArgs
  BY <1>0, <1>1 DEF TaskTyped, SigningIn, Seen
<1>3. TasksSound'
  BY <1>1, IssuesOn DEF IssueProfile, IssueTrust, Issuing
<1>4. ASSUME IssueProfile(t) PROVE AccountInv'
  <2> DEFINE stamp == IF Seen(t).stamp = None THEN now ELSE Seen(t).stamp
             one == [profile EXCEPT !.attempts = 0]
             two == [one EXCEPT !.locked = FALSE]
             row == [two EXCEPT !.stamp = stamp]
  <2>1. stamp \in Times
    <3>1. Seen(t).stamp \in Times
      BY <1>2 DEF AccountCopies
    <3> QED
      BY <1>0, <3>1, NowIsTime
  <2>2. profile' = row
    BY <1>4 DEF IssueProfile
  <2> HIDE DEF stamp
  <2>3. one \in ProfileRows /\ one.history = profile.history /\ one.attempts = 0
    BY <1>0 DEF ProfileRows
  <2> HIDE DEF one
  <2>4. two \in ProfileRows /\ two.history = profile.history /\ two.attempts = 0 /\ two.locked = FALSE
    BY <2>3 DEF ProfileRows
  <2> HIDE DEF two
  <2>5. row \in ProfileRows /\ row.history = profile.history /\ row.attempts = 0 /\ row.locked = FALSE
    BY <2>1, <2>4 DEF ProfileRows
  <2> HIDE DEF row
  <2>6. fails' \in Nat /\ profile'.attempts <= fails' /\ ~profile'.locked
    BY <1>0, <1>4, <2>2, <2>5 DEF IssueProfile, AccountTypeOK, ghosts
  <2> QED
    BY <1>0, <1>3, <1>4, <2>2, <2>5, <2>6, ProfileStep DEF IssueProfile, AccountTypeOK, ghosts
<1>5. ASSUME IssueTrust(t) PROVE AccountInv'
  <2> DEFINE trusted == KeepLast(Append(Seen(t).trusted, task[t].arg.device), TrustLimit)
  <2>1. Seen(t).trusted \in Seq(Devices) /\ task[t].arg.device \in Devices
    BY <1>2 DEF AccountCopies, SignInArgs
  <2>2. trusted \in Seq(Devices)
    BY <2>1, AppendProperties, KeepLastTyped, AccountsAssumption
  <2>3. profile' = profile \/ profile' = [profile EXCEPT !.trusted = trusted]
    BY <1>5 DEF IssueTrust
  <2> HIDE DEF trusted
  <2>4. /\ profile' \in ProfileRows /\ profile'.history = profile.history
        /\ profile'.attempts = profile.attempts /\ profile'.locked = profile.locked
    BY <1>0, <2>2, <2>3 DEF ProfileRows
  <2>5. fails' \in Nat /\ profile'.attempts <= fails' /\ (profile'.locked => fails' >= Threshold)
    BY <1>0, <1>5, <2>4 DEF IssueTrust, AccountInv, AccountTypeOK, LockEarned, ghosts
  <2> QED
    BY <1>0, <1>3, <1>5, <2>4, <2>5, ProfileStep DEF IssueTrust, AccountTypeOK, ghosts
<1> QED
  BY <1>4, <1>5

-----------------------------------------------------------------------------
\* Sessions.

\* The sessions are written, nothing else.
LEMMA SessionsStep ==
  ASSUME AccountInv, UNCHANGED <<user, profile, memberships, links, now, ghosts>>,
         TasksSound', SessionsSound', sessions' \in Seq(SessionRows)
  PROVE  AccountInv'
<1>1. AccountTypeOK'
  BY DEF AccountInv, AccountTypeOK, ghosts, ProfileRows, SessionRows, Times
<1>2. LockEarned' /\ HistoryKeepsApart'
  BY DEF AccountInv, LockEarned, HistoryKeepsApart, ghosts
<1> QED
  BY <1>1, <1>2 DEF AccountInv

\* Sessions are rewritten in place and keep the sign-in they go back to.
LEMMA SessionsRewritten ==
  ASSUME AccountInv, UNCHANGED <<user, now, ghosts>>,
         sessions' = [s \in DOMAIN sessions |-> sessions'[s]],
         \A s \in DOMAIN sessions : /\ sessions'[s] \in SessionRows
                                    /\ sessions'[s].cred = sessions[s].cred
                                    /\ SessionSound(sessions'[s])
  PROVE  sessions' \in Seq(SessionRows) /\ SessionsSound' /\ Onward
<1>0. AccountTypeOK /\ sessions \in Seq(SessionRows)
  BY DEF AccountInv, AccountTypeOK
<1>1. DOMAIN sessions = 1 .. Len(sessions) /\ Len(sessions) \in Nat
  BY <1>0
<1>2. sessions' \in Seq(SessionRows)
  BY <1>1, SeqDef
<1>3. DOMAIN sessions' = DOMAIN sessions
  OBVIOUS
<1>4. SessionsSound'
  BY <1>3 DEF SessionsSound, SessionSound, ghosts
<1>5. Onward
  BY <1>0, <1>3 DEF Onward, ghosts, AccountTypeOK
<1> QED
  BY <1>2, <1>4, <1>5

\* A session stays sound as its token is revoked or as it is closed.
LEMMA SessionsClosed ==
  ASSUME AccountInv, NEW s \in DOMAIN sessions
  PROVE  /\ sessions[s] \in SessionRows /\ SessionSound(sessions[s])
         /\ \A token \in {"none", "live", "revoked"} :
              LET row == [sessions[s] EXCEPT !.token = token]
              IN  /\ row \in SessionRows /\ row.cred = sessions[s].cred
                  /\ token = "revoked" /\ sessions[s].token # "none" => SessionSound(row)
         /\ \A b \in BOOLEAN :
              LET row == [sessions[s] EXCEPT !.open = b]
              IN  /\ row \in SessionRows /\ row.cred = sessions[s].cred
                  /\ (b => sessions[s].open) => SessionSound(row)
<1>1. sessions[s] \in SessionRows
  BY DEF AccountInv, AccountTypeOK
<1>2. SessionSound(sessions[s])
  BY DEF AccountInv, SessionsSound
<1> QED
  BY <1>1, <1>2 DEF SessionRows, SessionSound
\* One session is rewritten.
LEMMA OneSession ==
  ASSUME AccountInv, UNCHANGED <<user, now, ghosts>>, NEW s \in DOMAIN sessions, NEW row \in SessionRows,
         row.cred = sessions[s].cred, SessionSound(row), sessions' = [sessions EXCEPT ![s] = row]
  PROVE  sessions' \in Seq(SessionRows) /\ SessionsSound' /\ Onward
<1>1. sessions' = [i \in DOMAIN sessions |-> sessions'[i]]
  OBVIOUS
<1>2. ASSUME NEW i \in DOMAIN sessions
      PROVE  /\ sessions'[i] \in SessionRows
             /\ sessions'[i].cred = sessions[i].cred
             /\ SessionSound(sessions'[i])
  <2>1. CASE i = s
    BY <2>1
  <2>2. CASE i # s
    BY <2>2, SessionsClosed
  <2> QED
    BY <2>1, <2>2
<1> QED
  BY <1>1, <1>2, SessionsRewritten

\* A token is only revoked or issued with the consent there.
LEMMA TokensMove ==
  ASSUME AccountInv, NEW t \in Tasks, RefreshRotate(t) \/ IssueToken(t)
  PROVE  AccountInv'
<1> DEFINE s == task[t].session
           c == task[t]
<1>0. AccountTypeOK /\ TasksSound /\ TaskTyped(c) /\ TaskSound(c)
  BY DEF AccountInv, TasksSound
<1>1. c.pc \in {"rotate", "token"}
  BY DEF RefreshRotate, IssueToken, At
<1>2. s \in DOMAIN sessions /\ user.consent /\ (raced \/ c.cred = cutoffs)
  BY <1>0, <1>1 DEF TaskTyped, TaskSound, Issuing, SigningIn
<1>3. UNCHANGED <<user, profile, memberships, links, now, ghosts>>
  BY DEF RefreshRotate, IssueToken
<1>4. ASSUME RefreshRotate(t) PROVE AccountInv'
  <2> DEFINE row == [sessions[s] EXCEPT !.token = "revoked"]
  <2>1. row \in SessionRows /\ row.cred = sessions[s].cred /\ SessionSound(row)
    <3>1. /\ sessions[s] \in SessionRows /\ SessionSound(sessions[s])
          /\ row \in SessionRows /\ row.cred = sessions[s].cred
      BY <1>2, SessionsClosed
    <3>2. row.token = "revoked" /\ row.open = sessions[s].open
      BY <3>1 DEF SessionRows
    <3> QED
      BY <1>2, <3>1, <3>2 DEF SessionSound
  <2>2. sessions' = [sessions EXCEPT ![s] = row]
    BY <1>4 DEF RefreshRotate
  <2> HIDE DEF row
  <2>3. sessions' \in Seq(SessionRows) /\ SessionsSound' /\ Onward
    BY <1>2, <1>3, <2>1, <2>2, OneSession
  <2> DEFINE next == [pc |-> "issue", seen |-> c.seen, arg |-> c.arg, session |-> 0, cred |-> c.cred]
  <2>4. task' = [task EXCEPT ![t] = next]
    BY <1>4 DEF RefreshRotate, Carry, Seen
  <2>5. task'[t] = next
    BY <1>0, <2>4, Moved
  <2>6. c.pc \in SigningIn
    BY <1>4 DEF RefreshRotate, At, SigningIn
  <2>7. TaskTyped(next)
    BY <1>0, <2>6 DEF TaskTyped, Labels, Issuing, SigningIn
  <2>8. TaskSound(next)
    BY <1>0, <2>6 DEF TaskSound, Issuing, SigningIn
  <2>9. next.pc = "issue"
    OBVIOUS
  <2> HIDE DEF next
  <2>10. TaskTyped(task[t])'
    BY <1>3, <2>5, <2>7, <2>9 DEF TaskTyped, AccountCopies, Times, SignInArgs, PasswordCopies, ghosts, Issuing
  <2>11. TaskSound(task[t])'
    BY <1>3, <2>5, <2>8, <2>9 DEF TaskSound, ghosts, Reusable, Issuing
  <2>12. TasksSound'
    BY <1>0, <1>3, <2>3, <2>4, <2>10, <2>11, OneTask DEF ghosts
  <2> QED
    BY <1>3, <2>3, <2>12, SessionsStep
<1>5. ASSUME IssueToken(t) PROVE AccountInv'
  <2> DEFINE row == [sessions[s] EXCEPT !.token = "live"]
  <2>1. sessions[s].cred = c.cred
    BY <1>0, <1>5 DEF TaskSound, IssueToken, At, Issuing
  <2>2. row \in SessionRows /\ row.cred = sessions[s].cred
    BY <1>2, SessionsClosed
  <2>3. SessionSound(row)
    BY <1>2, <2>1, <2>2 DEF SessionSound
  <2>4. sessions' = [sessions EXCEPT ![s] = row] /\ End(t)
    BY <1>5 DEF IssueToken
  <2> HIDE DEF row
  <2>5. sessions' \in Seq(SessionRows) /\ SessionsSound' /\ Onward
    BY <1>2, <1>3, <2>2, <2>3, <2>4, OneSession
  <2>6. TasksSound'
    BY <1>0, <1>3, <2>4, <2>5, Ended DEF ghosts
  <2> QED
    BY <1>3, <2>5, <2>6, SessionsStep
<1> QED
  BY <1>4, <1>5

\* logout and the revocations close sessions.
LEMMA SessionHandlers ==
  ASSUME AccountInv, RevokeSessions \/ \E s \in DOMAIN sessions : Logout(s)
  PROVE  AccountInv'
<1>0. AccountTypeOK /\ TasksSound /\ UNCHANGED <<user, profile, memberships, links, now, task, ghosts>>
  BY DEF AccountInv, RevokeSessions, Logout
<1>1. PICK ss : \/ \E s \in DOMAIN sessions : sessions' = [sessions EXCEPT ![s].open = FALSE]
                \/ sessions' = [s \in DOMAIN sessions |-> [sessions[s] EXCEPT !.open = @ /\ s \notin ss]]
  BY DEF RevokeSessions, Logout
<1>2. sessions' \in Seq(SessionRows) /\ SessionsSound' /\ Onward
  <2>1. CASE \E s \in DOMAIN sessions : sessions' = [sessions EXCEPT ![s].open = FALSE]
    <3>1. PICK s \in DOMAIN sessions : sessions' = [sessions EXCEPT ![s].open = FALSE]
      BY <2>1
    <3> DEFINE row == [sessions[s] EXCEPT !.open = FALSE]
    <3>2. row \in SessionRows /\ row.cred = sessions[s].cred /\ SessionSound(row)
      BY SessionsClosed
    <3>3. sessions' = [sessions EXCEPT ![s] = row]
      BY <3>1
    <3> HIDE DEF row
    <3> QED
      BY <1>0, <3>2, <3>3, OneSession
  <2>2. CASE sessions' = [s \in DOMAIN sessions |-> [sessions[s] EXCEPT !.open = @ /\ s \notin ss]]
    <3>1. ASSUME NEW s \in DOMAIN sessions
          PROVE  /\ sessions'[s] \in SessionRows
                 /\ sessions'[s].cred = sessions[s].cred
                 /\ SessionSound(sessions'[s])
      <4>1. sessions'[s] = [sessions[s] EXCEPT !.open = sessions[s].open /\ s \notin ss]
        BY <2>2
      <4>2. CASE sessions[s].open /\ s \notin ss
        <5>1. sessions'[s] = [sessions[s] EXCEPT !.open = TRUE]
          BY <4>1, <4>2
        <5> QED
          BY <4>2, <5>1, SessionsClosed
      <4>3. CASE ~(sessions[s].open /\ s \notin ss)
        <5>1. sessions'[s] = [sessions[s] EXCEPT !.open = FALSE]
          BY <4>1, <4>3
        <5> QED
          BY <5>1, SessionsClosed
      <4> QED
        BY <4>2, <4>3
    <3>2. sessions' = [s \in DOMAIN sessions |-> sessions'[s]]
      BY <2>2
    <3> QED
      BY <1>0, <3>1, <3>2, SessionsRewritten
  <2> QED
    BY <1>1, <2>1, <2>2
<1>3. TasksSound'
  BY <1>0, <1>2, NoTask DEF ghosts
<1> QED
  BY <1>0, <1>2, <1>3, SessionsStep

\* What expires by itself.
LEMMA LapseKeeps == AccountInv /\ Lapse => AccountInv'
<1> SUFFICES ASSUME AccountInv, Lapse PROVE AccountInv'
  OBVIOUS
<1>0. AccountTypeOK /\ TasksSound /\ profile \in ProfileRows /\ UNCHANGED <<user, memberships, now, task, ghosts>>
  BY DEF AccountInv, AccountTypeOK, Lapse
<1>1. CASE profile' = [profile EXCEPT !.locked = FALSE] /\ UNCHANGED <<sessions, links, forced>>
  <2>1. /\ profile' \in ProfileRows /\ profile'.history = profile.history
        /\ profile'.attempts = profile.attempts /\ ~profile'.locked
    BY <1>0, <1>1 DEF ProfileRows
  <2> QED
    BY <1>0, <1>1, <2>1, ProfileChanged
<1>2. CASE links' = {} /\ UNCHANGED <<profile, sessions>>
  <2>1. Onward
    BY <1>0, <1>2 DEF Onward, AccountTypeOK, ghosts
  <2>2. TasksSound'
    BY <1>0, <2>1, NoTask DEF ghosts
  <2>3. AccountTypeOK'
    BY <1>0, <1>2 DEF AccountTypeOK, ghosts, ProfileRows, SessionRows, Times
  <2>4. SessionsSound'
    BY <1>0, <1>2 DEF AccountInv, SessionsSound, SessionSound, ghosts
  <2>5. LockEarned' /\ HistoryKeepsApart'
    BY <1>0, <1>2 DEF AccountInv, LockEarned, HistoryKeepsApart, ghosts
  <2> QED
    BY <2>2, <2>3, <2>4, <2>5 DEF AccountInv
<1>3. ASSUME NEW s \in DOMAIN sessions, sessions[s].token = "live",
             sessions' = [sessions EXCEPT ![s].token = "revoked"], UNCHANGED <<profile, links, forced>>
      PROVE  AccountInv'
  <2> DEFINE row == [sessions[s] EXCEPT !.token = "revoked"]
  <2>1. row \in SessionRows /\ row.cred = sessions[s].cred /\ SessionSound(row)
    BY <1>3, SessionsClosed
  <2>2. sessions' = [sessions EXCEPT ![s] = row]
    BY <1>3
  <2> HIDE DEF row
  <2>3. sessions' \in Seq(SessionRows) /\ SessionsSound' /\ Onward
    BY <1>0, <2>1, <2>2, OneSession
  <2>4. TasksSound'
    BY <1>0, <2>3, NoTask DEF ghosts
  <2> QED
    BY <1>0, <1>3, <2>3, <2>4, SessionsStep
<1> QED
  BY <1>1, <1>2, <1>3 DEF Lapse

\* createSession, in its three outcomes.
LEMMA SessionOpened ==
  ASSUME AccountInv, NEW t \in Tasks, IssueSession(t)
  PROVE  AccountInv'
<1> DEFINE c == task[t]
           a == Seen(t)
           new == [tenant |-> Head(a.memberships), device |-> c.arg.device,
                   open |-> TRUE, token |-> "none", cred |-> c.cred]
           next == [pc |-> "profile", seen |-> a, arg |-> c.arg,
                    session |-> Len(sessions) + 1, cred |-> c.cred]
<1>0. /\ AccountTypeOK /\ TasksSound /\ TaskTyped(c) /\ TaskSound(c) /\ c.pc = "issue"
      /\ UNCHANGED <<user, profile, memberships, links, now, ghosts>>
  BY DEF AccountInv, TasksSound, IssueSession, At
<1>1. /\ a \in AccountCopies /\ c.arg \in SignInArgs /\ c.cred \in 0 .. cutoffs
      /\ (a.consent => user.consent) /\ (raced \/ c.cred = cutoffs)
  BY <1>0 DEF TaskTyped, TaskSound, SigningIn, Seen
<1>2. CASE ~MayIssue(a)
  <2>1. End(t) /\ UNCHANGED sessions
    BY <1>2 DEF IssueSession
  <2>2. Onward
    BY <1>0, <2>1 DEF Onward, AccountTypeOK, ghosts
  <2> QED
    BY <1>0, <2>1, <2>2, Ended, OnlyTask DEF ghosts
<1>3. CASE MayIssue(a)
  <2>1. a.memberships \in Seq(Tenants) /\ a.memberships # <<>> /\ c.arg.device \in Devices
    BY <1>1, <1>3 DEF MayIssue, AccountCopies, SignInArgs
  <2>2. Head(a.memberships) \in Tenants
    BY <2>1, HeadTailProperties
  <2>3. new \in SessionRows /\ new.cred = c.cred /\ SessionSound(new)
    BY <1>1, <2>1, <2>2 DEF SessionRows, SessionSound
  <2>4. sessions' = Append(sessions, new)
    BY <1>3 DEF IssueSession
  <2>5. End(t) \/ (a.consent /\ task' = [task EXCEPT ![t] = next])
    BY <1>3 DEF IssueSession, Consented, Carry
  <2> HIDE DEF new
  <2>6. sessions \in Seq(SessionRows)
    BY <1>0 DEF AccountTypeOK
  <2>7. /\ sessions' \in Seq(SessionRows) /\ Len(sessions') = Len(sessions) + 1
        /\ \A i \in 1 .. Len(sessions) : sessions'[i] = sessions[i]
        /\ sessions'[Len(sessions) + 1] = new
    BY <2>3, <2>4, <2>6, AppendProperties
  <2>8. /\ DOMAIN sessions = 1 .. Len(sessions) /\ Len(sessions) \in Nat
        /\ DOMAIN sessions' = 1 .. (Len(sessions) + 1)
    BY <2>6, <2>7
  <2>9. SessionsSound'
    <3>1. ASSUME NEW i \in DOMAIN sessions' PROVE SessionSound(sessions'[i])
      <4>1. CASE i = Len(sessions) + 1
        BY <2>3, <2>7, <4>1
      <4>2. CASE i # Len(sessions) + 1
        <5>1. i \in DOMAIN sessions
          BY <2>8, <4>2
        <5> QED
          BY <2>7, <2>8, <5>1 DEF AccountInv, SessionsSound
      <4> QED
        BY <4>1, <4>2
    <3> QED
      BY <1>0, <3>1 DEF SessionsSound, SessionSound, ghosts
  <2>10. DOMAIN sessions \subseteq DOMAIN sessions' /\ Len(sessions) + 1 \in DOMAIN sessions'
    BY <2>8
  <2>11. Onward
    BY <1>0, <2>7, <2>8, <2>10 DEF Onward, AccountTypeOK, ghosts
  <2>12. TasksSound'
    <3>1. CASE End(t)
      BY <1>0, <2>11, <3>1, Ended DEF ghosts
    <3>2. CASE a.consent /\ task' = [task EXCEPT ![t] = next]
      <4>1. task'[t] = next
        BY <1>0, <3>2, Moved
      <4>2. TaskTyped(task[t])'
        <5>1. a \in AccountCopies' /\ next.cred \in 0 .. cutoffs'
          BY <1>0, <1>1 DEF AccountCopies, Times, ghosts
        <5> QED
          BY <1>1, <2>10, <4>1, <5>1 DEF TaskTyped, Labels, Issuing, SigningIn, SignInArgs
      <4>3. TaskSound(task[t])'
        <5>1. sessions'[next.session].cred = next.cred
          BY <2>3, <2>7
        <5> QED
          BY <1>0, <1>1, <3>2, <4>1, <5>1 DEF TaskSound, ghosts, Issuing, SigningIn
      <4> QED
        BY <1>0, <2>11, <3>2, <4>2, <4>3, OneTask DEF ghosts
    <3> QED
      BY <2>5, <3>1, <3>2
  <2> QED
    BY <1>0, <2>7, <2>9, <2>12, SessionsStep
<1> QED
  BY <1>2, <1>3

-----------------------------------------------------------------------------
\* The user row.

\* The user row is written, or time passes.
LEMMA UserStep ==
  ASSUME AccountInv, TasksSound', UNCHANGED <<profile, sessions, links, fails, cutoffs, raced>>,
         now' \in Nat, now <= now', memberships' \in Seq(Tenants),
         user' \in [status : {"active", "inactive"}, password : Passwords \union {None},
                    consent : BOOLEAN, erased : BOOLEAN],
         user.consent => user'.consent, HistoryKeepsApart'
  PROVE  AccountInv'
<1>1. Times \subseteq Times' /\ ProfileRows \subseteq ProfileRows' /\ links \subseteq 0 .. now'
  BY TimesGrow DEF AccountInv, AccountTypeOK
<1>2. AccountTypeOK'
  BY <1>1 DEF AccountInv, AccountTypeOK, SessionRows
<1>3. SessionsSound'
  BY DEF AccountInv, SessionsSound, SessionSound
<1>4. LockEarned'
  BY DEF AccountInv, LockEarned
<1> QED
  BY <1>2, <1>3, <1>4 DEF AccountInv

\* The handlers that write user and memberships at once.
LEMMA UserHandlers ==
  ASSUME AccountInv, AcceptPrivacy \/ VerifyEmail \/ TempPassword \/ Tick \/ RemoveMembership
  PROVE  AccountInv'
<1>0. AccountTypeOK /\ TasksSound
  BY DEF AccountInv
<1>1. ASSUME AcceptPrivacy PROVE AccountInv'
  <2>1. user' = [user EXCEPT !.consent = TRUE]
        /\ UNCHANGED <<profile, memberships, sessions, links, now, task, ghosts>>
    BY <1>1 DEF AcceptPrivacy
  <2>2. /\ user' \in [status : {"active", "inactive"}, password : Passwords \union {None},
                      consent : BOOLEAN, erased : BOOLEAN]
        /\ user'.consent /\ user'.password = user.password
    BY <1>0, <2>1 DEF AccountTypeOK
  <2>3. HistoryKeepsApart'
    BY <2>1, <2>2 DEF AccountInv, HistoryKeepsApart, ghosts
  <2>4. Onward
    BY <1>0, <2>1, <2>2 DEF Onward, AccountTypeOK, ghosts
  <2>5. TasksSound'
    BY <1>0, <2>1, <2>4, NoTask DEF ghosts
  <2> QED
    BY <1>0, <2>1, <2>2, <2>3, <2>5, UserStep DEF AccountTypeOK, ghosts
<1>2. ASSUME VerifyEmail PROVE AccountInv'
  <2>1. UNCHANGED <<user, profile, memberships, sessions, links, now, task, ghosts>>
    BY <1>2 DEF VerifyEmail
  <2>2. Onward
    BY <1>0, <2>1 DEF Onward, AccountTypeOK, ghosts
  <2>3. TasksSound'
    BY <1>0, <2>1, <2>2, NoTask DEF ghosts
  <2> QED
    BY <2>1, <2>3, OnlyTask
<1>3. ASSUME TempPassword PROVE AccountInv'
  <2>1. PICK p \in Passwords : Reusable(Password, p) /\ user' = [user EXCEPT !.password = p]
    BY <1>3 DEF TempPassword
  <2>2. /\ profile' = [profile EXCEPT !.resetRequired = TRUE]
        /\ UNCHANGED <<memberships, sessions, links, now, task, fails, cutoffs, raced>>
    BY <1>3 DEF TempPassword
  <2>3. /\ profile' \in ProfileRows /\ profile'.history = profile.history
        /\ profile'.attempts = profile.attempts /\ profile'.locked = profile.locked
    BY <1>0, <2>2 DEF AccountTypeOK, ProfileRows
  <2>4. /\ user' \in [status : {"active", "inactive"}, password : Passwords \union {None},
                      consent : BOOLEAN, erased : BOOLEAN]
        /\ user'.consent = user.consent /\ user'.password = p
    BY <1>0, <2>1 DEF AccountTypeOK
  <2>5. HistoryKeepsApart'
    BY <2>1, <2>3, <2>4 DEF HistoryKeepsApart, Reusable, Password, Contains
  <2>6. Onward
    BY <1>0, <2>2, <2>4 DEF Onward, AccountTypeOK
  <2>7. TasksSound'
    BY <1>0, <2>2, <2>6, NoTask
  <2>8. AccountTypeOK'
    BY <1>0, <2>2, <2>3, <2>4 DEF AccountTypeOK, SessionRows, ProfileRows, Times
  <2>9. SessionsSound'
    BY <2>2, <2>4 DEF AccountInv, SessionsSound, SessionSound
  <2>10. LockEarned'
    BY <2>2, <2>3 DEF AccountInv, LockEarned
  <2> QED
    BY <2>5, <2>7, <2>8, <2>9, <2>10 DEF AccountInv
<1>4. ASSUME Tick PROVE AccountInv'
  <2>1. now' = now + 1 /\ now \in Nat
        /\ UNCHANGED <<user, profile, memberships, sessions, links, task, ghosts>>
    BY <1>0, <1>4 DEF Tick, AccountTypeOK
  <2>2. Onward
    BY <1>0, <2>1 DEF Onward, AccountTypeOK, ghosts
  <2>3. TasksSound'
    BY <1>0, <2>1, <2>2, NoTask DEF ghosts
  <2>4. HistoryKeepsApart'
    BY <2>1 DEF AccountInv, HistoryKeepsApart, ghosts
  <2> QED
    BY <1>0, <2>1, <2>3, <2>4, UserStep DEF AccountTypeOK, ghosts
<1>5. ASSUME RemoveMembership PROVE AccountInv'
  <2>1. PICK i \in DOMAIN memberships : memberships' = RemoveAt(memberships, i)
    BY <1>5 DEF RemoveMembership
  <2>2. UNCHANGED <<user, profile, sessions, links, now, task, ghosts>>
    BY <1>5 DEF RemoveMembership
  <2>3. memberships \in Seq(Tenants) /\ i \in 1 .. Len(memberships) /\ Len(memberships) \in Nat
    BY <1>0, <2>1 DEF AccountTypeOK
  <2>4. i - 1 \in Int /\ i + 1 \in Int /\ 1 \in Int /\ Len(memberships) \in Int
        /\ (\A j \in 1 .. i - 1 : memberships[j] \in Tenants)
        /\ (\A j \in i + 1 .. Len(memberships) : memberships[j] \in Tenants)
    BY <2>3
  <2>5. SubSeq(memberships, 1, i - 1) \in Seq(Tenants)
        /\ SubSeq(memberships, i + 1, Len(memberships)) \in Seq(Tenants)
    <3>1. SubSeq(memberships, 1, i - 1) \in Seq(Tenants)
      BY <2>4, SubSeqProperties
    <3>2. SubSeq(memberships, i + 1, Len(memberships)) \in Seq(Tenants)
      <4> DEFINE m == i + 1
      <4>1. m \in Int /\ \A j \in m .. Len(memberships) : memberships[j] \in Tenants
        BY <2>4
      <4> HIDE DEF m
      <4>2. SubSeq(memberships, m, Len(memberships)) \in Seq(Tenants)
        BY <2>4, <4>1, SubSeqProperties
      <4> QED
        BY <4>2 DEF m
    <3> QED
      BY <3>1, <3>2
  <2>6. memberships' \in Seq(Tenants)
    BY <2>1, <2>5, ConcatProperties DEF RemoveAt
  <2>7. Onward
    BY <1>0, <2>2 DEF Onward, AccountTypeOK, ghosts
  <2>8. TasksSound'
    BY <1>0, <2>2, <2>7, NoTask DEF ghosts
  <2>9. HistoryKeepsApart'
    BY <2>2 DEF AccountInv, HistoryKeepsApart, ghosts
  <2> QED
    BY <1>0, <2>2, <2>6, <2>8, <2>9, UserStep DEF AccountTypeOK, ghosts
<1> QED
  BY <1>1, <1>2, <1>3, <1>4, <1>5

\* A login stores an accepted policy before its sign-in is issued.
LEMMA LoginGoesOn ==
  ASSUME AccountInv, NEW t \in Tasks, LoginProceeds(t)
  PROVE  AccountInv'
<1> DEFINE c == task[t]
<1>0. /\ AccountTypeOK /\ TasksSound /\ TaskTyped(c) /\ TaskSound(c) /\ c.pc = "checked"
      /\ UNCHANGED <<profile, memberships, sessions, mail, links, now, ghosts>>
  BY DEF AccountInv, TasksSound, LoginProceeds, At
<1>1. CASE End(t) /\ UNCHANGED user
  <2>1. Onward
    BY <1>0, <1>1 DEF Onward, AccountTypeOK, ghosts
  <2> QED
    BY <1>0, <1>1, <2>1, Ended, OnlyTask DEF ghosts
<1>2. CASE ~(End(t) /\ UNCHANGED user)
  <2> DEFINE b == user.consent \/ c.arg.accepts
             seen == [c.seen EXCEPT !.consent = c.seen.consent \/ c.arg.accepts]
             next == [pc |-> "issue", seen |-> seen, arg |-> c.arg, session |-> 0, cred |-> c.cred]
  <2>1. user' = [user EXCEPT !.consent = b] /\ task' = [task EXCEPT ![t] = next]
    BY <1>2 DEF LoginProceeds, Carry, Seen
  <2>2. /\ c.seen \in AccountCopies /\ c.arg \in SignInArgs /\ c.cred \in 0 .. cutoffs
        /\ (c.seen.consent => user.consent) /\ (raced \/ c.cred = cutoffs)
    BY <1>0 DEF TaskTyped, TaskSound, SigningIn
  <2>3. c.arg.accepts \in BOOLEAN /\ user.consent \in BOOLEAN /\ c.seen.consent \in BOOLEAN
    BY <1>0, <2>2 DEF AccountTypeOK, SignInArgs, AccountCopies
  <2>4. seen \in AccountCopies /\ (seen.consent <=> c.seen.consent \/ c.arg.accepts)
    BY <2>2, <2>3 DEF AccountCopies
  <2>5. b \in BOOLEAN /\ (seen.consent => b) /\ (user.consent => b)
    BY <2>2, <2>3, <2>4
  <2> HIDE DEF b, seen
  <2>6. /\ user' \in [status : {"active", "inactive"}, password : Passwords \union {None},
                      consent : BOOLEAN, erased : BOOLEAN]
        /\ user'.consent = b /\ user'.password = user.password
    BY <1>0, <2>1, <2>5 DEF AccountTypeOK
  <2>7. Onward
    BY <1>0, <2>5, <2>6 DEF Onward, AccountTypeOK, ghosts
  <2>8. task'[t] = next
    BY <1>0, <2>1, Moved
  <2>9. TaskTyped(task[t])'
    <3>1. seen \in AccountCopies' /\ next.cred \in 0 .. cutoffs'
      BY <1>0, <2>2, <2>4 DEF AccountCopies, Times, ghosts
    <3> QED
      BY <2>2, <2>8, <3>1 DEF TaskTyped, Labels, Issuing, SigningIn, SignInArgs
  <2>10. TaskSound(task[t])'
    BY <1>0, <2>2, <2>5, <2>6, <2>8 DEF TaskSound, ghosts, Issuing, SigningIn
  <2>11. TasksSound'
    BY <1>0, <2>1, <2>7, <2>9, <2>10, OneTask DEF ghosts
  <2>12. HistoryKeepsApart'
    BY <1>0, <2>6 DEF AccountInv, HistoryKeepsApart, ghosts
  <2> QED
    BY <1>0, <2>5, <2>6, <2>11, <2>12, UserStep DEF AccountTypeOK, ghosts
<1> QED
  BY <1>1, <1>2

\* A changed password is in no place of the history written with it.
LEMMA HistoryWritten ==
  ASSUME NEW a \in PasswordCopies, NEW p \in Passwords, Reusable(a, p)
  PROVE  LET history == KeepFirst(<<a.password>> \o a.history, HistorySize)
         IN  /\ history \in Seq(Passwords) /\ Len(history) <= HistorySize
             /\ ~Contains(history, p)
<1> DEFINE all == <<a.password>> \o a.history
           n == IF Len(all) > HistorySize THEN HistorySize ELSE Len(all)
<1>1. <<a.password>> \in Seq(Passwords) /\ a.history \in Seq(Passwords)
      /\ Len(<<a.password>>) = 1 /\ <<a.password>>[1] = a.password
  BY DEF PasswordCopies
<1>2. /\ all \in Seq(Passwords) /\ Len(all) = 1 + Len(a.history)
      /\ \A i \in 1 .. 1 + Len(a.history) :
            all[i] = IF i <= 1 THEN <<a.password>>[i] ELSE a.history[i - 1]
  BY <1>1, ConcatProperties
<1> HIDE DEF all
<1>3. \A i \in 1 .. Len(all) : all[i] \in Passwords /\ all[i] # p
  <2>1. Len(a.history) \in Nat /\ a.password # p /\ \A i \in 1 .. Len(a.history) : a.history[i] # p
    BY <1>1 DEF Reusable, Contains
  <2>2. ASSUME NEW i \in 1 .. Len(all) PROVE all[i] # p
    <3>1. CASE i <= 1
      BY <1>1, <1>2, <2>1, <3>1
    <3>2. CASE ~(i <= 1)
      <4>1. i - 1 \in 1 .. Len(a.history)
        BY <1>2, <2>1, <3>2
      <4> QED
        BY <1>2, <2>1, <3>2, <4>1
    <3> QED
      BY <3>1, <3>2
  <2> QED
    BY <1>2, <2>2
<1>4. n \in Int /\ 0 <= n /\ n <= Len(all) /\ n <= HistorySize /\ Len(all) \in Nat
  BY <1>2, AccountsAssumption
<1> HIDE DEF n
<1>5. 1 \in Int /\ \A i \in 1 .. n : all[i] \in Passwords
  BY <1>3, <1>4
<1>6. /\ SubSeq(all, 1, n) \in Seq(Passwords) /\ Len(SubSeq(all, 1, n)) = IF 1 <= n THEN n - 1 + 1 ELSE 0
      /\ \A i \in 1 .. n - 1 + 1 : SubSeq(all, 1, n)[i] = all[1 + i - 1]
  BY <1>4, <1>5, SubSeqProperties
<1>7. Len(SubSeq(all, 1, n)) = n /\ \A i \in 1 .. n : SubSeq(all, 1, n)[i] # p
  BY <1>3, <1>4, <1>6
<1> QED
  BY <1>4, <1>6, <1>7 DEF KeepFirst, Contains, all, n

\* changePassword writes both, from the copy that was compared.
LEMMA PasswordChanged ==
  ASSUME AccountInv, NEW t \in Tasks, ChangeWrite(t)
  PROVE  AccountInv'
<1> DEFINE c == task[t]
           history == KeepFirst(<<Seen(t).password>> \o Seen(t).history, HistorySize)
           one == [profile EXCEPT !.stamp = now]
           two == [one EXCEPT !.resetRequired = FALSE]
           row == [two EXCEPT !.history = history]
<1>0. /\ AccountTypeOK /\ TasksSound /\ TaskTyped(c) /\ TaskSound(c) /\ c.pc = "change"
      /\ UNCHANGED <<memberships, sessions, links, now, fails, cutoffs, raced>> /\ End(t)
  BY DEF AccountInv, TasksSound, ChangeWrite, At
<1>1. Seen(t) \in PasswordCopies /\ c.arg \in Passwords /\ Reusable(Seen(t), c.arg)
  BY <1>0 DEF TaskTyped, TaskSound, Seen
<1>2. history \in Seq(Passwords) /\ Len(history) <= HistorySize /\ ~Contains(history, c.arg)
  BY <1>1, HistoryWritten
<1>3. user' = [user EXCEPT !.password = c.arg] /\ profile' = row
  BY DEF ChangeWrite
<1> HIDE DEF history
<1>4. one \in ProfileRows /\ one.attempts = profile.attempts /\ one.locked = profile.locked
  BY <1>0, NowIsTime DEF AccountTypeOK, ProfileRows
<1> HIDE DEF one
<1>5. two \in ProfileRows /\ two.attempts = profile.attempts /\ two.locked = profile.locked
  BY <1>4 DEF ProfileRows
<1> HIDE DEF two
<1>6. row \in ProfileRows /\ row.attempts = profile.attempts /\ row.locked = profile.locked
      /\ row.history = history
  BY <1>2, <1>5 DEF ProfileRows
<1> HIDE DEF row
<1>7. /\ user' \in [status : {"active", "inactive"}, password : Passwords \union {None},
                    consent : BOOLEAN, erased : BOOLEAN]
      /\ user'.consent = user.consent /\ user'.password = c.arg
  BY <1>0, <1>1, <1>3 DEF AccountTypeOK
<1>8. AccountTypeOK'
  BY <1>0, <1>2, <1>3, <1>6, <1>7 DEF AccountTypeOK, ProfileRows, SessionRows, Times
<1>9. HistoryKeepsApart'
  BY <1>2, <1>3, <1>6, <1>7 DEF HistoryKeepsApart
<1>10. Onward
  BY <1>0, <1>7 DEF Onward, AccountTypeOK
<1>11. TasksSound'
  BY <1>0, <1>10, Ended
<1>12. SessionsSound'
  BY <1>0, <1>7 DEF AccountInv, SessionsSound, SessionSound
<1>13. LockEarned'
  BY <1>0, <1>3, <1>6 DEF AccountInv, LockEarned
<1> QED
  BY <1>8, <1>9, <1>11, <1>12, <1>13 DEF AccountInv

\* The cut-off leaves nothing open that is older.
LEMMA AllClosed ==
  ASSUME AccountInv, NEW t \in Tasks, CutOff(t), now' = now, fails' = fails, user'.consent = user.consent
  PROVE  /\ sessions' \in Seq(SessionRows') /\ SessionsSound' /\ Onward
         /\ raced' \in BOOLEAN
         /\ raced' \/ \A u \in Tasks \ {t} : task[u].pc \notin SigningIn
<1>1. /\ sessions' = [s \in DOMAIN sessions |-> Closed(sessions[s])] /\ cutoffs' = cutoffs + 1
      /\ raced' = (raced \/ \E u \in Tasks \ {t} : task[u].pc \in SigningIn)
      /\ {now, fails, cutoffs} \subseteq Nat /\ sessions \in Seq(SessionRows) /\ raced \in BOOLEAN
  BY DEF CutOff, AccountInv, AccountTypeOK
<1>2. SessionRows \subseteq SessionRows'
  <2>1. 0 .. cutoffs \subseteq 0 .. cutoffs'
    BY <1>1
  <2> QED
    BY <2>1 DEF SessionRows
<1>3. ASSUME NEW s \in DOMAIN sessions
      PROVE  /\ sessions'[s] \in SessionRows /\ sessions'[s].cred = sessions[s].cred
             /\ ~sessions'[s].open /\ sessions'[s].token # "live"
             /\ sessions'[s].token # "none" => user.consent
  <2> DEFINE half == [sessions[s] EXCEPT !.open = FALSE]
             token == IF half.token = "none" THEN "none" ELSE "revoked"
             row == [half EXCEPT !.token = token]
  <2>1. sessions[s] \in SessionRows /\ SessionSound(sessions[s])
    BY SessionsClosed
  <2>2. sessions'[s] = row
    BY <1>1, <2>1 DEF Closed, SessionRows
  <2>3. half \in SessionRows /\ half.cred = sessions[s].cred /\ ~half.open
        /\ half.token = sessions[s].token
    BY <2>1 DEF SessionRows
  <2> HIDE DEF half
  <2>4. token \in {"none", "revoked"} /\ (token # "none" => user.consent)
    BY <2>1, <2>3 DEF SessionSound
  <2> HIDE DEF token
  <2>5. row \in SessionRows /\ row.cred = sessions[s].cred /\ ~row.open /\ row.token = token
    BY <2>3, <2>4 DEF SessionRows
  <2> QED
    BY <2>2, <2>4, <2>5
<1>4. DOMAIN sessions' = DOMAIN sessions /\ DOMAIN sessions = 1 .. Len(sessions) /\ Len(sessions) \in Nat
  BY <1>1
<1>5. sessions' \in Seq(SessionRows')
  <2>1. sessions' \in [1 .. Len(sessions) -> SessionRows']
    BY <1>1, <1>2, <1>3, <1>4
  <2> QED
    BY <1>4, <2>1, SeqDef
<1>6. SessionsSound'
  BY <1>3, <1>4 DEF SessionsSound, SessionSound
<1>7. Onward
  BY <1>1, <1>3, <1>4 DEF Onward
<1> QED
  BY <1>1, <1>5, <1>6, <1>7

\* A reset by link and an erasure cut off.
LEMMA ResetsAndErasures ==
  ASSUME AccountInv, NEW t \in Tasks, ResetWrite(t) \/ Erase(t)
  PROVE  AccountInv'
<1>0. /\ AccountTypeOK /\ TasksSound /\ CutOff(t) /\ TaskTyped(task[t])
      /\ UNCHANGED <<memberships, links, now, fails>>
  BY DEF AccountInv, TasksSound, ResetWrite, Erase
<1>1. ASSUME ResetWrite(t) PROVE AccountInv'
  <2> DEFINE one == [profile EXCEPT !.stamp = now]
             two == [one EXCEPT !.resetRequired = FALSE]
             three == [two EXCEPT !.requestedAt = None]
             row == [three EXCEPT !.trusted = <<>>]
  <2>1. task[t].arg \in Passwords
    BY <1>0, <1>1 DEF TaskTyped, ResetWrite, At
  <2>2. /\ user' = [user EXCEPT !.password = task[t].arg] /\ profile' = row /\ setBy' = "reset" /\ End(t)
    BY <1>1 DEF ResetWrite
  <2>3. one \in ProfileRows /\ one.attempts = profile.attempts /\ one.locked = profile.locked
        /\ one.history = profile.history
    BY <1>0, NowIsTime DEF AccountTypeOK, ProfileRows
  <2> HIDE DEF one
  <2>4. two \in ProfileRows /\ two.attempts = profile.attempts /\ two.locked = profile.locked
        /\ two.history = profile.history
    BY <2>3 DEF ProfileRows
  <2> HIDE DEF two
  <2>5. three \in ProfileRows /\ three.attempts = profile.attempts /\ three.locked = profile.locked
        /\ three.history = profile.history
    BY <1>0, <2>4, NowIsTime DEF ProfileRows
  <2> HIDE DEF three
  <2>6. <<>> \in Seq(Devices)
    OBVIOUS
  <2>7. row \in ProfileRows /\ row.attempts = profile.attempts /\ row.locked = profile.locked
        /\ row.history = profile.history
    BY <2>5, <2>6 DEF ProfileRows
  <2> HIDE DEF row
  <2>8. /\ user' \in [status : {"active", "inactive"}, password : Passwords \union {None},
                      consent : BOOLEAN, erased : BOOLEAN]
        /\ user'.consent = user.consent
    BY <1>0, <2>1, <2>2 DEF AccountTypeOK
  <2>9. /\ sessions' \in Seq(SessionRows') /\ SessionsSound' /\ Onward /\ raced' \in BOOLEAN
        /\ raced' \/ \A u \in Tasks \ {t} : task[u].pc \notin SigningIn
    BY <1>0, <2>8, AllClosed
  <2>10. TasksSound'
    BY <1>0, <2>2, <2>9, Ended
  <2>11. AccountTypeOK'
    BY <1>0, <2>2, <2>7, <2>8, <2>9 DEF AccountTypeOK, ProfileRows, Times, Onward
  <2>12. LockEarned' /\ HistoryKeepsApart'
    BY <1>0, <2>2, <2>7 DEF AccountInv, LockEarned, HistoryKeepsApart
  <2> QED
    BY <2>9, <2>10, <2>11, <2>12 DEF AccountInv
<1>2. ASSUME Erase(t) PROVE AccountInv'
  <2> DEFINE one == [user EXCEPT !.status = "inactive"]
             two == [one EXCEPT !.password = None]
             row == [two EXCEPT !.erased = TRUE]
             Rows == [status : {"active", "inactive"}, password : Passwords \union {None},
                      consent : BOOLEAN, erased : BOOLEAN]
  <2>1. user' = row /\ profile' = profile /\ task' = task /\ task[t].pc = "idle"
    BY <1>2 DEF Erase, At
  <2>2. one \in Rows /\ one.consent = user.consent
    BY <1>0 DEF AccountTypeOK
  <2> HIDE DEF one
  <2>3. two \in Rows /\ two.consent = user.consent /\ two.password = None
    BY <2>2
  <2> HIDE DEF two
  <2>4. row \in Rows /\ row.consent = user.consent /\ row.password = None
    BY <2>3
  <2> HIDE DEF row
  <2>5. /\ sessions' \in Seq(SessionRows') /\ SessionsSound' /\ Onward /\ raced' \in BOOLEAN
        /\ raced' \/ \A u \in Tasks \ {t} : task[u].pc \notin SigningIn
    BY <1>0, <2>1, <2>4, AllClosed
  <2>6. TasksSound'
    <3>1. ASSUME NEW u \in Tasks PROVE Fine(u)'
      <4>1. raced' \/ task[u].pc \notin SigningIn
        BY <2>1, <2>5 DEF SigningIn
      <4> QED
        BY <1>0, <2>1, <2>5, <4>1, TaskKept DEF Fine, TasksSound
    <3> QED
      BY <1>0, <2>1, <3>1 DEF TasksSound, Fine
  <2>7. AccountTypeOK'
    BY <1>0, <2>1, <2>4, <2>5 DEF AccountTypeOK, ProfileRows, Times, Onward
  <2>8. LockEarned'
    BY <1>0, <2>1 DEF AccountInv, LockEarned
  <2>9. HistoryKeepsApart'
    <3>1. profile.history \in Seq(Passwords) /\ None \notin Passwords
      BY <1>0, AccountsAssumption DEF AccountTypeOK, ProfileRows
    <3> QED
      BY <2>1, <2>4, <3>1 DEF HistoryKeepsApart, Contains
  <2> QED
    BY <2>5, <2>6, <2>7, <2>8, <2>9 DEF AccountInv
<1> QED
  BY <1>1, <1>2

-----------------------------------------------------------------------------
\* The account.

\* The initial states are in the invariant.
LEMMA AccountStarts == AccountInit => AccountInv
<1> SUFFICES ASSUME AccountInit PROVE AccountInv
  OBVIOUS
<1> USE DEF AccountInit
<1>1. AccountTypeOK
  <2>1. /\ <<>> \in Seq(Passwords) /\ <<>> \in Seq(Devices) /\ <<>> \in Seq(SessionRows)
        /\ memberships \in Seq(Tenants) /\ Len(<<>>) = 0
    OBVIOUS
  <2>2. None \in Times /\ now \in Nat /\ 0 <= HistorySize
    BY AccountsAssumption DEF Times
  <2>3. profile \in ProfileRows /\ profile.attempts = 0 /\ profile.history = <<>>
    BY <2>1, <2>2 DEF ProfileRows
  <2>4. user \in [status : {"active", "inactive"}, password : Passwords \union {None},
                  consent : BOOLEAN, erased : BOOLEAN]
    OBVIOUS
  <2>5. profile.attempts <= fails /\ Len(profile.history) <= HistorySize
    BY <2>1, <2>2, <2>3
  <2>6. links \subseteq 0 .. now /\ {now, fails, cutoffs} \subseteq Nat /\ raced \in BOOLEAN
    BY <2>2
  <2>7. sessions \in Seq(SessionRows)
    BY <2>1
  <2> QED
    BY <2>1, <2>3, <2>4, <2>5, <2>6, <2>7 DEF AccountTypeOK
<1>2. TasksSound
  <2>1. TaskTyped(IdleTask) /\ TaskSound(IdleTask)
    BY DEF TaskTyped, TaskSound, IdleTask, SigningIn, Issuing, Labels
  <2> QED
    BY <2>1 DEF TasksSound
<1>3. SessionsSound
  BY DEF SessionsSound
<1>4. LockEarned /\ HistoryKeepsApart
  BY DEF LockEarned, HistoryKeepsApart, Contains
<1> QED
  BY <1>1, <1>2, <1>3, <1>4 DEF AccountInv

\* Every step, and every stutter, keeps the invariant.
LEMMA AccountKept == AccountInv /\ [AccountNext]_accountVars => AccountInv'
<1> SUFFICES ASSUME AccountInv, [AccountNext]_accountVars PROVE AccountInv'
  OBVIOUS
<1>1. CASE UNCHANGED accountVars
  <2>1. UNCHANGED <<user, profile, memberships, sessions, links, now, task, ghosts>>
    BY <1>1 DEF accountVars, ghosts
  <2>2. Onward
    BY <2>1 DEF Onward, AccountInv, AccountTypeOK, ghosts
  <2>3. TasksSound'
    BY <2>1, <2>2, NoTask DEF AccountInv, ghosts
  <2> QED
    BY <2>1, <2>3, OnlyTask
<1>2. ASSUME NEW t \in Tasks, Request(t) PROVE AccountInv'
  <2>1. CASE LoginRead(t) \/ OAuthRead(t) \/ RefreshRead(t)
    BY <2>1, SignInsStart
  <2>2. CASE LoginFails(t)
    BY <2>2, FailsBooked
  <2>3. CASE LoginProceeds(t)
    BY <2>3, LoginGoesOn
  <2>4. CASE RefreshRotate(t) \/ IssueToken(t)
    BY <2>4, TokensMove
  <2>5. CASE IssueSession(t)
    BY <2>5, SessionOpened
  <2>6. CASE IssueProfile(t) \/ IssueTrust(t)
    BY <2>6, IssueKeepsProfile
  <2>7. CASE ChangeRead(t) \/ ForgotRead(t) \/ ResetRead(t) \/ ResendRead(t) \/ TotpRead(t)
               \/ ToggleRead(t) \/ TrustRead(t)
    BY <2>7, OthersStart
  <2>8. CASE ChangeWrite(t)
    BY <2>8, PasswordChanged
  <2>9. CASE ForgotWrite(t) \/ TotpWrite(t) \/ ToggleWrite(t) \/ TrustWrite(t)
    BY <2>9, ProfileWrites
  <2>10. CASE ResetWrite(t) \/ Erase(t)
    BY <2>10, ResetsAndErasures
  <2>11. CASE LoginTotp(t) \/ ResendWrite(t) \/ Abort(t)
    BY <2>11, TasksEnd
  <2> QED
    BY <1>2, <2>1, <2>2, <2>3, <2>4, <2>5, <2>6, <2>7, <2>8, <2>9, <2>10, <2>11 DEF Request, Issue
<1>3. CASE SetupTotp \/ ForcePasswordReset \/ SetTwoFactorRequirement
  BY <1>3, ProfileHandlers
<1>4. CASE RevokeSessions \/ \E s \in DOMAIN sessions : Logout(s)
  BY <1>4, SessionHandlers
<1>5. CASE AcceptPrivacy \/ VerifyEmail \/ TempPassword \/ Tick \/ RemoveMembership
  BY <1>5, UserHandlers
<1>6. CASE Lapse
  BY <1>6, LapseKeeps
<1> QED
  BY <1>1, <1>2, <1>3, <1>4, <1>5, <1>6 DEF AccountNext, Step

\* The invariant holds in every reachable state.
LEMMA AccountInvAlways == AccountSpec => []AccountInv
  BY AccountStarts, AccountKept, PTL DEF AccountSpec

\* What the invariant says of tokens and rotations.
LEMMA ConsentIn == AccountInv => ConsentFirst
<1> SUFFICES ASSUME AccountInv PROVE ConsentFirst
  OBVIOUS
<1>1. SignedIn => user.consent
  BY DEF AccountInv, SessionsSound, SessionSound, SignedIn
<1>2. ASSUME NEW t \in Tasks, At(t, "rotate") PROVE Consented(Seen(t)) /\ user.consent
  BY <1>2 DEF AccountInv, TasksSound, TaskSound, At, Seen, Consented, Issuing, SigningIn
<1> QED
  BY <1>1, <1>2 DEF ConsentFirst

\* An account's rows keep their types: the attempt count never exceeds the
\* failed sign-ins and the history of passwords its size.
THEOREM AccountTyped == AccountSpec => []AccountTypeOK
<1>1. AccountInv => AccountTypeOK
  BY DEF AccountInv
<1> QED
  BY <1>1, AccountInvAlways, PTL

\* No refresh token is issued without an accepted privacy policy, and a rotation
\* always finds the consent: whatever was stale.
THEOREM TokensNeedConsent == AccountSpec => []ConsentFirst
  BY ConsentIn, AccountInvAlways, PTL

\* After a reset by link or an erasure nothing that goes back to an earlier
\* sign-in works, unless a sign-in was being served meanwhile.
THEOREM CutOffHolds == AccountSpec => []CutOffIsFinal
<1>1. AccountInv => CutOffIsFinal
  BY DEF AccountInv, CutOffIsFinal, SessionsSound, SessionSound
<1> QED
  BY <1>1, AccountInvAlways, PTL

\* A lock takes as many failed sign-ins as the policy says.
THEOREM LocksAreEarned == AccountSpec => []LockEarned
<1>1. AccountInv => LockEarned
  BY DEF AccountInv
<1> QED
  BY <1>1, AccountInvAlways, PTL

\* The current password is among the earlier ones only after a reset by link.
THEOREM PasswordsKeptApart == AccountSpec => []HistoryKeepsApart
<1>1. AccountInv => HistoryKeepsApart
  BY DEF AccountInv
<1> QED
  BY <1>1, AccountInvAlways, PTL
-----------------------------------------------------------------------------
\* Tenancy.

\* A user has a company if it has a membership.
LEMMA HasTenant ==
  ASSUME NEW u
  PROVE  TenantsOf(u) # {} <=> \E m \in members : m.user = u
  BY DEF TenantsOf

\* The initial states are in the invariant.
LEMMA TenancyStarts == TenancyInit => TenancyInv
<1> SUFFICES ASSUME TenancyInit PROVE TenancyInv
  OBVIOUS
<1> USE DEF TenancyInit
<1>1. CallTyped(IdleCall) /\ IdleCall.pc = "idle"
  BY DEF IdleCall, CallTyped
<1>2. CallsTyped /\ \A t \in Calls : call[t].pc = "idle"
  BY <1>1 DEF CallsTyped
<1>3. TablesTyped
  <2>1. \A u \in Staff : EmailOf[u] \in Emails
    BY TenancyAssumption
  <2>2. \A u \in DOMAIN users : users[u] \in UserRows
    BY <2>1 DEF UserRows
  <2>3. \A x \in DOMAIN tenants : tenants[x] \in TenantRows
    BY DEF TenantRows
  <2> QED
    BY <2>2, <2>3 DEF TablesTyped, TenancyTypeOK, Ids
<1>4. PrefixOwned
  BY DEF PrefixOwned
<1>5. IdsNew /\ ListsSound
  BY <1>2, TenancyAssumption DEF IdsNew, ListsSound, AtCall
<1>6. NoOrphans
  <2> SUFFICES ASSUME NEW u \in Staff PROVE TenantsOf(u) # {}
    BY DEF NoOrphans
  <2>1. [user |-> u, tenant |-> Home] \in members
    OBVIOUS
  <2> QED
    BY <2>1, HasTenant
<1>7. ReviewSound
  BY DEF ReviewSound, ReviewFindsThem
<1> QED
  BY <1>2, <1>3, <1>4, <1>5, <1>6, <1>7 DEF TenancyInv, DataInv

-----------------------------------------------------------------------------
\* Calls.

\* One call moves, the others are as they were.
LEMMA CallGoesOn ==
  ASSUME CallsTyped, NEW t \in Calls, NEW row, CallTyped(row), call' = [call EXCEPT ![t] = row]
  PROVE  /\ CallsTyped' /\ call'[t] = row
         /\ \A c \in Calls : c # t => call'[c] = call[c]
<1>1. DOMAIN call' = Calls /\ call'[t] = row /\ \A c \in Calls : c # t => call'[c] = call[c]
  BY DEF CallsTyped
<1>2. \A c \in Calls : CallTyped(call'[c])
  BY <1>1 DEF CallsTyped
<1> QED
  BY <1>1, <1>2 DEF CallsTyped, CallTyped

\* What deletions know stays right if a call that is none moves, creates rows
\* under its own id only, and takes no membership away; and if who joins a company
\* is noted where a deletion has counted them out.
LEMMA ListsKept ==
  ASSUME IdsNew, ListsSound, NEW t \in Calls, \A c \in Calls : c # t => call'[c] = call[c],
         call'[t].pc # "count",
         call'[t].pc \in BeforeTenant => call[t].pc \in BeforeTenant,
         call'[t].pc \in BeforeUser => call[t].pc \in BeforeUser,
         \/ DOMAIN tenants' \subseteq DOMAIN tenants
         \/ /\ DOMAIN tenants' \subseteq DOMAIN tenants \union {t}
            /\ call[t].pc \in BeforeTenant /\ call'[t].pc \notin BeforeTenant,
         \/ DOMAIN users' \subseteq DOMAIN users
         \/ /\ DOMAIN users' \subseteq DOMAIN users \union {t}
            /\ call[t].pc \in BeforeUser /\ call'[t].pc \notin BeforeUser,
         excused \subseteq excused', joined \subseteq joined', members \subseteq members',
         \A m \in members' : \/ m \in members \/ m.user \in joined'
                             \/ \A c \in Calls : call[c].pc = "count" => m.user \notin call[c].exclusive
  PROVE  IdsNew' /\ ListsSound'
<1>1. \A c \in Calls : call'[c].pc = "count" => c # t /\ call'[c] = call[c]
  OBVIOUS
<1>2. IdsNew'
  <2> SUFFICES ASSUME NEW n \in Calls
      PROVE  /\ call'[n].pc \in BeforeTenant =>
                  /\ n \notin DOMAIN tenants'
                  /\ \A c \in Calls : call'[c].pc = "count" => call'[c].arg # n
             /\ call'[n].pc \in BeforeUser =>
                  /\ n \notin DOMAIN users'
                  /\ \A c \in Calls : call'[c].pc = "count" =>
                       n \notin call'[c].left \union call'[c].exclusive \union call'[c].kept
    BY DEF IdsNew, AtCall, BeforeTenant, BeforeUser
  <2>1. call'[n].pc \in BeforeTenant => call[n].pc \in BeforeTenant /\ n \notin DOMAIN tenants'
    BY DEF IdsNew
  <2>2. call'[n].pc \in BeforeUser => call[n].pc \in BeforeUser /\ n \notin DOMAIN users'
    BY DEF IdsNew
  <2> QED
    BY <1>1, <2>1, <2>2 DEF IdsNew, AtCall
<1>3. ListsSound'
  <2> SUFFICES ASSUME NEW c \in Calls, call'[c].pc = "count", call'[c].arg \in DOMAIN tenants'
      PROVE  /\ \A u \in DOMAIN users' \cap (call'[c].left \union call'[c].kept) :
                  u \in excused' \/ call'[c].arg \in TenantsOf(u)'
             /\ \A u \in DOMAIN users' \cap call'[c].kept :
                  u \in excused' \/ TenantsOf(u)' \ {call'[c].arg} # {}
             /\ \A u \in call'[c].exclusive : u \in joined' \/ TenantsOf(u)' \subseteq {call'[c].arg}
    BY DEF ListsSound, AtCall
  <2>1. call'[c] = call[c]
    BY <1>1
  <2>2. call[c].arg \in DOMAIN tenants
    BY <1>1, <2>1 DEF IdsNew, AtCall
  <2>3. DOMAIN users' \cap (call[c].left \union call[c].kept) \subseteq DOMAIN users
    BY <1>1, <2>1 DEF IdsNew, AtCall
  <2>4. \A u : TenantsOf(u) \subseteq TenantsOf(u)'
    BY DEF TenantsOf
  <2>5. \A u \in call[c].exclusive : u \in joined' \/ TenantsOf(u)' \subseteq TenantsOf(u)
    BY <2>1 DEF TenantsOf
  <2>6. /\ \A u \in DOMAIN users \cap (call[c].left \union call[c].kept) :
             u \in excused \/ call[c].arg \in TenantsOf(u)
        /\ \A u \in DOMAIN users \cap call[c].kept :
             u \in excused \/ TenantsOf(u) \ {call[c].arg} # {}
        /\ \A u \in call[c].exclusive : u \in joined \/ TenantsOf(u) \subseteq {call[c].arg}
    BY <2>1, <2>2 DEF ListsSound, AtCall
  <2>7. \A u \in DOMAIN users' \cap (call[c].left \union call[c].kept) :
          u \in excused' \/ call[c].arg \in TenantsOf(u)'
    BY <2>3, <2>4, <2>6
  <2>8. \A u \in DOMAIN users' \cap call[c].kept : u \in excused' \/ TenantsOf(u)' \ {call[c].arg} # {}
    <3> SUFFICES ASSUME NEW u \in DOMAIN users', u \in call[c].kept, u \notin excused'
                 PROVE  TenantsOf(u)' \ {call[c].arg} # {}
      OBVIOUS
    <3>1. TenantsOf(u) \ {call[c].arg} # {}
      BY <2>3, <2>6
    <3> QED
      BY <2>4, <3>1
  <2>9. \A u \in call[c].exclusive : u \in joined' \/ TenantsOf(u)' \subseteq {call[c].arg}
    BY <2>5, <2>6
  <2> QED
    BY <2>1, <2>7, <2>8, <2>9
<1> QED
  BY <1>2, <1>3

\* The user that a call creates is on no list, whatever company it joins.
LEMMA ListsKeptOnJoin ==
  ASSUME IdsNew, ListsSound, NEW t \in Calls, \A c \in Calls : c # t => call'[c] = call[c],
         call[t].pc \in BeforeUser, call'[t].pc = "done",
         \/ DOMAIN tenants' \subseteq DOMAIN tenants
         \/ DOMAIN tenants' \subseteq DOMAIN tenants \union {t} /\ call[t].pc \in BeforeTenant,
         DOMAIN users' \subseteq DOMAIN users \union {t},
         excused \subseteq excused', UNCHANGED joined, members \subseteq members',
         members' \subseteq members \union [user : {t}, tenant : TenantIds]
  PROVE  IdsNew' /\ ListsSound'
<1>1. \A c \in Calls : call[c].pc = "count" => t \notin call[c].exclusive
  BY DEF IdsNew, AtCall
<1>2. \A m \in members' : m \in members \/ m.user = t
  OBVIOUS
<1>3. \A m \in members' : \/ m \in members \/ m.user \in joined'
                          \/ \A c \in Calls : call[c].pc = "count" => m.user \notin call[c].exclusive
  BY <1>1, <1>2
<1>4. call'[t].pc \notin BeforeTenant /\ call'[t].pc \notin BeforeUser /\ call'[t].pc # "count"
  BY DEF BeforeTenant, BeforeUser
<1>5. joined \subseteq joined'
  OBVIOUS
<1> QED
  BY <1>3, <1>4, <1>5, ListsKept

\* They stay right too if no call moves, no row of a company or a user comes or
\* goes, and memberships go with an excuse, or come with a note.
LEMMA ListsKeptAtRest ==
  ASSUME IdsNew, ListsSound, UNCHANGED <<call, tenants>>, DOMAIN users' = DOMAIN users,
         excused \subseteq excused', joined \subseteq joined',
         \A m \in members : m \in members' \/ m.user \in excused',
         \A m \in members' : \/ m \in members \/ m.user \in joined'
                             \/ \A c \in Calls : call[c].pc = "count" => m.user \notin call[c].exclusive
  PROVE  IdsNew' /\ ListsSound'
<1>1. IdsNew'
  BY DEF IdsNew, AtCall
<1>2. ListsSound'
  <2> SUFFICES ASSUME NEW c \in Calls, call[c].pc = "count", call[c].arg \in DOMAIN tenants
      PROVE  /\ \A u \in DOMAIN users \cap (call[c].left \union call[c].kept) :
                  u \in excused' \/ call[c].arg \in TenantsOf(u)'
             /\ \A u \in DOMAIN users \cap call[c].kept :
                  u \in excused' \/ TenantsOf(u)' \ {call[c].arg} # {}
             /\ \A u \in call[c].exclusive : u \in joined' \/ TenantsOf(u)' \subseteq {call[c].arg}
    BY DEF ListsSound, AtCall
  <2>1. \A u : u \in excused' \/ TenantsOf(u) \subseteq TenantsOf(u)'
    BY DEF TenantsOf
  <2>2. \A u \in call[c].exclusive : u \in joined' \/ TenantsOf(u)' \subseteq TenantsOf(u)
    BY DEF TenantsOf
  <2>3. /\ \A u \in DOMAIN users \cap (call[c].left \union call[c].kept) :
             u \in excused \/ call[c].arg \in TenantsOf(u)
        /\ \A u \in DOMAIN users \cap call[c].kept :
             u \in excused \/ TenantsOf(u) \ {call[c].arg} # {}
        /\ \A u \in call[c].exclusive : u \in joined \/ TenantsOf(u) \subseteq {call[c].arg}
    BY DEF ListsSound, AtCall
  <2>4. \A u \in DOMAIN users \cap (call[c].left \union call[c].kept) :
          u \in excused' \/ call[c].arg \in TenantsOf(u)'
    BY <2>1, <2>3
  <2>5. \A u \in DOMAIN users \cap call[c].kept : u \in excused' \/ TenantsOf(u)' \ {call[c].arg} # {}
    <3> SUFFICES ASSUME NEW u \in DOMAIN users, u \in call[c].kept, u \notin excused'
                 PROVE  TenantsOf(u)' \ {call[c].arg} # {}
      OBVIOUS
    <3>1. TenantsOf(u) \ {call[c].arg} # {}
      BY <2>3
    <3> QED
      BY <2>1, <3>1
  <2>6. \A u \in call[c].exclusive : u \in joined' \/ TenantsOf(u)' \subseteq {call[c].arg}
    BY <2>2, <2>3
  <2> QED
    BY <2>4, <2>5, <2>6
<1> QED
  BY <1>1, <1>2

\* Users keep what excuses or houses them if members and excuses stay, but for
\* the user of the call, whose step gives it one of them.
LEMMA NobodyLeft ==
  ASSUME NoOrphans, NEW t \in Calls,
         \A m \in members : m.user \in DOMAIN users' =>
           m.user \in excused' \/ \E n \in members' : n.user = m.user,
         excused \subseteq excused', DOMAIN users' \subseteq DOMAIN users \union {t},
         \A c \in Calls : c # t => call'[c] = call[c],
         \/ call[t].pc # "member" /\ t \notin DOMAIN users' \ DOMAIN users
         \/ call'[t].pc = "member" \/ t \in excused' \/ \E m \in members' : m.user = t
  PROVE  NoOrphans'
<1> SUFFICES ASSUME NEW u \in DOMAIN users', u \notin excused'
             PROVE  TenantsOf(u)' # {} \/ (u \in Calls /\ AtCall(u, "member")')
  BY DEF NoOrphans
<1>1. TenantsOf(u)' # {} <=> \E m \in members' : m.user = u
  BY DEF TenantsOf
<1>2. CASE \E m \in members : m.user = u
  BY <1>1, <1>2
<1>3. CASE u = t /\ ~\E m \in members : m.user = u
  BY <1>1, <1>3, HasTenant DEF NoOrphans, AtCall
<1>4. CASE u # t /\ ~\E m \in members : m.user = u
  <2>1. u \in DOMAIN users /\ TenantsOf(u) = {} /\ u \notin excused
    BY <1>4, HasTenant
  <2> QED
    BY <2>1, <1>4 DEF NoOrphans, AtCall
<1> QED
  BY <1>2, <1>3, <1>4

-----------------------------------------------------------------------------
\* Steps of a call that change no table.

\* A step that touches no table.
LEMMA OnlyCallMoves ==
  ASSUME DataInv, NEW t \in Calls, NEW row, CallTyped(row), call' = [call EXCEPT ![t] = row],
         row.pc # "count", row.pc # "member",
         row.pc \in BeforeTenant => call[t].pc \in BeforeTenant,
         row.pc \in BeforeUser => call[t].pc \in BeforeUser,
         UNCHANGED database, excused \subseteq excused', UNCHANGED joined,
         call[t].pc # "member" \/ t \in excused'
  PROVE  DataInv'
<1> USE DEF DataInv
<1>0. UNCHANGED <<tenants, subscribed, users, members, profiles, openSessions, estado>>
  BY DEF database
<1>1. CallsTyped' /\ call'[t] = row /\ \A c \in Calls : c # t => call'[c] = call[c]
  BY CallGoesOn
<1>2. TablesTyped' /\ PrefixOwned'
  BY <1>0 DEF TablesTyped, TenancyTypeOK, PrefixOwned
<1>3. IdsNew' /\ ListsSound'
  BY <1>0, <1>1, ListsKept
<1>4. NoOrphans'
  BY <1>0, <1>1, NobodyLeft
<1> QED
  BY <1>1, <1>2, <1>3, <1>4

\* A call that starts carries its argument and nothing else.
LEMMA IdleWith ==
  ASSUME NEW p, NEW a
  PROVE  [IdleCall EXCEPT !.pc = p, !.arg = a] = [pc |-> p, arg |-> a, left |-> {}, exclusive |-> {}, kept |-> {}]
<1> DEFINE half == [IdleCall EXCEPT !.pc = p]
<1>1. half = [pc |-> p, arg |-> Nobody, left |-> {}, exclusive |-> {}, kept |-> {}]
  BY DEF IdleCall
<1> HIDE DEF half
<1>2. [half EXCEPT !.arg = a] = [pc |-> p, arg |-> a, left |-> {}, exclusive |-> {}, kept |-> {}]
  BY <1>1
<1>3. [IdleCall EXCEPT !.pc = p, !.arg = a] = [half EXCEPT !.arg = a]
  BY DEF half
<1> QED
  BY <1>2, <1>3

\* Calls that start or are over are well formed.
LEMMA IdleTyped ==
  /\ CallTyped(DoneTask) /\ DoneTask.pc = "done"
  /\ \A d \in Demos : CallTyped([IdleCall EXCEPT !.pc = "convert", !.arg = d])
                      /\ [IdleCall EXCEPT !.pc = "convert", !.arg = d].pc = "convert"
  /\ \A a \in [email : Emails, plan : BOOLEAN] :
       CallTyped([IdleCall EXCEPT !.pc = "user", !.arg = a])
       /\ [IdleCall EXCEPT !.pc = "user", !.arg = a].pc = "user"
  /\ \A m \in [user : Ids, tenant : TenantIds] :
       CallTyped([IdleCall EXCEPT !.pc = "complete", !.arg = m])
       /\ [IdleCall EXCEPT !.pc = "complete", !.arg = m].pc = "complete"
<1>1. CallTyped(DoneTask) /\ DoneTask.pc = "done"
  BY DEF DoneTask, IdleCall, CallTyped
<1>2. ASSUME NEW d \in Demos
      PROVE  CallTyped([pc |-> "convert", arg |-> d, left |-> {}, exclusive |-> {}, kept |-> {}])
  BY DEF CallTyped
<1>3. ASSUME NEW a \in [email : Emails, plan : BOOLEAN]
      PROVE  CallTyped([pc |-> "user", arg |-> a, left |-> {}, exclusive |-> {}, kept |-> {}])
  BY DEF CallTyped
<1>4. ASSUME NEW m \in [user : Ids, tenant : TenantIds]
      PROVE  CallTyped([pc |-> "complete", arg |-> m, left |-> {}, exclusive |-> {}, kept |-> {}])
  BY DEF CallTyped
<1> QED
  BY <1>1, <1>2, <1>3, <1>4, IdleWith

\* Memberships name users and companies by their ids.
LEMMA MemberIds ==
  ASSUME TablesTyped, NEW m \in members \union openSessions
  PROVE  /\ m.user \in DOMAIN users /\ m.user \in Ids /\ m.tenant \in DOMAIN tenants /\ m.tenant \in TenantIds
         /\ m = [user |-> m.user, tenant |-> m.tenant] /\ m \in [user : Ids, tenant : TenantIds]
  BY DEF TablesTyped, TenancyTypeOK, TenantIds

\* Calls start with what they read, and fail.
LEMMA CallsStart ==
  ASSUME DataInv, NEW t \in Calls, ConvertRead(t) \/ CompleteRead(t) \/ AbortCall(t)
  PROVE  DataInv'
<1>1. CASE ConvertRead(t)
  <2>1. PICK d \in Demos : StartCall(t, "demo", "convert", d)
    BY <1>1 DEF ConvertRead
  <2> DEFINE row == [IdleCall EXCEPT !.pc = "convert", !.arg = d]
  <2>2. call' = [call EXCEPT ![t] = row] /\ call[t].pc = "idle"
    BY <2>1 DEF StartCall, AtCall
  <2>3. CallTyped(row) /\ row.pc = "convert"
    BY IdleTyped
  <2> HIDE DEF row
  <2>4. UNCHANGED database /\ excused' = excused /\ joined' = joined
    BY <1>1 DEF ConvertRead
  <2> QED
    BY <2>2, <2>3, <2>4, OnlyCallMoves DEF BeforeTenant, BeforeUser
<1>2. CASE CompleteRead(t)
  <2>1. PICK m \in members : StartCall(t, "onboarding", "complete", m)
    BY <1>2 DEF CompleteRead
  <2>2. m \in [user : Ids, tenant : TenantIds]
    BY MemberIds DEF DataInv
  <2> DEFINE row == [IdleCall EXCEPT !.pc = "complete", !.arg = m]
  <2>3. call' = [call EXCEPT ![t] = row] /\ call[t].pc = "idle"
    BY <2>1 DEF StartCall, AtCall
  <2>4. CallTyped(row) /\ row.pc = "complete"
    BY <2>2, IdleTyped
  <2> HIDE DEF row
  <2>5. UNCHANGED database /\ excused' = excused /\ joined' = joined
    BY <1>2 DEF CompleteRead
  <2> QED
    BY <2>3, <2>4, <2>5, OnlyCallMoves DEF BeforeTenant, BeforeUser
<1>3. CASE AbortCall(t)
  <2>1. call' = [call EXCEPT ![t] = DoneTask] /\ UNCHANGED database
        /\ excused \subseteq excused' /\ (call[t].pc # "member" \/ t \in excused') /\ joined' = joined
    BY <1>3 DEF AbortCall, EndCall, AtCall
  <2> QED
    BY <2>1, IdleTyped, OnlyCallMoves DEF BeforeTenant, BeforeUser
<1> QED
  BY <1>1, <1>2, <1>3

\* A deletion begins with the members of its company on its list.
LEMMA DeletionStarts ==
  ASSUME DataInv, NEW t \in Calls, DeleteRead(t)
  PROVE  DataInv'
<1> USE DEF DataInv
<1>1. PICK x \in DOMAIN tenants :
        call' = [call EXCEPT ![t] =
          [pc |-> "count", arg |-> x, left |-> UsersOf(x), exclusive |-> {}, kept |-> {}]]
  BY DEF DeleteRead
<1> DEFINE row == [pc |-> "count", arg |-> x, left |-> UsersOf(x), exclusive |-> {}, kept |-> {}]
<1>2. UsersOf(x) \subseteq Ids /\ UsersOf(x) \subseteq DOMAIN users /\ x \in TenantIds
  BY MemberIds DEF UsersOf, TablesTyped, TenancyTypeOK, TenantIds
<1>3. /\ CallTyped(row) /\ row.pc = "count" /\ row.arg = x /\ row.left = UsersOf(x)
      /\ row.exclusive = {} /\ row.kept = {}
  BY <1>2 DEF CallTyped
<1>4. call' = [call EXCEPT ![t] = row] /\ call[t].pc = "idle"
  BY <1>1 DEF DeleteRead, AtCall
<1> HIDE DEF row
<1>5. CallsTyped' /\ call'[t] = row /\ \A c \in Calls : c # t => call'[c] = call[c]
  BY <1>3, <1>4, CallGoesOn
<1>6. UNCHANGED <<tenants, subscribed, users, members, profiles, openSessions, estado, excused, joined>>
  BY DEF DeleteRead, database
<1>7. TablesTyped' /\ PrefixOwned'
  BY <1>6 DEF TablesTyped, TenancyTypeOK, PrefixOwned
<1>8. IdsNew'
  <2>1. \A c \in Calls : call'[c].pc \in BeforeUser => c # t /\ call'[c] = call[c]
    BY <1>3, <1>5 DEF BeforeUser
  <2>2. \A c \in Calls : call'[c].pc \in BeforeTenant => c # t /\ call'[c] = call[c]
    BY <1>3, <1>5 DEF BeforeTenant
  <2> QED
    BY <1>2, <1>3, <1>5, <1>6, <2>1, <2>2 DEF IdsNew, AtCall
<1>9. ListsSound'
  <2>1. \A u \in UsersOf(x) : x \in TenantsOf(u)
    BY DEF UsersOf, TenantsOf
  <2>2. \A u : TenantsOf(u)' = TenantsOf(u)
    BY <1>6 DEF TenantsOf
  <2> QED
    BY <1>3, <1>5, <1>6, <2>1, <2>2 DEF ListsSound, AtCall
<1>10. NoOrphans'
  BY <1>4, <1>5, <1>6, NobodyLeft
<1> QED
  BY <1>5, <1>7, <1>8, <1>9, <1>10

\* A user that is counted goes from the list to one of two others: those of no
\* other company, and those it is kept for.
LEMMA DeletionCounts ==
  ASSUME DataInv, NEW t \in Calls, DeleteCount(t)
  PROVE  DataInv'
<1> USE DEF DataInv
<1>1. PICK u \in call[t].left :
         call' = [call EXCEPT ![t].left = @ \ {u},
                    ![t].exclusive = IF Exclusive(u, call[t].arg) THEN @ \union {u} ELSE @,
                    ![t].kept = IF Exclusive(u, call[t].arg) THEN @ ELSE @ \union {u}]
  BY DEF DeleteCount
<1>2. PICK c : c = call[t]
  OBVIOUS
<1> DEFINE counted == IF Exclusive(u, c.arg) THEN c.exclusive \union {u} ELSE c.exclusive
           staying == IF Exclusive(u, c.arg) THEN c.kept ELSE c.kept \union {u}
           row == [pc |-> "count", arg |-> c.arg, left |-> c.left \ {u}, exclusive |-> counted,
                   kept |-> staying]
<1>3. c.pc = "count" /\ CallTyped(c) /\ t \in DOMAIN call /\ u \in c.left
  BY <1>2 DEF DeleteCount, AtCall, CallsTyped
<1>4. c = [pc |-> "count", arg |-> c.arg, left |-> c.left, exclusive |-> c.exclusive, kept |-> c.kept]
  BY <1>3 DEF CallTyped
<1>5. call' = [call EXCEPT ![t] = row]
  <2>1. call' = [call EXCEPT ![t] = [c EXCEPT !.left = @ \ {u}, !.exclusive = counted, !.kept = staying]]
    BY <1>1, <1>2, <1>3
  <2> HIDE DEF counted, staying
  <2>2. [c EXCEPT !.left = @ \ {u}, !.exclusive = counted, !.kept = staying]
        = [[[c EXCEPT !.left = c.left \ {u}] EXCEPT !.exclusive = counted] EXCEPT !.kept = staying]
    OBVIOUS
  <2> DEFINE first == [pc |-> "count", arg |-> c.arg, left |-> c.left \ {u}, exclusive |-> c.exclusive,
                       kept |-> c.kept]
             second == [pc |-> "count", arg |-> c.arg, left |-> c.left \ {u}, exclusive |-> counted,
                        kept |-> c.kept]
  <2>3. [c EXCEPT !.left = c.left \ {u}] = first
    BY <1>4
  <2>4. [first EXCEPT !.exclusive = counted] = second /\ [second EXCEPT !.kept = staying] = row
    OBVIOUS
  <2>5. [c EXCEPT !.left = @ \ {u}, !.exclusive = counted, !.kept = staying] = row
    BY <2>2, <2>3, <2>4
  <2> QED
    BY <2>1, <2>5
<1>6. CallTyped(row)
  BY <1>3 DEF CallTyped
<1>7. /\ row.pc = "count" /\ row.arg = c.arg
      /\ row.left \union row.exclusive \union row.kept \subseteq c.left \union c.exclusive \union c.kept
      /\ row.left \union row.kept \subseteq c.left \union c.kept
      /\ row.exclusive \subseteq c.exclusive \union {u} /\ row.kept \subseteq c.kept \union {u}
      /\ (u \in row.exclusive \ c.exclusive => Exclusive(u, c.arg))
      /\ (u \in row.kept \ c.kept => ~Exclusive(u, c.arg))
  BY <1>3
<1> HIDE DEF row
<1>8. CallsTyped' /\ call'[t] = row /\ \A d \in Calls : d # t => call'[d] = call[d]
  BY <1>5, <1>6, CallGoesOn
<1>9. UNCHANGED <<tenants, subscribed, users, members, profiles, openSessions, estado, excused, joined>>
  BY DEF DeleteCount, database
<1>10. TablesTyped' /\ PrefixOwned'
  BY <1>9 DEF TablesTyped, TenancyTypeOK, PrefixOwned
<1>11. IdsNew'
  <2>1. \A d \in Calls : call'[d].pc \in BeforeUser => d # t /\ call'[d] = call[d]
    BY <1>7, <1>8 DEF BeforeUser
  <2>2. \A d \in Calls : call'[d].pc \in BeforeTenant => d # t /\ call'[d] = call[d]
    BY <1>7, <1>8 DEF BeforeTenant
  <2> QED
    BY <1>2, <1>3, <1>7, <1>8, <1>9, <2>1, <2>2 DEF IdsNew, AtCall
<1>12. ListsSound'
  <2>1. \A v : TenantsOf(v)' = TenantsOf(v)
    BY <1>9 DEF TenantsOf
  <2>2. c.arg \in DOMAIN tenants =>
          /\ \A v \in DOMAIN users \cap (c.left \union c.kept) : v \in excused \/ c.arg \in TenantsOf(v)
          /\ \A v \in DOMAIN users \cap c.kept : v \in excused \/ TenantsOf(v) \ {c.arg} # {}
          /\ \A v \in c.exclusive : v \in joined \/ TenantsOf(v) \subseteq {c.arg}
    BY <1>2, <1>3 DEF ListsSound, AtCall
  <2>3. c.arg \in DOMAIN tenants =>
          /\ \A v \in DOMAIN users \cap (row.left \union row.kept) : v \in excused \/ c.arg \in TenantsOf(v)
          /\ \A v \in DOMAIN users \cap row.kept : v \in excused \/ TenantsOf(v) \ {c.arg} # {}
          /\ \A v \in row.exclusive : v \in joined \/ TenantsOf(v) \subseteq {c.arg}
    <3>1. u \in row.exclusive \ c.exclusive => TenantsOf(u) \subseteq {c.arg}
      BY <1>7 DEF Exclusive
    <3>2. u \in row.kept \ c.kept => TenantsOf(u) \ {c.arg} # {}
      BY <1>7 DEF Exclusive
    <3> QED
      BY <1>7, <2>2, <3>1, <3>2
  <2>4. ASSUME NEW d \in Calls, call'[d].pc = "count", call'[d].arg \in DOMAIN tenants'
        PROVE  /\ \A v \in DOMAIN users' \cap (call'[d].left \union call'[d].kept) :
                    v \in excused' \/ call'[d].arg \in TenantsOf(v)'
               /\ \A v \in DOMAIN users' \cap call'[d].kept :
                    v \in excused' \/ TenantsOf(v)' \ {call'[d].arg} # {}
               /\ \A v \in call'[d].exclusive : v \in joined' \/ TenantsOf(v)' \subseteq {call'[d].arg}
    <3>1. CASE d = t
      BY <1>7, <1>8, <1>9, <2>1, <2>3, <2>4, <3>1
    <3>2. CASE d # t
      BY <1>8, <1>9, <2>1, <2>4, <3>2 DEF ListsSound, AtCall
    <3> QED
      BY <3>1, <3>2
  <2> QED
    BY <2>4 DEF ListsSound, AtCall
<1>13. NoOrphans'
  BY <1>2, <1>3, <1>8, <1>9, NobodyLeft
<1> QED
  BY <1>8, <1>10, <1>11, <1>12, <1>13

-----------------------------------------------------------------------------
\* Rows that come.

\* A company more.
LEMMA TenantInserted ==
  ASSUME TablesTyped, PrefixOwned, NEW t \in Calls, NEW row \in TenantRows,
         tenants' = Inserted(tenants, t, row), PrefixFree(row.prefix),
         row.demo # Nobody => row.prefix = DemoPrefix[row.demo]
  PROVE  /\ PrefixOwned' /\ DOMAIN tenants' = DOMAIN tenants \union {t}
         /\ \A x \in DOMAIN tenants' : tenants'[x] \in TenantRows
         /\ DOMAIN tenants' \subseteq Calls \union {Home}
<1>1. /\ DOMAIN tenants' = DOMAIN tenants \union {t} /\ tenants'[t] = row
      /\ \A k \in DOMAIN tenants : k # t => tenants'[k] = tenants[k]
  BY DEF Inserted
<1>2. PrefixOwned'
  BY <1>1 DEF PrefixOwned, PrefixFree
<1> QED
  BY <1>1, <1>2 DEF TablesTyped, TenancyTypeOK

\* A user more.
LEMMA UserInserted ==
  ASSUME TablesTyped, NEW t \in Calls, NEW email \in Emails,
         users' = Inserted(users, t, [email |-> email, active |-> TRUE])
  PROVE  /\ DOMAIN users' = DOMAIN users \union {t} /\ DOMAIN users' \subseteq Ids
         /\ \A u \in DOMAIN users' : users'[u] \in UserRows
<1> DEFINE row == [email |-> email, active |-> TRUE]
<1>1. row \in UserRows
  BY DEF UserRows
<1> HIDE DEF row
<1>2. users' = Inserted(users, t, row)
  BY DEF row
<1>3. /\ DOMAIN users' = DOMAIN users \union {t} /\ users'[t] = row
      /\ \A k \in DOMAIN users : k # t => users'[k] = users[k]
  BY <1>2 DEF Inserted
<1> QED
  BY <1>1, <1>3 DEF TablesTyped, TenancyTypeOK, Ids

\* A user with its first membership.
LEMMA UserAdded ==
  ASSUME TablesTyped, NEW t \in Calls, NEW email \in Emails, NEW x \in DOMAIN tenants' \union {Nobody},
         AddUser(t, email, x), DOMAIN tenants \subseteq DOMAIN tenants',
         DOMAIN tenants' \subseteq TenantIds, UNCHANGED openSessions
  PROVE  /\ DOMAIN users' = DOMAIN users \union {t} /\ DOMAIN users' \subseteq Ids
         /\ \A u \in DOMAIN users' : users'[u] \in UserRows
         /\ members' \union openSessions' \subseteq [user : DOMAIN users', tenant : DOMAIN tenants']
         /\ members \subseteq members' /\ members' \subseteq members \union [user : {t}, tenant : TenantIds]
         /\ profiles' \subseteq DOMAIN users'
         /\ x # Nobody => \E m \in members' : m.user = t
<1>1. users' = Inserted(users, t, [email |-> email, active |-> TRUE])
  BY DEF AddUser
<1>2. DOMAIN users' = DOMAIN users \union {t} /\ DOMAIN users' \subseteq Ids
      /\ \A u \in DOMAIN users' : users'[u] \in UserRows
  BY <1>1, UserInserted
<1>3. members' = members \union [user : {t}, tenant : {x} \ {Nobody}] /\ profiles' = profiles \union {t}
  BY DEF AddUser
<1>4. \A m \in members \union openSessions : m \in [user : DOMAIN users', tenant : DOMAIN tenants']
  BY <1>2 DEF TablesTyped, TenancyTypeOK
<1>5. \A m \in [user : {t}, tenant : {x} \ {Nobody}] :
        m \in [user : DOMAIN users', tenant : DOMAIN tenants'] /\ m \in [user : {t}, tenant : TenantIds]
  BY <1>2
<1>6. profiles' \subseteq DOMAIN users'
  BY <1>2, <1>3 DEF TablesTyped, TenancyTypeOK
<1>7. x # Nobody => \E m \in members' : m.user = t
  <2> SUFFICES ASSUME x # Nobody PROVE \E m \in members' : m.user = t
    OBVIOUS
  <2>1. [user |-> t, tenant |-> x] \in members'
    BY <1>3
  <2> QED
    BY <2>1
<1> QED
  BY <1>2, <1>3, <1>4, <1>5, <1>6, <1>7

\* A demo request becomes a company with its user.
LEMMA Converted ==
  ASSUME DataInv, NEW t \in Calls, Convert(t)
  PROVE  DataInv'
<1> USE DEF DataInv
<1> DEFINE d == call[t].arg
           row == [prefix |-> DemoPrefix[d], demo |-> d, onboarded |-> FALSE]
<1>1. call[t].pc = "convert" /\ d \in Demos
  BY DEF Convert, AtCall, CallsTyped, CallTyped
<1>2. /\ PrefixFree(DemoPrefix[d]) /\ tenants' = Inserted(tenants, t, row)
      /\ AddUser(t, DemoEmail[d], t) /\ subscribed' = subscribed \union {t}
      /\ estado' = [estado EXCEPT ![d] = "convertido"] /\ call' = [call EXCEPT ![t] = DoneTask]
      /\ UNCHANGED <<openSessions, review, excused, joined>>
  BY DEF Convert, EndCall
<1>3. DemoEmail[d] \in Emails /\ DemoPrefix[d] \in TenantPrefixes
  BY <1>1, TenancyAssumption
<1>4. row \in TenantRows /\ row.prefix = DemoPrefix[d] /\ row.demo = d
  BY <1>1, <1>3 DEF TenantRows
<1> HIDE DEF row
<1>5. /\ PrefixOwned' /\ DOMAIN tenants' = DOMAIN tenants \union {t}
      /\ \A x \in DOMAIN tenants' : tenants'[x] \in TenantRows
      /\ DOMAIN tenants' \subseteq Calls \union {Home}
  BY <1>2, <1>4, TenantInserted
<1>6. /\ DOMAIN users' = DOMAIN users \union {t} /\ DOMAIN users' \subseteq Ids
      /\ \A u \in DOMAIN users' : users'[u] \in UserRows
      /\ members' \union openSessions' \subseteq [user : DOMAIN users', tenant : DOMAIN tenants']
      /\ members \subseteq members' /\ members' \subseteq members \union [user : {t}, tenant : TenantIds]
      /\ profiles' \subseteq DOMAIN users'
      /\ t # Nobody => \E m \in members' : m.user = t
  BY <1>2, <1>3, <1>5, UserAdded DEF TenantIds
<1>7. estado' \in [Demos -> EstadoValues \union {Nobody}]
  BY <1>2 DEF TablesTyped, TenancyTypeOK, EstadoValues
<1>8. TablesTyped'
  BY <1>2, <1>5, <1>6, <1>7 DEF TablesTyped, TenancyTypeOK
<1>9. CallsTyped' /\ call'[t] = DoneTask /\ \A c \in Calls : c # t => call'[c] = call[c]
  BY <1>2, IdleTyped, CallGoesOn
<1>10. call'[t].pc = "done"
  BY <1>9, IdleTyped
<1>11. IdsNew' /\ ListsSound'
  <2>1. call[t].pc \in BeforeTenant /\ call[t].pc \in BeforeUser /\ excused \subseteq excused'
    BY <1>1, <1>2 DEF BeforeTenant, BeforeUser
  <2>2. DOMAIN tenants' \subseteq DOMAIN tenants \union {t} /\ DOMAIN users' \subseteq DOMAIN users \union {t}
    BY <1>5, <1>6
  <2> QED
    BY <1>2, <1>6, <1>9, <1>10, <2>1, <2>2, ListsKeptOnJoin
<1>12. NoOrphans'
  BY <1>2, <1>6, <1>9, NobodyLeft, TenancyAssumption
<1> QED
  BY <1>5, <1>8, <1>9, <1>11, <1>12

\* createUser, and its refusals.
LEMMA UserCreated ==
  ASSUME DataInv, NEW t \in Calls, CreateUser(t)
  PROVE  DataInv'
<1> USE DEF DataInv
<1>1. PICK e \in Emails, x \in DOMAIN tenants \union {Nobody} :
        AddUser(t, e, x) /\ excused' = IF x = Nobody THEN excused \union {t} ELSE excused
  BY DEF CreateUser
<1>2. call[t].pc = "idle" /\ call' = [call EXCEPT ![t] = DoneTask]
      /\ UNCHANGED <<tenants, subscribed, openSessions, estado, joined>>
  BY DEF CreateUser, AtCall, EndCall
<1>3. DOMAIN tenants \subseteq TenantIds
  BY DEF TablesTyped, TenancyTypeOK, TenantIds
<1>4. /\ DOMAIN users' = DOMAIN users \union {t} /\ DOMAIN users' \subseteq Ids
      /\ \A u \in DOMAIN users' : users'[u] \in UserRows
      /\ members' \union openSessions' \subseteq [user : DOMAIN users', tenant : DOMAIN tenants']
      /\ members \subseteq members' /\ members' \subseteq members \union [user : {t}, tenant : TenantIds]
      /\ profiles' \subseteq DOMAIN users'
      /\ x # Nobody => \E m \in members' : m.user = t
  BY <1>1, <1>2, <1>3, UserAdded
<1>5. TablesTyped' /\ PrefixOwned'
  BY <1>2, <1>4 DEF TablesTyped, TenancyTypeOK, PrefixOwned
<1>6. CallsTyped' /\ call'[t] = DoneTask /\ \A c \in Calls : c # t => call'[c] = call[c]
  BY <1>2, IdleTyped, CallGoesOn
<1>7. call'[t].pc = "done"
  BY <1>6, IdleTyped
<1>8. IdsNew' /\ ListsSound'
  <2>1. call[t].pc \in BeforeUser /\ excused \subseteq excused'
    BY <1>1, <1>2 DEF BeforeUser
  <2>2. DOMAIN tenants' \subseteq DOMAIN tenants /\ DOMAIN users' \subseteq DOMAIN users \union {t}
    BY <1>2, <1>4
  <2> QED
    BY <1>2, <1>4, <1>6, <1>7, <2>1, <2>2, ListsKeptOnJoin
<1>9. NoOrphans'
  BY <1>1, <1>4, <1>6, NobodyLeft
<1> QED
  BY <1>5, <1>6, <1>8, <1>9

-----------------------------------------------------------------------------
\* The five statements that create a company.

\* createCompanyManual goes to its next statement.
LEMMA CompanyGoesOn ==
  ASSUME NEW c, CallTyped(c), c.pc \in {"user", "member", "profile", "plan"},
         NEW p \in {"member", "profile", "plan"}
  PROVE  CallTyped([c EXCEPT !.pc = p]) /\ [c EXCEPT !.pc = p].pc = p
  BY DEF CallTyped

\* createCompanyManual finds the prefix free and inserts the company.
LEMMA CompanyBegins ==
  ASSUME DataInv, NEW t \in Calls, CompanyTenant(t)
  PROVE  DataInv'
<1> USE DEF DataInv
<1>1. PICK p \in TenantPrefixes, e \in Emails, plan \in BOOLEAN :
         /\ PrefixFree(p)
         /\ StartCall(t, "company", "user", [email |-> e, plan |-> plan])
         /\ tenants' = Inserted(tenants, t, [prefix |-> p, demo |-> Nobody, onboarded |-> FALSE])
  BY DEF CompanyTenant
<1> DEFINE tenant == [prefix |-> p, demo |-> Nobody, onboarded |-> FALSE]
           arg == [email |-> e, plan |-> plan]
           row == [IdleCall EXCEPT !.pc = "user", !.arg = arg]
<1>2. tenant \in TenantRows /\ tenant.prefix = p /\ tenant.demo = Nobody
  BY DEF TenantRows
<1>3. tenants' = Inserted(tenants, t, tenant)
  BY <1>1
<1> HIDE DEF tenant
<1>4. /\ PrefixOwned' /\ DOMAIN tenants' = DOMAIN tenants \union {t}
      /\ \A x \in DOMAIN tenants' : tenants'[x] \in TenantRows
      /\ DOMAIN tenants' \subseteq Calls \union {Home}
  BY <1>1, <1>2, <1>3, TenantInserted
<1>5. UNCHANGED <<subscribed, users, members, profiles, openSessions, estado, excused, joined>>
  BY DEF CompanyTenant
<1>6. members' \union openSessions' \subseteq [user : DOMAIN users', tenant : DOMAIN tenants']
  BY <1>4, <1>5 DEF TablesTyped, TenancyTypeOK
<1>7. TablesTyped'
  BY <1>4, <1>5, <1>6 DEF TablesTyped, TenancyTypeOK
<1>8. arg \in [email : Emails, plan : BOOLEAN]
  OBVIOUS
<1> HIDE DEF arg
<1>9. call' = [call EXCEPT ![t] = row] /\ call[t].pc = "idle"
  BY <1>1 DEF StartCall, AtCall, arg
<1>10. CallTyped(row) /\ row.pc = "user"
  BY <1>8, IdleTyped
<1> HIDE DEF row
<1>11. CallsTyped' /\ call'[t] = row /\ \A c \in Calls : c # t => call'[c] = call[c]
  BY <1>9, <1>10, CallGoesOn
<1>12. IdsNew' /\ ListsSound'
  BY <1>4, <1>5, <1>9, <1>10, <1>11, ListsKept DEF BeforeTenant, BeforeUser
<1>13. NoOrphans'
  BY <1>5, <1>9, <1>11, NobodyLeft
<1> QED
  BY <1>4, <1>7, <1>11, <1>12, <1>13

\* The administrator is found or created.
LEMMA CompanyGetsUser ==
  ASSUME DataInv, NEW t \in Calls, CompanyUser(t)
  PROVE  DataInv'
<1> USE DEF DataInv
<1> DEFINE row == [call[t] EXCEPT !.pc = "member"]
<1>1. call[t].pc = "user" /\ CallTyped(call[t]) /\ call[t].arg.email \in Emails
  BY DEF CompanyUser, AtCall, CallsTyped, CallTyped
<1>2. users' = Inserted(users, t, [email |-> call[t].arg.email, active |-> TRUE])
      /\ call' = [call EXCEPT ![t] = row]
      /\ UNCHANGED <<tenants, subscribed, members, profiles, openSessions, estado, excused, joined>>
  BY DEF CompanyUser, GotoCall, CallsTyped
<1>3. CallTyped(row) /\ row.pc = "member"
  BY <1>1, CompanyGoesOn
<1> HIDE DEF row
<1>4. DOMAIN users' = DOMAIN users \union {t} /\ DOMAIN users' \subseteq Ids
      /\ \A u \in DOMAIN users' : users'[u] \in UserRows
  BY <1>1, <1>2, UserInserted
<1>5. members' \union openSessions' \subseteq [user : DOMAIN users', tenant : DOMAIN tenants']
  BY <1>2, <1>4 DEF TablesTyped, TenancyTypeOK
<1>6. TablesTyped' /\ PrefixOwned'
  BY <1>2, <1>4, <1>5 DEF TablesTyped, TenancyTypeOK, PrefixOwned
<1>7. CallsTyped' /\ call'[t] = row /\ \A c \in Calls : c # t => call'[c] = call[c]
  BY <1>2, <1>3, CallGoesOn
<1>8. IdsNew' /\ ListsSound'
  BY <1>1, <1>2, <1>3, <1>4, <1>7, ListsKept DEF BeforeTenant, BeforeUser
<1>9. NoOrphans'
  BY <1>2, <1>3, <1>4, <1>7, NobodyLeft
<1> QED
  BY <1>6, <1>7, <1>8, <1>9

\* The administrator becomes a member.
LEMMA CompanyGetsMember ==
  ASSUME DataInv, NEW t \in Calls, CompanyMember(t)
  PROVE  DataInv'
<1> USE DEF DataInv
<1> DEFINE row == [call[t] EXCEPT !.pc = "profile"]
           m == [user |-> t, tenant |-> t]
<1>1. call[t].pc = "member" /\ CallTyped(call[t]) /\ t \in DOMAIN users /\ t \in DOMAIN tenants
  BY DEF CompanyMember, AtCall, CallsTyped
<1>2. members' = members \union {m} /\ call' = [call EXCEPT ![t] = row]
      /\ UNCHANGED <<tenants, subscribed, users, profiles, openSessions, estado, excused>>
      /\ Joins(t)
  BY DEF CompanyMember, GotoCall, CallsTyped
<1>3. CallTyped(row) /\ row.pc = "profile"
  BY <1>1, CompanyGoesOn
<1>4. m \in [user : DOMAIN users, tenant : DOMAIN tenants] /\ m \in [user : {t}, tenant : TenantIds]
      /\ m.user = t
  BY <1>1 DEF TenantIds
<1> HIDE DEF row, m
<1>5. TablesTyped' /\ PrefixOwned'
  BY <1>2, <1>4 DEF TablesTyped, TenancyTypeOK, PrefixOwned
<1>6. CallsTyped' /\ call'[t] = row /\ \A c \in Calls : c # t => call'[c] = call[c]
  BY <1>2, <1>3, CallGoesOn
<1>7. IdsNew' /\ ListsSound'
  <2>1. joined \subseteq joined'
        /\ (t \in joined' \/ \A c \in Calls : call[c].pc = "count" => t \notin call[c].exclusive)
    BY <1>2 DEF Joins, AtCall
  <2>2. \A n \in members' : \/ n \in members \/ n.user \in joined'
                           \/ \A c \in Calls : call[c].pc = "count" => n.user \notin call[c].exclusive
    BY <1>2, <1>4, <2>1
  <2>3. call'[t].pc \notin BeforeTenant /\ call'[t].pc \notin BeforeUser /\ call'[t].pc # "count"
    BY <1>3, <1>6 DEF BeforeTenant, BeforeUser
  <2> QED
    BY <1>2, <1>6, <2>1, <2>2, <2>3, ListsKept
<1>8. NoOrphans'
  BY <1>2, <1>4, <1>6, NobodyLeft
<1> QED
  BY <1>5, <1>6, <1>7, <1>8

\* Profile and plan of the new company are written.
LEMMA CompanyCompleted ==
  ASSUME DataInv, NEW t \in Calls, CompanyProfile(t) \/ CompanyPlan(t)
  PROVE  DataInv'
<1> USE DEF DataInv
<1>1. call[t].pc \in {"profile", "plan"} /\ CallTyped(call[t])
  BY DEF CompanyProfile, CompanyPlan, AtCall, CallsTyped
<1>2. \E row : call' = [call EXCEPT ![t] = row] /\ CallTyped(row) /\ row.pc \in {"plan", "done"}
  <2>1. CASE call' = [call EXCEPT ![t] = [call[t] EXCEPT !.pc = "plan"]]
    <3> DEFINE row == [call[t] EXCEPT !.pc = "plan"]
    <3>1. CallTyped(row) /\ row.pc = "plan"
      BY <1>1, CompanyGoesOn
    <3> HIDE DEF row
    <3>2. call' = [call EXCEPT ![t] = row]
      BY <2>1 DEF row
    <3> QED
      BY <3>1, <3>2
  <2>2. CASE call' = [call EXCEPT ![t] = DoneTask]
    BY <2>2, IdleTyped
  <2> QED
    BY <2>1, <2>2 DEF CompanyProfile, CompanyPlan, GotoCall, EndCall, CallsTyped
<1>3. PICK row : call' = [call EXCEPT ![t] = row] /\ CallTyped(row) /\ row.pc \in {"plan", "done"}
  BY <1>2
<1>4. /\ UNCHANGED <<tenants, users, members, openSessions, estado, excused, joined>>
      /\ subscribed' \subseteq DOMAIN tenants /\ profiles' \subseteq DOMAIN users
  BY DEF CompanyProfile, CompanyPlan, TablesTyped, TenancyTypeOK
<1>5. TablesTyped' /\ PrefixOwned'
  BY <1>4 DEF TablesTyped, TenancyTypeOK, PrefixOwned
<1>6. CallsTyped' /\ call'[t] = row /\ \A c \in Calls : c # t => call'[c] = call[c]
  BY <1>3, CallGoesOn
<1>7. IdsNew' /\ ListsSound'
  BY <1>3, <1>4, <1>6, ListsKept DEF BeforeTenant, BeforeUser
<1>8. NoOrphans'
  BY <1>1, <1>4, <1>6, NobodyLeft
<1> QED
  BY <1>5, <1>6, <1>7, <1>8

-----------------------------------------------------------------------------
\* Onboarding.

\* The onboarding of a company is completed.
LEMMA CompanyOnboarded ==
  ASSUME DataInv, NEW t \in Calls, CompleteWrite(t)
  PROVE  DataInv'
<1> USE DEF DataInv
<1> DEFINE x == call[t].arg.tenant
           row == [tenants[x] EXCEPT !.onboarded = TRUE]
<1>1. call[t].pc = "complete" /\ x \in DOMAIN tenants
      /\ tenants' = [tenants EXCEPT ![x].onboarded = TRUE] /\ call' = [call EXCEPT ![t] = DoneTask]
      /\ UNCHANGED <<subscribed, users, members, profiles, openSessions, estado, excused, joined>>
  BY DEF CompleteWrite, AtCall, EndCall
<1>2. tenants[x] \in TenantRows
  BY <1>1 DEF TablesTyped, TenancyTypeOK
<1>3. row \in TenantRows /\ row.prefix = tenants[x].prefix /\ row.demo = tenants[x].demo
  BY <1>2 DEF TenantRows
<1>4. tenants' = [tenants EXCEPT ![x] = row]
  BY <1>1
<1> HIDE DEF row, x
<1>5. DOMAIN tenants' = DOMAIN tenants
      /\ \A y \in DOMAIN tenants : tenants'[y] = IF y = x THEN row ELSE tenants[y]
  BY <1>4
<1>6. TablesTyped'
  BY <1>1, <1>3, <1>5 DEF TablesTyped, TenancyTypeOK
<1>7. \A y \in DOMAIN tenants : tenants'[y].prefix = tenants[y].prefix /\ tenants'[y].demo = tenants[y].demo
  BY <1>3, <1>5
<1>8. PrefixOwned'
  BY <1>5, <1>7 DEF PrefixOwned
<1>9. CallsTyped' /\ call'[t] = DoneTask /\ \A c \in Calls : c # t => call'[c] = call[c]
  BY <1>1, IdleTyped, CallGoesOn
<1>10. call'[t].pc = "done"
  BY <1>9, IdleTyped
<1>11. IdsNew' /\ ListsSound'
  BY <1>1, <1>5, <1>9, <1>10, ListsKept DEF BeforeTenant, BeforeUser
<1>12. NoOrphans'
  BY <1>1, <1>9, NobodyLeft
<1> QED
  BY <1>6, <1>8, <1>9, <1>11, <1>12

\* A company goes with all that belongs to it, and with the users of no other.
LEMMA CompanyDeleted ==
  ASSUME DataInv, NEW t \in Calls, DeleteCommit(t)
  PROVE  DataInv'
<1> USE DEF DataInv
<1> DEFINE x == call[t].arg
           gone == call[t].exclusive
<1>1. call[t].pc = "count" /\ call[t].left = {} /\ x \in DOMAIN tenants
  BY DEF DeleteCommit, AtCall
<1>2. /\ tenants' = Restrict(tenants, DOMAIN tenants \ {x}) /\ subscribed' = subscribed \ {x}
      /\ users' = Restrict(users, DOMAIN users \ gone)
      /\ members' = Without(members, gone, x) /\ openSessions' = Without(openSessions, gone, x)
      /\ profiles' = profiles \ gone
      /\ excused' = excused \union ((AddedSince(t) \union DeletedTwice(t)) \ gone)
      /\ call' = [call EXCEPT ![t] = DoneTask] /\ estado' = estado /\ joined' = joined
  BY DEF DeleteCommit, EndCall
<1>3. DOMAIN tenants' = DOMAIN tenants \ {x} /\ \A y \in DOMAIN tenants' : tenants'[y] = tenants[y]
  BY <1>2 DEF Restrict
<1>4. DOMAIN users' = DOMAIN users \ gone /\ \A u \in DOMAIN users' : users'[u] = users[u]
  BY <1>2 DEF Restrict
<1> HIDE DEF gone, x
<1>5. members' = {m \in members : m.user \notin gone /\ m.tenant # x}
      /\ openSessions' = {s \in openSessions : s.user \notin gone /\ s.tenant # x}
  BY <1>2 DEF Without
<1>6. members' \union openSessions' \subseteq [user : DOMAIN users', tenant : DOMAIN tenants']
  BY <1>3, <1>4, <1>5 DEF TablesTyped, TenancyTypeOK
<1>7. TablesTyped'
  BY <1>2, <1>3, <1>4, <1>6 DEF TablesTyped, TenancyTypeOK
<1>8. PrefixOwned'
  BY <1>3 DEF PrefixOwned
<1>9. CallsTyped' /\ call'[t] = DoneTask /\ \A c \in Calls : c # t => call'[c] = call[c]
  BY <1>2, IdleTyped, CallGoesOn
<1>10. call'[t].pc = "done"
  BY <1>9, IdleTyped
<1>11. IdsNew'
  <2>1. \A c \in Calls : call'[c].pc # "done" => c # t /\ call'[c] = call[c]
    BY <1>9, <1>10
  <2> QED
    BY <1>3, <1>4, <2>1 DEF IdsNew, AtCall, BeforeTenant, BeforeUser
<1>12. \A u : TenantsOf(u)' \subseteq TenantsOf(u)
  BY <1>5 DEF TenantsOf
<1>13. ASSUME NEW u, u \notin gone, NEW y \in TenantsOf(u), y # x PROVE y \in TenantsOf(u)'
  BY <1>5, <1>13 DEF TenantsOf
<1>14. ListsSound'
  <2> SUFFICES ASSUME NEW c \in Calls, call'[c].pc = "count", call'[c].arg \in DOMAIN tenants'
      PROVE  /\ \A u \in DOMAIN users' \cap (call'[c].left \union call'[c].kept) :
                  u \in excused' \/ call'[c].arg \in TenantsOf(u)'
             /\ \A u \in DOMAIN users' \cap call'[c].kept :
                  u \in excused' \/ TenantsOf(u)' \ {call'[c].arg} # {}
             /\ \A u \in call'[c].exclusive : u \in joined' \/ TenantsOf(u)' \subseteq {call'[c].arg}
    BY DEF ListsSound, AtCall
  <2>1. PICK y : y = call[c].arg
    OBVIOUS
  <2>2. call'[c] = call[c] /\ y \in DOMAIN tenants /\ y # x /\ call[c].pc = "count"
    BY <1>3, <1>9, <1>10, <2>1
  <2>3. /\ \A u \in DOMAIN users \cap (call[c].left \union call[c].kept) : u \in excused \/ y \in TenantsOf(u)
        /\ \A u \in DOMAIN users \cap call[c].kept : u \in excused \/ TenantsOf(u) \ {y} # {}
        /\ \A u \in call[c].exclusive : u \in joined \/ TenantsOf(u) \subseteq {y}
    BY <2>1, <2>2 DEF ListsSound, AtCall
  <2>4. ASSUME NEW u \in DOMAIN users' \cap (call[c].left \union call[c].kept), u \notin excused'
        PROVE  y \in TenantsOf(u)'
    <3>1. u \notin gone /\ u \in DOMAIN users /\ u \notin excused
      BY <1>2, <1>4, <2>4
    <3>2. y \in TenantsOf(u)
      BY <2>3, <2>4, <3>1
    <3> QED
      BY <1>13, <2>2, <3>1, <3>2
  <2>5. ASSUME NEW u \in DOMAIN users' \cap call[c].kept, u \notin excused'
        PROVE  TenantsOf(u)' \ {y} # {}
    <3>1. u \notin gone /\ u \in DOMAIN users /\ u \notin excused
      BY <1>2, <1>4, <2>5
    <3>2. PICK z \in TenantsOf(u) : z # y
      BY <2>3, <3>1
    <3>3. CASE z # x
      BY <1>13, <3>1, <3>2, <3>3
    <3>4. CASE z = x
      <4>1. u \in UsersOf(x) /\ u \in UsersOf(y)
        <5>1. y \in TenantsOf(u)
          BY <2>3, <3>1
        <5> QED
          BY <3>4, <5>1 DEF TenantsOf, UsersOf
      <4>2. u \in DeletedTwice(t)
        BY <2>1, <2>2, <4>1 DEF DeletedTwice, AtCall, x
      <4> QED
        BY <1>2, <2>5, <3>1, <4>2
    <3> QED
      BY <3>3, <3>4
  <2>6. \A u \in call[c].exclusive : u \in joined' \/ TenantsOf(u)' \subseteq {y}
    BY <1>2, <1>12, <2>3
  <2> QED
    BY <2>1, <2>2, <2>4, <2>5, <2>6
<1>15. \A m \in members : m.user \in DOMAIN users' =>
         m.user \in excused' \/ \E n \in members' : n.user = m.user
  <2> SUFFICES ASSUME NEW m \in members, m.user \in DOMAIN users', m.user \notin excused',
                      \A n \in members' : n.user # m.user
               PROVE  FALSE
    OBVIOUS
  <2>1. PICK u : u = m.user
    OBVIOUS
  <2>2. u \notin gone /\ u \in DOMAIN users /\ u \notin excused
    BY <1>2, <1>4, <2>1
  <2>3. TenantsOf(u)' = {}
    BY <2>1 DEF TenantsOf
  <2>4. TenantsOf(u) = {x}
    <3>1. m.tenant \in TenantsOf(u)
      BY <2>1 DEF TenantsOf
    <3>2. TenantsOf(u) \subseteq {x}
      BY <1>13, <2>2, <2>3
    <3> QED
      BY <3>1, <3>2
  <2>5. u \in UsersOf(x)
    BY <2>4 DEF TenantsOf, UsersOf
  <2>6. CASE u \in call[t].kept
    BY <1>1, <2>2, <2>4, <2>6 DEF ListsSound, AtCall, x
  <2>7. CASE u \notin call[t].kept
    <3>1. u \in AddedSince(t)
      BY <2>4, <2>5, <2>7 DEF AddedSince, x
    <3> QED
      BY <1>2, <2>1, <2>2, <3>1
  <2> QED
    BY <2>6, <2>7
<1>16. NoOrphans'
  BY <1>1, <1>2, <1>4, <1>9, <1>15, NobodyLeft
<1> QED
  BY <1>7, <1>8, <1>9, <1>11, <1>14, <1>16

-----------------------------------------------------------------------------
\* Steps outside a call.

\* The steps that write a table.
LEMMA TablesChange ==
  ASSUME DataInv,
         \/ \E d \in Demos : CreateDemoRequest(d) \/ UpdateDemoRequestStatus(d)
         \/ \E x \in DOMAIN tenants : Subscribe(x)
         \/ \E m \in members : RemoveMember(m) \/ SignIn(m)
         \/ \E s \in openSessions : SignOut(s)
         \/ \E u \in DOMAIN users : ToggleStatus(u) \/ EraseUserData(u)
  PROVE  DataInv'
<1> USE DEF DataInv
<1>1. UNCHANGED <<tenants, call, profiles>>
  BY DEF CreateDemoRequest, UpdateDemoRequestStatus, Subscribe, RemoveMember, SignIn, SignOut,
         ToggleStatus, EraseUserData
<1>2. members' \subseteq members /\ excused \subseteq excused'
      /\ \A m \in members : m \in members' \/ m.user \in excused'
  BY DEF CreateDemoRequest, UpdateDemoRequestStatus, Subscribe, RemoveMember, SignIn, SignOut,
         ToggleStatus, EraseUserData
<1>3. openSessions' \subseteq openSessions \union members
  BY DEF CreateDemoRequest, UpdateDemoRequestStatus, Subscribe, RemoveMember, SignIn, SignOut,
         ToggleStatus, EraseUserData
<1>4. subscribed' \subseteq DOMAIN tenants'
  BY DEF CreateDemoRequest, UpdateDemoRequestStatus, Subscribe, RemoveMember, SignIn, SignOut,
         ToggleStatus, EraseUserData, TablesTyped, TenancyTypeOK
<1>5. estado' \in [Demos -> EstadoValues \union {Nobody}]
  BY DEF CreateDemoRequest, UpdateDemoRequestStatus, Subscribe, RemoveMember, SignIn, SignOut,
         ToggleStatus, EraseUserData, TablesTyped, TenancyTypeOK, EstadoValues
<1>6. DOMAIN users' = DOMAIN users /\ \A u \in DOMAIN users' : users'[u] \in UserRows
  <2>1. CASE \E u \in DOMAIN users : ToggleStatus(u)
    <3>1. PICK u \in DOMAIN users : users' = [users EXCEPT ![u].active = ~@]
      BY <2>1 DEF ToggleStatus
    <3> DEFINE row == [users[u] EXCEPT !.active = ~@]
    <3>2. users' = [users EXCEPT ![u] = row]
      BY <3>1
    <3>3. users[u] \in UserRows
      BY DEF TablesTyped, TenancyTypeOK
    <3>4. row \in UserRows
      BY <3>3 DEF UserRows
    <3> HIDE DEF row
    <3> QED
      BY <3>2, <3>4 DEF TablesTyped, TenancyTypeOK
  <2>2. CASE \E u \in DOMAIN users : EraseUserData(u)
    <3>1. PICK u \in DOMAIN users : users[u].email \in Emails
                /\ users' = [users EXCEPT ![u] = [email |-> Erased(@.email), active |-> FALSE]]
      BY <2>2 DEF EraseUserData
    <3> DEFINE row == [email |-> Erased(users[u].email), active |-> FALSE]
    <3>2. users' = [users EXCEPT ![u] = row]
      BY <3>1
    <3>3. row \in UserRows
      BY <3>1 DEF UserRows
    <3> HIDE DEF row
    <3> QED
      BY <3>2, <3>3 DEF TablesTyped, TenancyTypeOK
  <2>3. CASE users' = users
    BY <2>3 DEF TablesTyped, TenancyTypeOK
  <2> QED
    BY <2>1, <2>2, <2>3
    DEF CreateDemoRequest, UpdateDemoRequestStatus, Subscribe, RemoveMember, SignIn, SignOut
<1>7. TablesTyped'
  BY <1>1, <1>2, <1>3, <1>4, <1>5, <1>6 DEF TablesTyped, TenancyTypeOK
<1>8. PrefixOwned' /\ CallsTyped'
  BY <1>1 DEF PrefixOwned, CallsTyped, CallTyped
<1>9. IdsNew' /\ ListsSound'
  <2>1. joined \subseteq joined'
    BY DEF CreateDemoRequest, UpdateDemoRequestStatus, Subscribe, RemoveMember, SignIn, SignOut,
           ToggleStatus, EraseUserData
  <2> QED
    BY <1>1, <1>2, <1>6, <2>1, ListsKeptAtRest
<1>10. NoOrphans'
  <2> SUFFICES ASSUME NEW u \in DOMAIN users', u \notin excused'
               PROVE  TenantsOf(u)' # {} \/ (u \in Calls /\ AtCall(u, "member")')
    BY DEF NoOrphans
  <2>1. TenantsOf(u)' # {} <=> \E m \in members' : m.user = u
    BY DEF TenantsOf
  <2> QED
    BY <1>1, <1>2, <1>6, <2>1, HasTenant DEF NoOrphans, AtCall
<1> QED
  BY <1>7, <1>8, <1>9, <1>10

\* A user gets a company more.
LEMMA UserJoins ==
  ASSUME DataInv, NEW u \in DOMAIN users, NEW x \in DOMAIN tenants, UpsertMembership(u, x)
  PROVE  DataInv'
<1> USE DEF DataInv
<1>1. /\ members' = members \union {[user |-> u, tenant |-> x]} /\ Joins(u)
      /\ UNCHANGED <<tenants, subscribed, users, profiles, openSessions, estado, call, excused>>
  BY DEF UpsertMembership
<1>2. TablesTyped'
  <2>1. [user |-> u, tenant |-> x] \in [user : DOMAIN users, tenant : DOMAIN tenants]
    OBVIOUS
  <2> QED
    BY <1>1, <2>1 DEF TablesTyped, TenancyTypeOK
<1>3. PrefixOwned' /\ CallsTyped'
  BY <1>1 DEF PrefixOwned, CallsTyped, CallTyped
<1>4. IdsNew' /\ ListsSound'
  <2>1. /\ joined \subseteq joined'
        /\ u \in joined' \/ \A c \in Calls : call[c].pc = "count" => u \notin call[c].exclusive
    BY <1>1 DEF Joins, AtCall
  <2>2. \A m \in members' : \/ m \in members \/ m.user \in joined'
                           \/ \A c \in Calls : call[c].pc = "count" => m.user \notin call[c].exclusive
    BY <1>1, <2>1
  <2> QED
    BY <1>1, <2>1, <2>2, ListsKeptAtRest
<1>5. NoOrphans'
  <2>1. \A v : TenantsOf(v) \subseteq TenantsOf(v)'
    BY <1>1 DEF TenantsOf
  <2> QED
    BY <1>1, <2>1 DEF NoOrphans, AtCall
<1> QED
  BY <1>2, <1>3, <1>4, <1>5

\* Every step of a call keeps the tables and the calls right.
LEMMA CallsNext == DataInv /\ CallNext => DataInv'
<1> SUFFICES ASSUME DataInv, CallNext PROVE DataInv'
  OBVIOUS
<1>1. CASE \/ \E d \in Demos : CreateDemoRequest(d) \/ UpdateDemoRequestStatus(d)
           \/ \E x \in DOMAIN tenants : Subscribe(x)
           \/ \E m \in members : RemoveMember(m) \/ SignIn(m)
           \/ \E s \in openSessions : SignOut(s)
           \/ \E u \in DOMAIN users : ToggleStatus(u) \/ EraseUserData(u)
  BY <1>1, TablesChange
<1>2. ASSUME NEW t \in Calls,
             \/ ConvertRead(t) \/ Convert(t) \/ AbortCall(t)
             \/ CompanyTenant(t) \/ CompanyUser(t) \/ CompanyMember(t)
             \/ CompanyProfile(t) \/ CompanyPlan(t)
             \/ DeleteRead(t) \/ DeleteCount(t) \/ DeleteCommit(t)
             \/ CreateUser(t) \/ CompleteRead(t) \/ CompleteWrite(t)
      PROVE  DataInv'
  BY <1>2, CallsStart, Converted, CompanyBegins, CompanyGetsUser, CompanyGetsMember, CompanyCompleted,
     DeletionStarts, DeletionCounts, CompanyDeleted, UserCreated, CompanyOnboarded
<1>3. ASSUME NEW u \in DOMAIN users, NEW x \in DOMAIN tenants, UpsertMembership(u, x) PROVE DataInv'
  BY <1>3, UserJoins
<1> QED
  BY <1>1, <1>2, <1>3 DEF CallNext

-----------------------------------------------------------------------------
\* The access review.

\* Rows of members and sessions are no ids.
LEMMA ProblemsApart ==
  ASSUME TablesTyped
  PROVE  /\ InactiveWithAccess \subseteq Ids
         /\ \A s \in InactiveWithSession : s \notin Ids /\ s.user \in DOMAIN users
                                           /\ ~users[s.user].active /\ s \in openSessions
         /\ \A u \in InactiveWithAccess : u \in DOMAIN users /\ ~users[u].active
                                          /\ \E m \in members : m.user = u
<1>1. \A s \in openSessions : s \in [user : Staff \union Calls, tenant : Calls \union {Home}]
                              /\ s.user \in DOMAIN users
  BY MemberIds DEF Ids, TenantIds
<1>2. \A s \in openSessions : s \notin Ids
  BY <1>1, TenancyAssumption DEF Ids
<1> QED
  BY <1>1, <1>2, HasTenant DEF InactiveWithAccess, InactiveWithSession, TablesTyped

\* What else happens only takes from the problems that were there all the time.
LEMMA ReviewWaits ==
  ASSUME ReviewSound, review' = review, persistent' \subseteq persistent,
         review.pc = "reading" => persistent' \subseteq (InactiveWithAccess \union InactiveWithSession)'
  PROVE  ReviewSound'
<1>1. CASE review.pc = "reading"
  BY <1>1 DEF ReviewSound, ReviewFindsThem
<1>2. CASE review.pc # "reading"
  BY <1>2 DEF ReviewSound, ReviewFindsThem
<1> QED
  BY <1>1, <1>2

\* A review starts with nothing looked at.
LEMMA ReviewBegins ==
  ASSUME ReviewStart
  PROVE  ReviewSound'
<1>1. review' = [pc |-> "reading", users |-> Nobody, members |-> Nobody, sessions |-> Nobody]
  BY DEF ReviewStart
<1>2. persistent' = (InactiveWithAccess \union InactiveWithSession)'
  BY DEF ReviewStart, database, InactiveWithAccess, InactiveWithSession, TenantsOf
<1> QED
  BY <1>1, <1>2 DEF ReviewSound, ReviewFindsThem

\* Each step of a review keeps what it has seen in view.
LEMMA ReviewGoesOn ==
  ASSUME TenancyInv, Review
  PROVE  ReviewSound'
<1> USE DEF TenancyInv, DataInv
<1> DEFINE r == review
<1>1. /\ r.pc = "reading"
      /\ r = [pc |-> "reading", users |-> r.users, members |-> r.members, sessions |-> r.sessions]
      /\ persistent \subseteq InactiveWithAccess \union InactiveWithSession
  BY DEF Review, ReviewUsers, ReviewMembers, ReviewSessions, ReviewRecord, ReviewSound
<1>2. persistent' = persistent /\ (InactiveWithAccess \union InactiveWithSession)'
                                  = InactiveWithAccess \union InactiveWithSession
  BY DEF Review, database, InactiveWithAccess, InactiveWithSession, TenantsOf
<1>3. /\ \A e \in persistent : e \in Ids => /\ e \in DOMAIN users /\ ~users[e].active
                                            /\ \E m \in members : m.user = e
      /\ \A e \in persistent : e \notin Ids => /\ e.user \in DOMAIN users /\ ~users[e.user].active
                                               /\ e \in openSessions
  BY <1>1, ProblemsApart
<1>4. /\ r.users # Nobody => \A e \in persistent :
              IF e \in Ids THEN e \in DOMAIN r.users /\ ~r.users[e].active
              ELSE e.user \in DOMAIN r.users /\ ~r.users[e.user].active
      /\ r.members # Nobody => \A e \in persistent \cap Ids : \E m \in r.members : m.user = e
      /\ r.sessions # Nobody => persistent \ Ids \subseteq r.sessions
  BY <1>1 DEF ReviewSound
<1>5. CASE ReviewUsers
  <2>1. review' = [pc |-> "reading", users |-> users, members |-> r.members, sessions |-> r.sessions]
    BY <1>1, <1>5 DEF ReviewUsers
  <2> HIDE DEF r
  <2>2. review'.pc = "reading" /\ review'.users = users /\ review'.members = r.members
        /\ review'.sessions = r.sessions
        /\ review' = [pc |-> "reading", users |-> review'.users, members |-> review'.members,
                      sessions |-> review'.sessions]
    BY <2>1
  <2> QED
    BY <1>1, <1>2, <1>3, <1>4, <2>2 DEF ReviewSound, ReviewFindsThem
<1>6. CASE ReviewMembers
  <2>1. review' = [pc |-> "reading", users |-> r.users, members |-> members, sessions |-> r.sessions]
    BY <1>1, <1>6 DEF ReviewMembers
  <2> HIDE DEF r
  <2>2. review'.pc = "reading" /\ review'.users = r.users /\ review'.members = members
        /\ review'.sessions = r.sessions
        /\ review' = [pc |-> "reading", users |-> review'.users, members |-> review'.members,
                      sessions |-> review'.sessions]
    BY <2>1
  <2> QED
    BY <1>1, <1>2, <1>3, <1>4, <2>2 DEF ReviewSound, ReviewFindsThem
<1>7. CASE ReviewSessions
  <2>1. review' = [pc |-> "reading", users |-> r.users, members |-> r.members, sessions |-> openSessions]
    BY <1>1, <1>7 DEF ReviewSessions
  <2> HIDE DEF r
  <2>2. review'.pc = "reading" /\ review'.users = r.users /\ review'.members = r.members
        /\ review'.sessions = openSessions
        /\ review' = [pc |-> "reading", users |-> review'.users, members |-> review'.members,
                      sessions |-> review'.sessions]
    BY <2>1
  <2> QED
    BY <1>1, <1>2, <1>3, <1>4, <2>2 DEF ReviewSound, ReviewFindsThem
<1>8. CASE ReviewRecord
  <2>1. r.users # Nobody /\ r.members # Nobody /\ r.sessions # Nobody
        /\ review' = [pc |-> "recorded", access |-> WithAccess(r), session |-> WithSession(r)]
    BY <1>8 DEF ReviewRecord
  <2>2. \A e \in persistent : e \in Ids => e \in WithAccess(r)
    BY <1>4, <2>1 DEF WithAccess
  <2>3. \A e \in persistent : e \notin Ids => e \in WithSession(r)
    BY <1>4, <2>1 DEF WithSession
  <2> HIDE DEF r
  <2>4. review'.pc = "recorded" /\ review'.access = WithAccess(r) /\ review'.session = WithSession(r)
    BY <2>1
  <2> QED
    BY <1>2, <2>2, <2>3, <2>4 DEF ReviewSound, ReviewFindsThem
<1> QED
  BY <1>5, <1>6, <1>7, <1>8 DEF Review

\* Every step, and every stutter, keeps the invariant.
LEMMA TenancySteps == TenancyInv /\ [TenancyNext]_tenancyVars => TenancyInv'
<1> SUFFICES ASSUME TenancyInv, [TenancyNext]_tenancyVars PROVE TenancyInv'
  OBVIOUS
<1> USE DEF TenancyInv
<1>1. CASE CallNext /\ callMix' = callMix
             /\ persistent' = persistent \cap (InactiveWithAccess \union InactiveWithSession)'
  <2>1. review' = review
    BY <1>1 DEF CallNext, CreateDemoRequest, UpdateDemoRequestStatus, Subscribe, RemoveMember, SignIn,
       SignOut, ToggleStatus, EraseUserData, ConvertRead, Convert, AbortCall, CompanyTenant, CompanyUser,
       CompanyMember, CompanyProfile, CompanyPlan, DeleteRead, DeleteCount, DeleteCommit, CreateUser,
       CompleteRead, CompleteWrite, UpsertMembership
  <2>2. ReviewSound'
    BY <1>1, <2>1, ReviewWaits
  <2> QED
    BY <1>1, <2>2, CallsNext
<1>2. ASSUME UNCHANGED <<database, call, excused, joined>> PROVE DataInv'
  <2>1. /\ tenants' = tenants /\ subscribed' = subscribed /\ users' = users /\ members' = members
        /\ profiles' = profiles /\ openSessions' = openSessions /\ estado' = estado
        /\ call' = call /\ excused' = excused /\ joined' = joined
    BY <1>2 DEF database
  <2>2. \A u : TenantsOf(u)' = TenantsOf(u)
    BY <2>1 DEF TenantsOf
  <2>3. TablesTyped' /\ CallsTyped'
    BY <2>1 DEF DataInv, TablesTyped, TenancyTypeOK, CallsTyped, CallTyped
  <2>4. PrefixOwned' /\ IdsNew'
    BY <2>1 DEF DataInv, PrefixOwned, IdsNew, AtCall
  <2>5. ListsSound'
    BY <2>1, <2>2 DEF DataInv, ListsSound, AtCall
  <2>6. NoOrphans'
    BY <2>1, <2>2 DEF DataInv, NoOrphans, AtCall
  <2> QED
    BY <2>3, <2>4, <2>5, <2>6 DEF DataInv
<1>3. CASE ReviewStart
  BY <1>2, <1>3, ReviewBegins DEF ReviewStart
<1>4. CASE Review
  BY <1>2, <1>4, ReviewGoesOn DEF Review
<1>5. CASE UNCHANGED tenancyVars
  <2>1. ReviewSound'
    BY <1>5 DEF tenancyVars, database, ReviewSound, ReviewFindsThem, InactiveWithAccess,
       InactiveWithSession, TenantsOf
  <2> QED
    BY <1>2, <1>5, <2>1 DEF tenancyVars
<1> QED
  BY <1>1, <1>3, <1>4, <1>5 DEF TenancyNext

\* Rows keep their types and refer to rows that exist, whatever is deleted.
THEOREM TablesConsistent == TenancySpec => []TenancyTypeOK
<1>1. TenancyInv => TenancyTypeOK
  BY DEF TenancyInv, DataInv, TablesTyped
<1> QED
  BY TenancyStarts, TenancySteps, <1>1, PTL DEF TenancySpec

\* A demo request becomes one company at most, for any number of conversions at
\* once and however its status is set back (OneCompanyPerDemo).
THEOREM DemosConvertedOnce == TenancySpec => []OneCompanyPerDemo
<1>1. TenancyInv => OneCompanyPerDemo
  BY DEF TenancyInv, DataInv, PrefixOwned, OneCompanyPerDemo
<1> QED
  BY TenancyStarts, TenancySteps, <1>1, PTL DEF TenancySpec

\* The deletion of a company leaves no account without one, but for users added
\* while it was under way and users of two companies deleted at once (NoOrphans).
THEOREM NobodyOrphaned == TenancySpec => []NoOrphans
<1>1. TenancyInv => NoOrphans
  BY DEF TenancyInv, DataInv
<1> QED
  BY TenancyStarts, TenancySteps, <1>1, PTL DEF TenancySpec

\* Users are only deleted by DeleteCommit: those its lookups found in no other
\* company, and who are in none but the deleted one unless they joined since.
LEMMA SharedUsersKept ==
    TenancyInv /\ [TenancyNext]_tenancyVars
    => \A u \in DOMAIN users \ DOMAIN users' :
          u \in joined \/ \A x \in TenantsOf(u) : x \notin DOMAIN tenants'
<1> SUFFICES ASSUME TenancyInv, [TenancyNext]_tenancyVars, NEW u \in DOMAIN users, u \notin DOMAIN users'
             PROVE u \in joined \/ \A x \in TenantsOf(u) : x \notin DOMAIN tenants'
  OBVIOUS
<1> USE DEF TenancyInv, DataInv
<1>1. ASSUME NEW t \in Calls, DeleteCommit(t)
      PROVE u \in joined \/ \A x \in TenantsOf(u) : x \notin DOMAIN tenants'
  <2>1. AtCall(t, "count") /\ call[t].arg \in DOMAIN tenants
        /\ DOMAIN tenants' = DOMAIN tenants \ {call[t].arg}
        /\ DOMAIN users' = DOMAIN users \ call[t].exclusive
    BY <1>1 DEF DeleteCommit, Restrict
  <2>2. u \in call[t].exclusive
    BY <2>1
  <2>3. u \in joined \/ TenantsOf(u) \subseteq {call[t].arg}
    BY <2>1, <2>2 DEF ListsSound
  <2> QED
    BY <2>1, <2>3
<1>2. ASSUME NEW t \in Calls, CompanyUser(t) \/ Convert(t) \/ CreateUser(t) PROVE FALSE
  BY <1>2 DEF CompanyUser, Convert, CreateUser, AddUser, Inserted
<1>3. ASSUME NEW v \in DOMAIN users, ToggleStatus(v) \/ EraseUserData(v) PROVE FALSE
  BY <1>3 DEF ToggleStatus, EraseUserData
<1>4. ASSUME UNCHANGED users PROVE FALSE
  BY <1>4
<1>5. CASE CallNext
  BY <1>1, <1>2, <1>3, <1>4, <1>5 DEF CallNext, CreateDemoRequest, UpdateDemoRequestStatus, Subscribe,
     RemoveMember, SignIn, SignOut, ConvertRead, AbortCall, CompanyTenant, CompanyMember, CompanyProfile,
     CompanyPlan, DeleteRead, DeleteCount, CompleteRead, CompleteWrite, UpsertMembership, database
<1> QED
  BY <1>4, <1>5 DEF TenancyNext, ReviewStart, Review, tenancyVars, database

\* The deletion of a company takes no account away from a company that stays,
\* unless the account joined it after the deletion had looked (SharedStay).
THEOREM SharedUsersStay == TenancySpec => SharedStay
<1> QED
  BY TenancyStarts, TenancySteps, SharedUsersKept, PTL DEF TenancySpec, SharedStay

\* The access review finds what was wrong all the time, in whatever order its
\* tables are read, as long as memberships come after users (ReviewFindsThem).
THEOREM ReviewFinds == TenancySpec => []ReviewFindsThem
<1>1. TenancyInv => ReviewFindsThem
  BY DEF TenancyInv, ReviewSound
<1> QED
  BY TenancyStarts, TenancySteps, <1>1, PTL DEF TenancySpec

\* Requests about accounts and about companies leave the rows of both with the
\* types and the references they had (PeopleTypeOK).
THEOREM PeopleTyped == AccountSpec /\ TenancySpec => []PeopleTypeOK
<1>1. AccountTypeOK /\ TenancyTypeOK => PeopleTypeOK
  BY DEF PeopleTypeOK
<1> QED
  BY <1>1, AccountTyped, TablesConsistent, PTL
=============================================================================
