------------------------------ MODULE Accounts ------------------------------
(***************************************************************************)
(* One account: the rows User and UserSecurityProfile, its memberships,    *)
(* its sessions with their refresh tokens, and the handlers of the modules *)
(* auth and users that touch them (src/src/modules/auth, .../users).       *)
(* Accounts share no row, so one is modelled.                              *)
(*                                                                         *)
(* Every request reads the account, awaits, and writes what it computed    *)
(* from the copy it read: `seen' is that copy.  Statements of the database *)
(* are atomic, and so are the arrays given to $transaction.                *)
(***************************************************************************)
EXTENDS Naturals, Sequences, SequencesExt

CONSTANTS
    Tasks,        \* requests served at the same time
    Mixes,        \* the sets of kinds of request an instance explores
    Tenants, Devices, Secrets, Passwords,
    None,         \* null
    Threshold,    \* failedAttemptsThreshold of the password policy
    HistorySize,  \* passwords kept in passwordHistory
    TrustLimit,   \* trusted fingerprints kept by a sign-in
    Expiry,       \* ticks until a password expires
    MaxSessions, MaxFails, MaxTime, MaxCutoffs  \* bounds of an instance

ASSUME AccountsAssumption ==
    /\ None \notin Tenants \union Devices \union Secrets \union Passwords
    /\ {Threshold, HistorySize, TrustLimit, Expiry} \subseteq Nat \ {0}
    /\ {MaxSessions, MaxFails, MaxTime, MaxCutoffs} \subseteq Nat

VARIABLES
    user,         \* the User row
    profile,      \* the UserSecurityProfile row
    memberships,  \* tenants of the account, oldest membership first
    sessions,     \* UserSession rows, each with the refresh token issued for it
    mail,         \* emailVerified and emailVerificationToken
    links,        \* reset links mailed and not expired, by time of issue
    forced,       \* is a token of action force_password_change in use
    now,          \* ticks, each longer than a second
    task,
    mix,          \* the kinds of request made in this behaviour
    \* history of the account, read by properties only
    fails,        \* failed sign-ins booked so far
    cutoffs,      \* resets by link and erasures so far
    raced,        \* was a sign-in under way during one of them
    setBy         \* the kind of request that set the password

accountVars == <<user, profile, memberships, sessions, mail, links, forced, now, task, mix,
          fails, cutoffs, raced, setBy>>
ghosts == <<fails, cutoffs, raced, setBy>>
-----------------------------------------------------------------------------
IdleTask == [pc |-> "idle", seen |-> None, arg |-> None, session |-> 0, cred |-> 0]

\* What findUnique returns with its includes: the columns a sign-in uses later,
\* and those a change of password does.
Account ==
    [status |-> user.status, consent |-> user.consent, memberships |-> memberships,
     resetRequired |-> profile.resetRequired, stamp |-> profile.stamp,
     trusted |-> profile.trusted]
Password == [password |-> user.password, history |-> profile.history]

At(t, pc) == task[t].pc = pc
Seen(t) == task[t].seen
Goto(t, pc) == task' = [task EXCEPT ![t].pc = pc]
End(t) == task' = [task EXCEPT ![t] = IdleTask]
Carry(t, pc, seen, arg, session, cred) ==
    task' = [task EXCEPT ![t] = [pc |-> pc, seen |-> seen, arg |-> arg,
                                 session |-> session, cred |-> cred]]

\* A request of an enabled kind reads the columns `copy'.
Start(t, kind, pc, copy, arg, cred) ==
    /\ kind \in mix
    /\ At(t, "idle")
    /\ Carry(t, pc, copy, arg, 0, cred)

\* As createUser leaves the account: a first password that must be changed.
AccountInit ==
    /\ \E p \in Passwords :
         user = [status |-> "active", password |-> p, consent |-> FALSE, erased |-> FALSE]
    /\ profile = [attempts |-> 0, locked |-> FALSE, resetRequired |-> TRUE,
                  requestedAt |-> None, history |-> <<>>, stamp |-> None,
                  secret |-> None, enabled |-> FALSE, required |-> FALSE, trusted |-> <<>>]
    /\ \E n \in Tenants : memberships = <<n>>
    /\ sessions = <<>>
    /\ mail = [verified |-> FALSE, token |-> 0]
    /\ links = {} /\ forced = FALSE /\ now = 0
    /\ task = [t \in Tasks |-> IdleTask] /\ mix \in Mixes
    /\ fails = 0 /\ cutoffs = 0 /\ raced = FALSE /\ setBy = "create"
-----------------------------------------------------------------------------
\* AuthService.login.

\* isPasswordExpired; a profile without a date never expires.
Expired(p) == p.stamp # None /\ p.stamp + Expiry <= now

\* The account is found by email, active and not locked, and the password is
\* compared with the hash that was read.
LoginRead(t) ==
    /\ ~user.erased /\ user.status = "active" /\ ~profile.locked
    /\ \/ /\ fails < MaxFails
          /\ Start(t, "guess", "wrong", profile.attempts, None, 0)
       \/ /\ user.password # None /\ memberships # <<>>
          /\ \E accepts \in BOOLEAN, d \in Devices,
                code \in IF profile.enabled THEN Secrets ELSE {None} :
               Start(t, "login", IF profile.enabled THEN "totp" ELSE "checked", Account,
                     [accepts |-> accepts, code |-> code, device |-> d], cutoffs)
    /\ UNCHANGED <<user, profile, memberships, sessions, mail, links, forced, now, ghosts>>

\* Mutant: the lock falls one attempt early.
NextAttempts_Early(read) == read + 2
NextAttempts(read) == read + 1

\* markFailedLogin: count and lock are computed from the copy that was read.
LoginFails(t) ==
    /\ At(t, "wrong")
    /\ LET attempts == NextAttempts(Seen(t))
       IN  profile' = [profile EXCEPT !.attempts = attempts,
                                      !.locked = attempts >= Threshold]
    /\ fails' = fails + 1
    /\ End(t)
    /\ UNCHANGED <<user, memberships, sessions, mail, links, forced, now, cutoffs, raced, setBy>>

\* verifyTotp reads the profile again.
LoginTotp(t) ==
    /\ At(t, "totp")
    /\ IF profile.secret = None \/ ~profile.enabled \/ task[t].arg.code = profile.secret
       THEN Goto(t, "checked")
       ELSE End(t)
    /\ UNCHANGED <<user, profile, memberships, sessions, mail, links, forced, now, ghosts>>

\* A password that must be changed is answered with a token for that; otherwise
\* an accepted policy is stored before the sign-in is issued.
LoginProceeds(t) ==
    /\ At(t, "checked")
    /\ IF Expired(Seen(t)) \/ Seen(t).resetRequired
       THEN forced' = TRUE /\ End(t) /\ UNCHANGED user
       ELSE /\ user' = [user EXCEPT !.consent = @ \/ task[t].arg.accepts]
            /\ Carry(t, "issue", [Seen(t) EXCEPT !.consent = @ \/ task[t].arg.accepts],
                     task[t].arg, 0, task[t].cred)
            /\ UNCHANGED forced
    /\ UNCHANGED <<profile, memberships, sessions, mail, links, now, ghosts>>

\* completeOAuthLogin: an account with the provider's email, nothing else asked.
OAuthRead(t) ==
    /\ ~user.erased
    /\ \E d \in Devices :
         Start(t, "oauth", "issue", Account, [accepts |-> FALSE, code |-> None, device |-> d], cutoffs)
    /\ UNCHANGED <<user, profile, memberships, sessions, mail, links, forced, now, ghosts>>

\* refresh: the token is found usable, then marked revoked by its id.
RefreshRead(t) ==
    \E s \in DOMAIN sessions, d \in Devices :
       /\ sessions[s].token = "live"
       /\ "refresh" \in mix /\ At(t, "idle")
       /\ Carry(t, "rotate", Account, [accepts |-> FALSE, code |-> None, device |-> d],
                s, sessions[s].cred)
       /\ UNCHANGED <<user, profile, memberships, sessions, mail, links, forced, now, ghosts>>

RefreshRotate(t) ==
    /\ At(t, "rotate")
    /\ sessions' = [sessions EXCEPT ![task[t].session].token = "revoked"]
    /\ Carry(t, "issue", Seen(t), task[t].arg, 0, task[t].cred)
    /\ UNCHANGED <<user, profile, memberships, mail, links, forced, now, ghosts>>
-----------------------------------------------------------------------------
\* issueAuthResponse, one action per statement.

MayIssue(a) == a.status = "active" /\ a.memberships # <<>>

\* Mutant: the privacy policy need not be accepted.
Consented_Skip(a) == TRUE
Consented(a) == a.consent

\* createSession, for the oldest membership.  Without consent the request ends
\* here, its session stays.
IssueSession(t) ==
    /\ At(t, "issue")
    /\ IF MayIssue(Seen(t))
       THEN /\ Len(sessions) < MaxSessions
            /\ sessions' = Append(sessions,
                 [tenant |-> Head(Seen(t).memberships), device |-> task[t].arg.device,
                  open |-> TRUE, token |-> "none", cred |-> task[t].cred])
            /\ IF Consented(Seen(t))
               THEN Carry(t, "profile", Seen(t), task[t].arg, Len(sessions) + 1, task[t].cred)
               ELSE End(t)
       ELSE End(t) /\ UNCHANGED sessions
    /\ UNCHANGED <<user, profile, memberships, mail, links, forced, now, ghosts>>

\* The upsert of the profile: passwordUpdatedAt is written back as it was read.
IssueProfile(t) ==
    /\ At(t, "profile")
    /\ profile' = [profile EXCEPT !.attempts = 0, !.locked = FALSE,
                     !.stamp = IF Seen(t).stamp = None THEN now ELSE Seen(t).stamp]
    /\ Goto(t, "trust")
    /\ UNCHANGED <<user, memberships, sessions, mail, links, forced, now, ghosts>>

\* A new device joins the list that was read.
KeepLast(s, n) == SubSeq(s, IF Len(s) > n THEN Len(s) - n + 1 ELSE 1, Len(s))

IssueTrust(t) ==
    /\ At(t, "trust")
    /\ LET trusted == Seen(t).trusted
           device == task[t].arg.device
       IN  profile' = IF Contains(trusted, device)
                      THEN profile
                      ELSE [profile EXCEPT !.trusted = KeepLast(Append(trusted, device), TrustLimit)]
    /\ Goto(t, "token")
    /\ UNCHANGED <<user, memberships, sessions, mail, links, forced, now, ghosts>>

IssueToken(t) ==
    /\ At(t, "token")
    /\ sessions' = [sessions EXCEPT ![task[t].session].token = "live"]
    /\ End(t)
    /\ UNCHANGED <<user, profile, memberships, mail, links, forced, now, ghosts>>

Issue(t) == IssueSession(t) \/ IssueProfile(t) \/ IssueTrust(t) \/ IssueToken(t)

\* Labels of a request that has been let in and has not been answered.
SigningIn == {"totp", "checked", "rotate", "issue", "profile", "trust", "token"}
-----------------------------------------------------------------------------
\* Passwords.

\* Mutant: the hashes of earlier passwords are not compared.
Reusable_Any(a, p) == p # a.password
Reusable(a, p) == p # a.password /\ ~Contains(a.history, p)

\* An access token is never looked up again, so one issued once will do.
SignedIn == \E s \in DOMAIN sessions : sessions[s].token # "none"

\* changePassword, and changeExpiredPassword with the token of a refused login.
ChangeRead(t) ==
    /\ SignedIn \/ forced
    /\ user.password # None
    /\ \E p \in Passwords : Reusable(Password, p) /\ Start(t, "change", "change", Password, p, 0)
    /\ UNCHANGED <<user, profile, memberships, sessions, mail, links, forced, now, ghosts>>

KeepFirst(s, n) == SubSeq(s, 1, IF Len(s) > n THEN n ELSE Len(s))

ChangeWrite(t) ==
    /\ At(t, "change")
    /\ user' = [user EXCEPT !.password = task[t].arg]
    /\ profile' = [profile EXCEPT !.stamp = now, !.resetRequired = FALSE,
         !.history = KeepFirst(<<Seen(t).password>> \o Seen(t).history, HistorySize)]
    /\ setBy' = "change"
    /\ End(t)
    /\ UNCHANGED <<memberships, sessions, mail, links, forced, now, fails, cutoffs, raced>>

\* forgotPassword: time and link are taken before the profile is written.
ForgotRead(t) ==
    /\ ~user.erased /\ user.status = "active"
    /\ Start(t, "reset", "forgot", None, now, 0)
    /\ UNCHANGED <<user, profile, memberships, sessions, mail, links, forced, now, ghosts>>

ForgotWrite(t) ==
    /\ At(t, "forgot")
    /\ profile' = [profile EXCEPT !.resetRequired = TRUE, !.requestedAt = task[t].arg]
    /\ links' = links \union {task[t].arg}
    /\ End(t)
    /\ UNCHANGED <<user, memberships, sessions, mail, forced, now, ghosts>>

\* resetPassword: the link is not older than the last request for one.
ResetRead(t) ==
    /\ user.status = "active" /\ cutoffs < MaxCutoffs
    /\ \E l \in links, p \in Passwords :
         /\ profile.requestedAt = None \/ l >= profile.requestedAt
         /\ Start(t, "reset", "reset", None, p, 0)
    /\ UNCHANGED <<user, profile, memberships, sessions, mail, links, forced, now, ghosts>>

\* Mutant: only the sessions are revoked.
Closed_SessionOnly(s) == [s EXCEPT !.open = FALSE]
Closed(s) == [s EXCEPT !.open = FALSE, !.token = IF @ = "none" THEN "none" ELSE "revoked"]

\* Every open session and unrevoked token of the account.
CutOff(t) ==
    /\ sessions' = [s \in DOMAIN sessions |-> Closed(sessions[s])]
    /\ cutoffs' = cutoffs + 1
    /\ raced' = (raced \/ \E u \in Tasks \ {t} : task[u].pc \in SigningIn)

ResetWrite(t) ==
    /\ At(t, "reset")
    /\ user' = [user EXCEPT !.password = task[t].arg]
    /\ profile' = [profile EXCEPT !.stamp = now, !.resetRequired = FALSE,
                                  !.requestedAt = None, !.trusted = <<>>]
    /\ CutOff(t)
    /\ setBy' = "reset"
    /\ End(t)
    /\ UNCHANGED <<memberships, mail, links, forced, now, fails>>

-----------------------------------------------------------------------------
\* The other handlers of an account's own user.

\* logout leaves the refresh token as it is.
Logout(s) ==
    /\ "logout" \in mix
    /\ sessions[s].open /\ sessions[s].token # "none"
    /\ sessions' = [sessions EXCEPT ![s].open = FALSE]
    /\ UNCHANGED <<user, profile, memberships, mail, links, forced, now, task, ghosts>>

AcceptPrivacy ==
    /\ "consent" \in mix
    /\ SignedIn \/ forced
    /\ user' = [user EXCEPT !.consent = TRUE]
    /\ UNCHANGED <<profile, memberships, sessions, mail, links, forced, now, task, ghosts>>

\* resendVerificationEmail writes a new token; verifyEmail finds the row by the
\* token and clears whatever token the row has by then.
ResendRead(t) ==
    /\ ~mail.verified
    /\ Start(t, "mail", "resend", None, None, 0)
    /\ UNCHANGED <<user, profile, memberships, sessions, mail, links, forced, now, ghosts>>

ResendWrite(t) ==
    /\ At(t, "resend")
    /\ mail' = [mail EXCEPT !.token = 1]
    /\ End(t)
    /\ UNCHANGED <<user, profile, memberships, sessions, links, forced, now, ghosts>>

VerifyEmail ==
    /\ mail.token # 0
    /\ mail' = [verified |-> TRUE, token |-> 0]
    /\ UNCHANGED <<user, profile, memberships, sessions, links, forced, now, task, ghosts>>

\* TotpService: a new secret switches the second factor off until a code
\* generated from it is confirmed.
SetupTotp ==
    /\ "totp" \in mix
    /\ \E x \in Secrets : profile' = [profile EXCEPT !.secret = x, !.enabled = FALSE]
    /\ UNCHANGED <<user, memberships, sessions, mail, links, forced, now, task, ghosts>>

TotpRead(t) ==
    /\ profile.secret # None
    /\ \E op \in {"confirm", "disable"} : Start(t, "totp", op, None, None, 0)
    /\ UNCHANGED <<user, profile, memberships, sessions, mail, links, forced, now, ghosts>>

TotpWrite(t) ==
    /\ \/ At(t, "confirm") /\ profile' = [profile EXCEPT !.enabled = TRUE]
       \/ At(t, "disable") /\ profile' = [profile EXCEPT !.enabled = FALSE, !.secret = None]
    /\ End(t)
    /\ UNCHANGED <<user, memberships, sessions, mail, links, forced, now, ghosts>>
-----------------------------------------------------------------------------
\* UsersService: the administrators of a tenant of the account.

\* toggleStatus and toggleTwoFactor write the opposite of what they read.
ToggleRead(t) ==
    /\ memberships # <<>>
    /\ \/ Start(t, "toggleStatus", "toggleStatus", user.status, None, 0)
       \/ Start(t, "toggle2fa", "toggle2fa", profile.enabled, None, 0)
    /\ UNCHANGED <<user, profile, memberships, sessions, mail, links, forced, now, ghosts>>

ToggleWrite(t) ==
    /\ \/ /\ At(t, "toggleStatus")
          /\ user' = [user EXCEPT !.status =
                        IF Seen(t) = "active" THEN "inactive" ELSE "active"]
          /\ UNCHANGED profile
       \/ /\ At(t, "toggle2fa")
          /\ profile' = [profile EXCEPT !.enabled = ~Seen(t)]
          /\ UNCHANGED user
    /\ End(t)
    /\ UNCHANGED <<memberships, sessions, mail, links, forced, now, ghosts>>

ForcePasswordReset ==
    /\ "admin" \in mix /\ memberships # <<>>
    /\ profile' = [profile EXCEPT !.resetRequired = TRUE]
    /\ UNCHANGED <<user, memberships, sessions, mail, links, forced, now, task, ghosts>>

\* A random password: it is none of those the account has had.
TempPassword ==
    /\ "temp" \in mix /\ memberships # <<>>
    /\ \E p \in Passwords :
         /\ Reusable(Password, p)
         /\ user' = [user EXCEPT !.password = p]
    /\ profile' = [profile EXCEPT !.resetRequired = TRUE]
    /\ setBy' = "temp"
    /\ UNCHANGED <<memberships, sessions, mail, links, forced, now, task, fails, cutoffs, raced>>

SetTwoFactorRequirement ==
    /\ "admin" \in mix /\ memberships # <<>>
    /\ \E b \in BOOLEAN : profile' = [profile EXCEPT !.required = b]
    /\ UNCHANGED <<user, memberships, sessions, mail, links, forced, now, task, ghosts>>

\* revokeUserSessions, revokeSession and panicRevokeAll: of the account, one, or
\* those opened for a tenant.  Refresh tokens are not touched.
RevokeSessions ==
    /\ "revoke" \in mix
    /\ \E ss \in {DOMAIN sessions} \union {{s} : s \in DOMAIN sessions}
                 \union {{s \in DOMAIN sessions : sessions[s].tenant = n} : n \in Tenants} :
         sessions' = [s \in DOMAIN sessions |->
                        [sessions[s] EXCEPT !.open = @ /\ s \notin ss]]
    /\ UNCHANGED <<user, profile, memberships, mail, links, forced, now, task, ghosts>>

\* trustSessionFingerprint appends to the list it read, without a limit.
TrustRead(t) ==
    /\ \E s \in DOMAIN sessions : Start(t, "trust", "trustWrite", profile.trusted, sessions[s].device, 0)
    /\ UNCHANGED <<user, profile, memberships, sessions, mail, links, forced, now, ghosts>>

TrustWrite(t) ==
    /\ At(t, "trustWrite")
    /\ profile' = IF Contains(Seen(t), task[t].arg)
                  THEN profile
                  ELSE [profile EXCEPT !.trusted = Append(Seen(t), task[t].arg)]
    /\ End(t)
    /\ UNCHANGED <<user, memberships, sessions, mail, links, forced, now, ghosts>>

RemoveMembership ==
    /\ "admin" \in mix
    /\ \E i \in DOMAIN memberships : memberships' = RemoveAt(memberships, i)
    /\ UNCHANGED <<user, profile, sessions, mail, links, forced, now, task, ghosts>>

\* anonymizeUser and eraseUserData: one transaction.
Erase(t) ==
    /\ "erase" \in mix /\ At(t, "idle") /\ cutoffs < MaxCutoffs
    /\ user' = [user EXCEPT !.status = "inactive", !.password = None, !.erased = TRUE]
    /\ CutOff(t)
    /\ setBy' = "erase"
    /\ UNCHANGED <<profile, memberships, mail, links, forced, now, task, fails>>
-----------------------------------------------------------------------------
\* Time, and requests that end early.

Tick ==
    /\ "time" \in mix /\ now < MaxTime
    /\ now' = now + 1
    /\ UNCHANGED <<user, profile, memberships, sessions, mail, links, forced, task, ghosts>>

\* A lock, the tokens of fifteen minutes, or a refresh token of thirty days ends.
Lapse ==
    /\ "time" \in mix
    /\ \/ /\ profile.locked
          /\ profile' = [profile EXCEPT !.locked = FALSE]
          /\ UNCHANGED <<sessions, links, forced>>
       \/ /\ links # {} \/ forced
          /\ links' = {} /\ forced' = FALSE
          /\ UNCHANGED <<profile, sessions>>
       \/ /\ \E s \in DOMAIN sessions : /\ sessions[s].token = "live"
                                        /\ sessions' = [sessions EXCEPT ![s].token = "revoked"]
          /\ UNCHANGED <<profile, links, forced>>
    /\ UNCHANGED <<user, memberships, mail, now, task, ghosts>>

\* A statement fails or the process ends: what was written before it stays.
Abort(t) ==
    /\ ~At(t, "idle")
    /\ End(t)
    /\ UNCHANGED <<user, profile, memberships, sessions, mail, links, forced, now, ghosts>>

Request(t) ==
    \/ LoginRead(t) \/ LoginFails(t) \/ LoginTotp(t) \/ LoginProceeds(t)
    \/ OAuthRead(t) \/ RefreshRead(t) \/ RefreshRotate(t) \/ Issue(t)
    \/ ChangeRead(t) \/ ChangeWrite(t) \/ ForgotRead(t) \/ ForgotWrite(t)
    \/ ResetRead(t) \/ ResetWrite(t) \/ ResendRead(t) \/ ResendWrite(t)
    \/ TotpRead(t) \/ TotpWrite(t) \/ ToggleRead(t) \/ ToggleWrite(t)
    \/ TrustRead(t) \/ TrustWrite(t) \/ Erase(t) \/ Abort(t)

Step ==
    \/ \E t \in Tasks : Request(t)
    \/ \E s \in DOMAIN sessions : Logout(s)
    \/ AcceptPrivacy \/ VerifyEmail \/ SetupTotp
    \/ ForcePasswordReset \/ TempPassword \/ SetTwoFactorRequirement
    \/ RevokeSessions \/ RemoveMembership
    \/ Tick \/ Lapse

AccountNext == Step /\ UNCHANGED mix

AccountSpec == AccountInit /\ [][AccountNext]_accountVars
-----------------------------------------------------------------------------
Times == 0 .. now \union {None}
ProfileRows ==
    [attempts : Nat, locked : BOOLEAN, resetRequired : BOOLEAN, requestedAt : Times,
     history : Seq(Passwords), stamp : Times, secret : Secrets \union {None}, enabled : BOOLEAN,
     required : BOOLEAN, trusted : Seq(Devices)]
SessionRows ==
    [tenant : Tenants, device : Devices, open : BOOLEAN, token : {"none", "live", "revoked"},
     cred : 0 .. cutoffs]

\* The account's rows have the shape the handlers rely on: an attempt count
\* never above the failed sign-ins, a history of at most HistorySize passwords,
\* sessions of tenants the account had.
AccountTypeOK ==
    /\ user \in [status : {"active", "inactive"}, password : Passwords \union {None},
                 consent : BOOLEAN, erased : BOOLEAN]
    /\ profile \in ProfileRows
    /\ profile.attempts <= fails /\ Len(profile.history) <= HistorySize
    /\ memberships \in Seq(Tenants) /\ sessions \in Seq(SessionRows)
    /\ links \subseteq 0 .. now
    /\ {now, fails, cutoffs} \subseteq Nat /\ raced \in BOOLEAN

\* A refresh token is only ever issued to an account that has accepted the
\* privacy policy, whichever way in was used and whatever was stale; so a refresh
\* that reaches issueAuthResponse is always answered with tokens, as the cast to
\* AuthResponseSnapshot in refresh() takes for granted.
ConsentFirst ==
    /\ SignedIn => user.consent
    /\ \A t \in Tasks : At(t, "rotate") => Consented(Seen(t)) /\ user.consent

\* Whatever changes of the password overlap, the current password is in the list
\* of earlier ones only if a reset link has put it there: changePassword compares
\* with the list and writes password and list together, resetPassword does not.
HistoryKeepsApart ==
    Contains(profile.history, user.password) => setBy = "reset"

\* After a reset by link or an erasure, no session is open and no refresh token
\* usable that goes back to a sign-in from before it, unless a sign-in was being
\* served during the transaction.
CutOffIsFinal ==
    ~raced => \A s \in DOMAIN sessions :
                 sessions[s].open \/ sessions[s].token = "live" => sessions[s].cred = cutoffs

\* However attempts overlap and counts are overwritten, an account is locked only
\* after as many failed sign-ins as the policy says.
LockEarned == profile.locked => fails >= Threshold

-----------------------------------------------------------------------------
\* Why these hold: an invariant that is inductive.
Issuing == {"profile", "trust", "token"}
Labels == SigningIn \union {"idle", "wrong", "change", "forgot", "reset", "resend", "confirm", "disable",
                            "toggleStatus", "toggle2fa", "trustWrite"}
AccountCopies ==
    [status : {"active", "inactive"}, consent : BOOLEAN, memberships : Seq(Tenants),
     resetRequired : BOOLEAN, stamp : Times, trusted : Seq(Devices)]
SignInArgs == [accepts : BOOLEAN, code : Secrets \union {None}, device : Devices]
PasswordCopies == [password : Passwords, history : Seq(Passwords)]

\* What a request carries between its reads and its writes.
TaskTyped(c) ==
    /\ c = [pc |-> c.pc, seen |-> c.seen, arg |-> c.arg, session |-> c.session, cred |-> c.cred]
    /\ c.pc \in Labels
    /\ c.pc \in SigningIn => c.seen \in AccountCopies /\ c.arg \in SignInArgs /\ c.cred \in 0 .. cutoffs
    /\ c.pc \in Issuing \union {"rotate"} => c.session \in DOMAIN sessions
    /\ c.pc = "wrong" => c.seen \in 0 .. fails
    /\ c.pc = "change" => c.seen \in PasswordCopies /\ c.arg \in Passwords
    /\ c.pc = "forgot" => c.arg \in 0 .. now
    /\ c.pc = "reset" => c.arg \in Passwords
    /\ c.pc = "toggle2fa" => c.seen \in BOOLEAN
    /\ c.pc = "trustWrite" => c.seen \in Seq(Devices) /\ c.arg \in Devices

\* A copy has a consent only if the row does, one that is let past it has it; a
\* sign-in goes back to the last cut-off, unless one came in between.
TaskSound(c) ==
    /\ c.pc \in SigningIn => (c.seen.consent => user.consent) /\ (raced \/ c.cred = cutoffs)
    /\ c.pc \in Issuing \union {"rotate"} => c.seen.consent
    /\ c.pc \in Issuing => sessions[c.session].cred = c.cred
    /\ c.pc = "change" => Reusable(c.seen, c.arg)
TasksSound == DOMAIN task = Tasks /\ \A t \in Tasks : TaskTyped(task[t]) /\ TaskSound(task[t])

SessionSound(s) ==
    /\ s.token # "none" => user.consent
    /\ s.open \/ s.token = "live" => raced \/ s.cred = cutoffs
SessionsSound == \A s \in DOMAIN sessions : SessionSound(sessions[s])

AccountInv == AccountTypeOK /\ TasksSound /\ SessionsSound /\ LockEarned /\ HistoryKeepsApart
=============================================================================
