------------------------------ MODULE Webhooks ------------------------------
(***************************************************************************)
(* The outgoing webhooks of one company                                    *)
(* (src/src/modules/api/webhook.service.ts): events are sent to every      *)
(* active one, a failed send is repeated by a timer of the process, and    *)
(* one whose sends keep failing is switched off.                           *)
(*                                                                         *)
(* Each send is a chain of its own with its own count of attempts; the     *)
(* chains of one webhook share the row they write the count to.  All hooks *)
(* listen to the event.  A timer may fire late, never early: order is all  *)
(* that is kept of time.                                                   *)
(***************************************************************************)
EXTENDS Naturals, FiniteSets

CONSTANTS
    Hooks,
    Sends,       \* as many chains as run at once
    MaxRetries,  \* MAX_RETRIES
    NoHook

ASSUME WebhookAssumption == MaxRetries \in Nat \ {0} /\ NoHook \notin Hooks

VARIABLES
    hooks,      \* the rows: [there, active, retryCount, lastStatus]
    sends,      \* calls of sendWithRetry that wait for an answer or a timer
    replaying,  \* the rows replayFailed has found and not written yet
    failures,   \* history: failed sends of a hook since it last worked or was set
                \* back, counted up to MaxRetries + 1
    carried     \* history: the counts that were on their way, or set, at that time

webhookVars == <<hooks, sends, replaying, failures, carried>>
-----------------------------------------------------------------------------
NoSend == [hook |-> NoHook, attempt |-> 0]
NewHook == [there |-> TRUE, active |-> TRUE, retryCount |-> 0, lastStatus |-> "none"]

\* What lastStatus tells apart: "fetch failed" is the error of a send that got no
\* answer, "failed" the end of a chain; replayFailed takes one for the other.
Errors == {"error", "fetch failed"}
SaysFailed == {"fetch failed", "failed"}
LastStatuses == {"none", "ok", "failed"} \union Errors

WebhookInit ==
    /\ hooks = [h \in Hooks |-> [NewHook EXCEPT !.there = FALSE]]
    /\ sends = [s \in Sends |-> NoSend]
    /\ replaying = {}
    /\ failures = [h \in Hooks |-> 0]
    /\ carried = [h \in Hooks |-> {0}]

\* The failures are counted anew, from the count n of the row and those of the
\* chains that go on.
CountAnew(h, n) ==
    /\ failures' = [failures EXCEPT ![h] = 0]
    /\ carried' = [carried EXCEPT ![h] =
          {n} \union {sends[s].attempt : s \in {c \in Sends : sends[c].hook = h}}]

\* The body is written as it comes, by no class the pipe could check it with: a
\* caller may give any column a value.  (A count above MaxRetries is to the
\* daily job what MaxRetries is.)
Columns == [there : {TRUE}, active : BOOLEAN, retryCount : 0 .. MaxRetries, lastStatus : LastStatuses]

CreateWebhook(h, row) ==
    /\ hooks[h] = [NewHook EXCEPT !.there = FALSE]
    /\ hooks' = [hooks EXCEPT ![h] = row]
    /\ CountAnew(h, row.retryCount)
    /\ UNCHANGED <<sends, replaying>>

UpdateWebhook(h, row) ==
    /\ hooks[h].there
    /\ hooks' = [hooks EXCEPT ![h] = row]
    /\ IF row.retryCount # hooks[h].retryCount THEN CountAnew(h, row.retryCount)
                                             ELSE UNCHANGED <<failures, carried>>
    /\ UNCHANGED <<sends, replaying>>

\* The row is gone; the timers of its sends are not.
DeleteWebhook(h) ==
    /\ hooks[h].there
    /\ hooks' = [hooks EXCEPT ![h].there = FALSE, ![h].active = FALSE]
    /\ UNCHANGED <<sends, replaying, failures, carried>>

\* One new chain for each of the hooks, which starts at attempt[h].
StartSends(found, attempt) ==
    /\ found # {}
    /\ \E slot \in [found -> {s \in Sends : sends[s] = NoSend}] :
         /\ \A h, i \in found : h # i => slot[h] # slot[i]
         /\ sends' = [s \in Sends |->
               IF \E h \in found : slot[h] = s
               THEN LET h == CHOOSE i \in found : slot[i] = s IN [hook |-> h, attempt |-> attempt[h]]
               ELSE sends[s]]
    /\ UNCHANGED <<hooks, replaying, failures, carried>>

Dispatch ==
    StartSends({h \in Hooks : hooks[h].there /\ hooks[h].active}, [h \in Hooks |-> 0])

\* The daily job goes on where the row says the last chain was, whether that
\* chain still runs or not.
RetryFailedWebhooks ==
    StartSends({h \in Hooks : /\ hooks[h].there /\ hooks[h].active
                              /\ hooks[h].retryCount \in 1..(MaxRetries - 1)},
               [h \in Hooks |-> hooks[h].retryCount])
-----------------------------------------------------------------------------
\* The answer to a send, or its failure, and what is written of it.

Succeed(s) ==
    LET h == sends[s].hook IN
    /\ h # NoHook /\ hooks[h].there
    /\ hooks' = [hooks EXCEPT ![h].retryCount = 0, ![h].lastStatus = "ok"]
    /\ sends' = [sends EXCEPT ![s] = NoSend]
    /\ CountAnew(h, 0)
    /\ UNCHANGED replaying

MoreRetries_OneLess(attempt) == attempt + 1 < MaxRetries   \* Mutant: the last retry is lost.
MoreRetries(attempt) == attempt + 1 <= MaxRetries

CountFailure(h) == failures' = [failures EXCEPT ![h] = IF @ > MaxRetries THEN @ ELSE @ + 1]

Fail(s) ==
    LET h == sends[s].hook
        next == sends[s].attempt + 1
    IN  /\ h # NoHook /\ hooks[h].there
        /\ MoreRetries(sends[s].attempt)
        /\ \E error \in Errors :
              hooks' = [hooks EXCEPT ![h].retryCount = next, ![h].lastStatus = error]
        /\ sends' = [sends EXCEPT ![s].attempt = next]
        /\ CountFailure(h)
        /\ UNCHANGED <<replaying, carried>>

GiveUp(s) ==
    LET h == sends[s].hook
    IN  /\ h # NoHook /\ hooks[h].there
        /\ ~MoreRetries(sends[s].attempt)
        /\ hooks' = [hooks EXCEPT ![h].active = FALSE, ![h].retryCount = MaxRetries,
                                  ![h].lastStatus = "failed"]
        /\ sends' = [sends EXCEPT ![s] = NoSend]
        /\ CountFailure(h)
        /\ UNCHANGED <<replaying, carried>>

\* The update of a row that is gone throws, in the handler of the error too, and
\* nobody awaits the promise: the process ends, with every timer in it.
Orphaned(s) ==
    /\ sends[s].hook # NoHook /\ ~hooks[sends[s].hook].there
    /\ sends' = [i \in Sends |-> NoSend] /\ replaying' = {}
    /\ UNCHANGED <<hooks, failures, carried>>

Restart ==
    /\ sends' = [s \in Sends |-> NoSend] /\ replaying' = {}
    /\ UNCHANGED <<hooks, failures, carried>>
-----------------------------------------------------------------------------
\* Hooks that are off and whose status says so; also one that its user switched
\* off after a send without an answer.
ReplayFailed ==
    /\ replaying = {}
    /\ replaying' = {h \in Hooks : /\ hooks[h].there /\ ~hooks[h].active
                                   /\ hooks[h].lastStatus \in SaysFailed}
    /\ UNCHANGED <<hooks, sends, failures, carried>>

\* A row that was deleted meanwhile ends the call.
Reactivate(h) ==
    /\ h \in replaying
    /\ IF hooks[h].there
       THEN /\ hooks' = [hooks EXCEPT ![h].active = TRUE, ![h].retryCount = 0]
            /\ replaying' = replaying \ {h}
            /\ CountAnew(h, 0)
       ELSE /\ replaying' = {} /\ UNCHANGED <<hooks, failures, carried>>
    /\ UNCHANGED sends

WebhookNext ==
    \/ \E h \in Hooks : \/ DeleteWebhook(h) \/ Reactivate(h)
                        \/ \E row \in Columns : CreateWebhook(h, row) \/ UpdateWebhook(h, row)
    \/ Dispatch \/ RetryFailedWebhooks \/ ReplayFailed \/ Restart
    \/ \E s \in Sends : Succeed(s) \/ Fail(s) \/ GiveUp(s) \/ Orphaned(s)

WebhookSpec == WebhookInit /\ [][WebhookNext]_webhookVars
-----------------------------------------------------------------------------
\* However many chains write the count of a hook, whatever the daily job starts
\* from it and wherever the process stops: a chain switches a hook off only when
\* the sends that failed since the hook last worked, or was set back by a replay
\* or its user, and the failures that one of the chains then under way had behind
\* it, or the count the user gave it, are more than MaxRetries.
GivenUpForCause == [][\A h \in Hooks :
    hooks[h].active /\ ~hooks'[h].active /\ (\E s \in Sends : sends[s].hook = h /\ sends'[s] = NoSend)
      => \E c \in carried[h] : failures[h] + 1 + c > MaxRetries]_webhookVars

\* The inductive invariant behind it: no count runs ahead of what has failed
\* since, and what was there before.
HookRows == [there : BOOLEAN, active : BOOLEAN, retryCount : 0 .. MaxRetries, lastStatus : LastStatuses]
Chain == [hook : Hooks \union {NoHook}, attempt : 0 .. MaxRetries]

WebhookTypeOK ==
    /\ hooks \in [Hooks -> HookRows] /\ sends \in [Sends -> Chain]
    /\ replaying \subseteq Hooks /\ failures \in [Hooks -> 0 .. MaxRetries + 1]
    /\ carried \in [Hooks -> SUBSET (0 .. MaxRetries)]

Behind(h, n) == \E c \in carried[h] : n <= failures[h] + c
CountsBehind == \A h \in Hooks : Behind(h, hooks[h].retryCount)
ChainsBehind == \A s \in Sends : sends[s].hook # NoHook => Behind(sends[s].hook, sends[s].attempt)

WebhookInv == WebhookTypeOK /\ CountsBehind /\ ChainsBehind
=============================================================================
