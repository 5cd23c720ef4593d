------------------------------ MODULE ApiProofs -----------------------------
(***************************************************************************)
(* Proofs about Webhooks and ApiKeys, for every number of hooks, chains,   *)
(* retries, keys and concurrent requests, and however many days pass.      *)
(***************************************************************************)
EXTENDS Webhooks, ApiKeys, TLAPS
-----------------------------------------------------------------------------
\* Webhooks: why a hook is given up.

\* A row with other values in its fields is a row.
LEMMA RowTyped ==
  ASSUME NEW row \in HookRows
  PROVE  /\ \A b \in BOOLEAN : /\ [row EXCEPT !.there = b] \in HookRows
                               /\ [row EXCEPT !.active = b] \in HookRows
         /\ \A n \in 0 .. MaxRetries : [row EXCEPT !.retryCount = n] \in HookRows
         /\ \A status \in LastStatuses : [row EXCEPT !.lastStatus = status] \in HookRows
  BY DEF HookRows, LastStatuses

LEMMA RowReactivated ==
  ASSUME NEW row \in HookRows, NEW n \in 0 .. MaxRetries
  PROVE  [row EXCEPT !.active = TRUE, !.retryCount = n] \in HookRows
<1> DEFINE on == [row EXCEPT !.active = TRUE]
<1>1. on \in HookRows
  BY RowTyped
<1>2. [row EXCEPT !.active = TRUE, !.retryCount = n] = [on EXCEPT !.retryCount = n]
  OBVIOUS
<1> HIDE DEF on
<1> QED
  BY <1>1, <1>2, RowTyped

LEMMA RowCounted ==
  ASSUME NEW row \in HookRows, NEW n \in 0 .. MaxRetries, NEW status \in LastStatuses
  PROVE  [row EXCEPT !.retryCount = n, !.lastStatus = status] \in HookRows
<1> DEFINE counted == [row EXCEPT !.retryCount = n]
<1>1. counted \in HookRows
  BY RowTyped
<1>2. [row EXCEPT !.retryCount = n, !.lastStatus = status] = [counted EXCEPT !.lastStatus = status]
  OBVIOUS
<1> HIDE DEF counted
<1> QED
  BY <1>1, <1>2, RowTyped

LEMMA RowGivenUp ==
  ASSUME NEW row \in HookRows, MaxRetries \in 0 .. MaxRetries
  PROVE  [row EXCEPT !.active = FALSE, !.retryCount = MaxRetries, !.lastStatus = "failed"] \in HookRows
<1> DEFINE off == [row EXCEPT !.active = FALSE]
<1>1. off \in HookRows
  BY RowTyped
<1>2. [row EXCEPT !.active = FALSE, !.retryCount = MaxRetries, !.lastStatus = "failed"]
        = [off EXCEPT !.retryCount = MaxRetries, !.lastStatus = "failed"]
  OBVIOUS
<1> HIDE DEF off
<1>3. [off EXCEPT !.retryCount = MaxRetries, !.lastStatus = "failed"] \in HookRows
  BY <1>1, RowCounted DEF LastStatuses
<1> QED
  BY <1>2, <1>3

\* The initial states are in the invariant.
LEMMA HookInit == WebhookInit => WebhookInv
<1> SUFFICES ASSUME WebhookInit PROVE WebhookInv
  OBVIOUS
<1>1. WebhookTypeOK
  <2>1. NewHook \in HookRows
    BY WebhookAssumption DEF NewHook, HookRows, LastStatuses
  <2>2. [NewHook EXCEPT !.there = FALSE] \in HookRows
    BY <2>1, RowTyped
  <2>3. NoSend \in Chain
    BY WebhookAssumption DEF NoSend, Chain
  <2> QED
    BY <2>2, <2>3, WebhookAssumption DEF WebhookInit, WebhookTypeOK
<1>2. CountsBehind
  BY DEF WebhookInit, NewHook, CountsBehind, Behind
<1>3. ChainsBehind
  BY DEF WebhookInit, NoSend, ChainsBehind
<1> QED
  BY <1>1, <1>2, <1>3 DEF WebhookInv

\* While the failures go on being counted, no count runs ahead of them.
LEMMA CountedOn ==
  ASSUME WebhookInv, UNCHANGED carried, replaying' \subseteq Hooks,
         failures' \in [Hooks -> 0 .. MaxRetries + 1], \A h \in Hooks : failures[h] <= failures'[h],
         hooks' \in [Hooks -> HookRows],
         \A h \in Hooks : \/ hooks'[h].retryCount = hooks[h].retryCount
                          \/ \E c \in carried[h] : hooks'[h].retryCount <= failures'[h] + c,
         sends' \in [Sends -> Chain],
         \A s \in Sends : \/ sends'[s] = sends[s] \/ sends'[s] = NoSend
                          \/ \E c \in carried[sends'[s].hook] :
                               sends'[s].attempt <= failures'[sends'[s].hook] + c
  PROVE  WebhookInv'
<1> USE DEF WebhookInv, WebhookTypeOK
<1>1. ASSUME NEW h \in Hooks, NEW n \in 0 .. MaxRetries, Behind(h, n)
      PROVE  \E c \in carried[h] : n <= failures'[h] + c
  <2>1. PICK c \in carried[h] : n <= failures[h] + c
    BY <1>1 DEF Behind
  <2>2. c \in 0 .. MaxRetries /\ failures[h] \in 0 .. MaxRetries + 1 /\ failures'[h] \in 0 .. MaxRetries + 1
    OBVIOUS
  <2>3. n <= failures'[h] + c
    BY <2>1, <2>2, WebhookAssumption
  <2> QED
    BY <2>3
<1>2. CountsBehind'
  <2> SUFFICES ASSUME NEW h \in Hooks PROVE \E c \in carried[h] : hooks'[h].retryCount <= failures'[h] + c
    BY DEF CountsBehind, Behind
  <2>1. hooks[h].retryCount \in 0 .. MaxRetries /\ Behind(h, hooks[h].retryCount)
    BY DEF CountsBehind, HookRows
  <2> QED
    BY <1>1, <2>1
<1>3. ChainsBehind'
  <2> SUFFICES ASSUME NEW s \in Sends, sends'[s].hook # NoHook
               PROVE  \E c \in carried[sends'[s].hook] : sends'[s].attempt <= failures'[sends'[s].hook] + c
    BY DEF ChainsBehind, Behind
  <2>1. sends'[s] # NoSend
    BY DEF NoSend
  <2>2. CASE sends'[s] = sends[s]
    <3>1. /\ sends[s].hook \in Hooks /\ sends[s].attempt \in 0 .. MaxRetries
          /\ Behind(sends[s].hook, sends[s].attempt)
      BY <2>2 DEF ChainsBehind, Chain
    <3> QED
      BY <1>1, <2>2, <3>1
  <2> QED
    BY <2>1, <2>2
<1> QED
  BY <1>2, <1>3

\* When they are counted anew for a hook, its count and those of its chains are
\* what the new count starts from.
LEMMA CountedAnew ==
  ASSUME WebhookInv, NEW h \in Hooks, NEW n \in 0 .. MaxRetries, CountAnew(h, n),
         replaying' \subseteq Hooks,
         hooks' \in [Hooks -> HookRows], hooks'[h].retryCount = n,
         \A i \in Hooks \ {h} : hooks'[i] = hooks[i],
         sends' \in [Sends -> Chain], \A s \in Sends : sends'[s] = sends[s] \/ sends'[s] = NoSend
  PROVE  WebhookInv'
<1> USE DEF WebhookInv, WebhookTypeOK
<1> DEFINE own == {n} \union {sends[s].attempt : s \in {c \in Sends : sends[c].hook = h}}
<1>1. failures' = [failures EXCEPT ![h] = 0] /\ carried' = [carried EXCEPT ![h] = own]
  BY DEF CountAnew
<1>2. own \subseteq 0 .. MaxRetries
  BY DEF Chain
<1>3. WebhookTypeOK'
  <2>1. 0 \in 0 .. MaxRetries + 1
    BY WebhookAssumption
  <2> QED
    BY <1>1, <1>2, <2>1
<1>4. ASSUME NEW m \in own PROVE \E c \in carried'[h] : m <= failures'[h] + c
  <2>1. carried'[h] = own /\ failures'[h] = 0 /\ m <= 0 + m
    BY <1>1, <1>2, WebhookAssumption
  <2> QED
    BY <1>4, <2>1
<1>5. ASSUME NEW i \in Hooks, i # h PROVE carried'[i] = carried[i] /\ failures'[i] = failures[i]
  BY <1>1, <1>5
<1>6. CountsBehind'
  <2> SUFFICES ASSUME NEW i \in Hooks PROVE \E c \in carried'[i] : hooks'[i].retryCount <= failures'[i] + c
    BY DEF CountsBehind, Behind
  <2>1. CASE i = h
    BY <1>4, <2>1
  <2>2. CASE i # h
    BY <1>5, <2>2 DEF CountsBehind, Behind
  <2> QED
    BY <2>1, <2>2
<1>7. ChainsBehind'
  <2> SUFFICES ASSUME NEW s \in Sends, sends'[s].hook # NoHook
               PROVE  \E c \in carried'[sends'[s].hook] : sends'[s].attempt <= failures'[sends'[s].hook] + c
    BY DEF ChainsBehind, Behind
  <2>1. sends'[s] = sends[s]
    BY DEF NoSend
  <2>2. CASE sends[s].hook = h
    BY <1>4, <2>1, <2>2
  <2>3. CASE sends[s].hook # h
    <3>1. sends[s].hook \in Hooks /\ Behind(sends[s].hook, sends[s].attempt)
      BY <2>1 DEF ChainsBehind, Chain
    <3> QED
      BY <1>5, <2>1, <2>3, <3>1 DEF Behind
  <2> QED
    BY <2>2, <2>3
<1> QED
  BY <1>3, <1>6, <1>7

\* Chains that start at a count within what has failed.
LEMMA ChainsStart ==
  ASSUME WebhookInv, NEW found \in SUBSET Hooks, NEW attempt \in [Hooks -> 0 .. MaxRetries],
         \A h \in found : Behind(h, attempt[h]),
         StartSends(found, attempt)
  PROVE  WebhookInv'
<1>1. UNCHANGED <<hooks, replaying, failures, carried>>
  BY DEF StartSends
<1>2. PICK slot \in [found -> {c \in Sends : sends[c] = NoSend}] :
        sends' = [c \in Sends |->
          IF \E h \in found : slot[h] = c
          THEN LET h == CHOOSE i \in found : slot[i] = c IN [hook |-> h, attempt |-> attempt[h]]
          ELSE sends[c]]
  BY DEF StartSends
<1>3. ASSUME NEW s \in Sends
      PROVE  \/ sends'[s] = sends[s]
             \/ \E h \in found : sends'[s] = [hook |-> h, attempt |-> attempt[h]]
  <2>1. CASE \E h \in found : slot[h] = s
    <3> DEFINE first == CHOOSE i \in found : slot[i] = s
    <3>1. first \in found
      BY <2>1
    <3>2. sends'[s] = [hook |-> first, attempt |-> attempt[first]]
      BY <1>2, <2>1
    <3> QED
      BY <3>1, <3>2
  <2>2. CASE ~ \E h \in found : slot[h] = s
    BY <1>2, <2>2
  <2> QED
    BY <2>1, <2>2
<1>4. ASSUME NEW s \in Sends
      PROVE  /\ sends'[s] \in Chain
             /\ \/ sends'[s] = sends[s]
                \/ \E c \in carried[sends'[s].hook] : sends'[s].attempt <= failures[sends'[s].hook] + c
  <2>1. CASE sends'[s] = sends[s]
    BY <2>1 DEF WebhookInv, WebhookTypeOK
  <2>2. ASSUME NEW h \in found, sends'[s] = [hook |-> h, attempt |-> attempt[h]]
        PROVE  /\ sends'[s] \in Chain
               /\ \E c \in carried[sends'[s].hook] : sends'[s].attempt <= failures[sends'[s].hook] + c
    BY <2>2 DEF Chain, Behind
  <2> QED
    BY <1>3, <2>1, <2>2
<1>5. sends' \in [Sends -> Chain]
  BY <1>2, <1>4
<1>6. /\ hooks' \in [Hooks -> HookRows] /\ failures' \in [Hooks -> 0 .. MaxRetries + 1]
      /\ replaying' \subseteq Hooks /\ \A h \in Hooks : failures[h] <= failures'[h]
  BY <1>1, WebhookAssumption DEF WebhookInv, WebhookTypeOK
<1> QED
  BY <1>1, <1>4, <1>5, <1>6, CountedOn

\* What the users and the replays do to one row.
LEMMA RowWritten ==
  ASSUME WebhookInv, NEW h \in Hooks,
         \/ DeleteWebhook(h) \/ Reactivate(h)
         \/ \E row \in Columns : CreateWebhook(h, row) \/ UpdateWebhook(h, row)
  PROVE  WebhookInv'
<1> USE DEF WebhookInv, WebhookTypeOK
<1>1. Columns \subseteq HookRows /\ \A i \in Hooks : failures[i] <= failures[i]
  <2>1. Columns \subseteq HookRows
    BY DEF Columns, HookRows
  <2>2. \A i \in Hooks : failures[i] \in Nat
    BY WebhookAssumption
  <2> QED
    BY <2>1, <2>2
<1>2. CASE DeleteWebhook(h)
  <2>1. /\ hooks' = [hooks EXCEPT ![h].there = FALSE, ![h].active = FALSE]
        /\ UNCHANGED <<sends, replaying, failures, carried>>
    BY <1>2 DEF DeleteWebhook
  <2>2. hooks' \in [Hooks -> HookRows] /\ \A i \in Hooks : hooks'[i].retryCount = hooks[i].retryCount
    BY <2>1 DEF HookRows, LastStatuses
  <2> QED
    BY <1>1, <2>1, <2>2, CountedOn
<1>3. CASE Reactivate(h)
  <2> DEFINE row == [hooks[h] EXCEPT !.active = TRUE, !.retryCount = 0]
  <2>1. hooks[h] \in HookRows /\ 0 \in 0 .. MaxRetries
    BY WebhookAssumption
  <2>2. row \in HookRows /\ row.retryCount = 0
    <3>1. row \in HookRows
      BY <2>1, RowReactivated
    <3> QED
      BY <2>1, <3>1 DEF HookRows
  <2>3. CASE hooks[h].there
    <3>1. /\ hooks' = [hooks EXCEPT ![h] = row] /\ CountAnew(h, 0) /\ UNCHANGED sends
          /\ replaying' \subseteq Hooks
      BY <1>3, <2>3 DEF Reactivate
    <3> HIDE DEF row
    <3>2. /\ hooks' \in [Hooks -> HookRows] /\ hooks'[h].retryCount = 0
          /\ \A i \in Hooks \ {h} : hooks'[i] = hooks[i]
      BY <2>2, <3>1
    <3>3. sends' \in [Sends -> Chain] /\ \A s \in Sends : sends'[s] = sends[s]
      BY <3>1
    <3> QED
      BY <2>1, <3>1, <3>2, <3>3, CountedAnew
  <2>4. CASE ~hooks[h].there
    <3>1. UNCHANGED <<hooks, sends, failures, carried>> /\ replaying' \subseteq Hooks
      BY <1>3, <2>4 DEF Reactivate
    <3> QED
      BY <1>1, <3>1, CountedOn
  <2> QED
    BY <2>3, <2>4
<1>4. ASSUME NEW row \in Columns, CreateWebhook(h, row) \/ UpdateWebhook(h, row) PROVE WebhookInv'
  <2>1. hooks' = [hooks EXCEPT ![h] = row] /\ UNCHANGED <<sends, replaying>>
    BY <1>4 DEF CreateWebhook, UpdateWebhook
  <2>2. /\ row.retryCount \in 0 .. MaxRetries /\ hooks' \in [Hooks -> HookRows] /\ hooks'[h] = row
        /\ \A i \in Hooks \ {h} : hooks'[i] = hooks[i]
        /\ sends' \in [Sends -> Chain] /\ \A s \in Sends : sends'[s] = sends[s]
    BY <1>1, <2>1 DEF Columns
  <2>3. CASE CountAnew(h, row.retryCount)
    BY <2>1, <2>2, <2>3, CountedAnew
  <2>4. CASE row.retryCount = hooks[h].retryCount /\ UNCHANGED <<failures, carried>>
    <3>1. \A i \in Hooks : hooks'[i].retryCount = hooks[i].retryCount
      BY <2>2, <2>4
    <3> QED
      BY <1>1, <2>1, <2>2, <2>4, <3>1, CountedOn
  <2>5. CountAnew(h, row.retryCount) \/ (row.retryCount = hooks[h].retryCount /\ UNCHANGED <<failures, carried>>)
    BY <1>4 DEF CreateWebhook, UpdateWebhook
  <2> QED
    BY <2>3, <2>4, <2>5
<1> QED
  BY <1>2, <1>3, <1>4

\* The process loses its chains.
LEMMA ChainsLost ==
  ASSUME WebhookInv, UNCHANGED <<hooks, failures, carried>>, replaying' = {},
         sends' = [s \in Sends |-> NoSend]
  PROVE  WebhookInv'
<1>1. NoSend \in Chain
  BY WebhookAssumption DEF NoSend, Chain
<1>2. sends' \in [Sends -> Chain] /\ \A s \in Sends : sends'[s] = NoSend
  BY <1>1
<1>3. /\ hooks' \in [Hooks -> HookRows] /\ failures' \in [Hooks -> 0 .. MaxRetries + 1]
      /\ \A h \in Hooks : failures[h] <= failures'[h]
  BY WebhookAssumption DEF WebhookInv, WebhookTypeOK
<1> QED
  BY <1>2, <1>3, CountedOn

LEMMA SendSucceeds ==
  ASSUME WebhookInv, NEW s \in Sends, Succeed(s)
  PROVE  WebhookInv'
<1> USE DEF WebhookInv, WebhookTypeOK
<1>1. PICK h : h = sends[s].hook
  OBVIOUS
<1>2. /\ h \in Hooks /\ CountAnew(h, 0) /\ UNCHANGED replaying
      /\ hooks' = [hooks EXCEPT ![h].retryCount = 0, ![h].lastStatus = "ok"]
      /\ sends' = [sends EXCEPT ![s] = NoSend]
  BY <1>1 DEF Succeed, Chain
<1>3. hooks[h] \in HookRows /\ 0 \in 0 .. MaxRetries /\ "ok" \in LastStatuses
  BY <1>2, WebhookAssumption DEF LastStatuses
<1>4. PICK row : row = [hooks[h] EXCEPT !.retryCount = 0, !.lastStatus = "ok"]
  OBVIOUS
<1>5. row \in HookRows /\ row.retryCount = 0
  <2>1. row \in HookRows
    BY <1>3, <1>4, RowCounted
  <2> QED
    BY <1>3, <1>4, <2>1 DEF HookRows
<1>6. hooks' = [hooks EXCEPT ![h] = row]
  BY <1>2, <1>4
<1>7. /\ hooks' \in [Hooks -> HookRows] /\ hooks'[h].retryCount = 0
      /\ \A i \in Hooks \ {h} : hooks'[i] = hooks[i]
  BY <1>2, <1>5, <1>6
<1>8. sends' \in [Sends -> Chain] /\ \A c \in Sends : sends'[c] = sends[c] \/ sends'[c] = NoSend
  BY <1>2, WebhookAssumption DEF Chain, NoSend
<1> QED
  BY <1>2, <1>3, <1>7, <1>8, CountedAnew

\* A failure raises the count of failures as much as the count of the chain.
LEMMA FailureCounted ==
  ASSUME WebhookInv, NEW s \in Sends, sends[s].hook # NoHook, CountFailure(sends[s].hook)
  PROVE  LET h == sends[s].hook
         IN  /\ h \in Hooks /\ sends[s].attempt \in 0 .. MaxRetries
             /\ failures' \in [Hooks -> 0 .. MaxRetries + 1]
             /\ \A i \in Hooks : failures[i] <= failures'[i]
             /\ \E c \in carried[h] : /\ c \in 0 .. MaxRetries /\ sends[s].attempt <= failures[h] + c
                                      /\ \A m \in 0 .. MaxRetries :
                                           m <= sends[s].attempt + 1 => m <= failures'[h] + c
<1> USE DEF WebhookInv, WebhookTypeOK
<1>1. PICK h, n : h = sends[s].hook /\ n = sends[s].attempt
  OBVIOUS
<1>2. h \in Hooks /\ n \in 0 .. MaxRetries /\ Behind(h, n)
  BY <1>1 DEF Chain, ChainsBehind
<1>3. failures' = [failures EXCEPT ![h] = IF @ > MaxRetries THEN @ ELSE @ + 1]
  BY <1>1 DEF CountFailure
<1>4. failures' \in [Hooks -> 0 .. MaxRetries + 1] /\ \A i \in Hooks : failures[i] <= failures'[i]
  BY <1>2, <1>3, WebhookAssumption
<1>5. PICK c \in carried[h] : n <= failures[h] + c
  BY <1>2 DEF Behind
<1>6. c \in 0 .. MaxRetries
  BY <1>2, <1>5
<1>7. ASSUME NEW m \in 0 .. MaxRetries, m <= n + 1 PROVE m <= failures'[h] + c
  <2>1. failures[h] \in 0 .. MaxRetries + 1
    BY <1>2
  <2>2. failures'[h] = IF failures[h] > MaxRetries THEN failures[h] ELSE failures[h] + 1
    BY <1>2, <1>3
  <2> QED
    BY <1>2, <1>5, <1>6, <1>7, <2>1, <2>2, WebhookAssumption
<1> QED
  BY <1>1, <1>2, <1>4, <1>5, <1>6, <1>7

LEMMA SendFails ==
  ASSUME WebhookInv, NEW s \in Sends, Fail(s)
  PROVE  WebhookInv'
<1> USE DEF WebhookInv, WebhookTypeOK
<1>1. PICK h, next : h = sends[s].hook /\ next = sends[s].attempt + 1
  OBVIOUS
<1>2. PICK error \in Errors :
        hooks' = [hooks EXCEPT ![h].retryCount = next, ![h].lastStatus = error]
  BY <1>1 DEF Fail
<1>3. /\ h # NoHook /\ next <= MaxRetries /\ CountFailure(h) /\ UNCHANGED <<replaying, carried>>
      /\ sends' = [sends EXCEPT ![s].attempt = next]
  BY <1>1 DEF Fail, MoreRetries
<1>4. /\ h \in Hooks /\ sends[s].attempt \in 0 .. MaxRetries
      /\ failures' \in [Hooks -> 0 .. MaxRetries + 1] /\ \A i \in Hooks : failures[i] <= failures'[i]
      /\ \E c \in carried[h] : \A m \in 0 .. MaxRetries :
           m <= sends[s].attempt + 1 => m <= failures'[h] + c
  BY <1>1, <1>3, FailureCounted
<1>5. next \in 0 .. MaxRetries /\ \E c \in carried[h] : next <= failures'[h] + c
  <2>1. next \in 0 .. MaxRetries /\ next <= sends[s].attempt + 1
    BY <1>1, <1>3, <1>4, WebhookAssumption
  <2> QED
    BY <1>4, <2>1
<1>6. PICK row : row = [hooks[h] EXCEPT !.retryCount = next, !.lastStatus = error]
  OBVIOUS
<1>7. row \in HookRows /\ row.retryCount = next
  <2>1. hooks[h] \in HookRows /\ error \in LastStatuses
    BY <1>4 DEF LastStatuses
  <2>2. row \in HookRows
    BY <1>5, <1>6, <2>1, RowCounted
  <2> QED
    BY <1>6, <2>1, <2>2 DEF HookRows
<1>8. hooks' = [hooks EXCEPT ![h] = row]
  BY <1>2, <1>6
<1>9. /\ hooks' \in [Hooks -> HookRows]
      /\ \A i \in Hooks : \/ hooks'[i].retryCount = hooks[i].retryCount
                          \/ \E c \in carried[i] : hooks'[i].retryCount <= failures'[i] + c
  BY <1>4, <1>5, <1>7, <1>8
<1>10. ASSUME NEW c \in Sends
       PROVE  /\ sends'[c] \in Chain
              /\ \/ sends'[c] = sends[c]
                 \/ \E k \in carried[sends'[c].hook] : sends'[c].attempt <= failures'[sends'[c].hook] + k
  <2>1. CASE c = s
    <3>1. sends'[c] = [hook |-> h, attempt |-> next]
      BY <1>1, <1>3, <2>1 DEF Chain
    <3> QED
      BY <1>4, <1>5, <3>1 DEF Chain
  <2>2. CASE c # s
    BY <1>3, <2>2
  <2> QED
    BY <2>1, <2>2
<1>11. sends' \in [Sends -> Chain]
  BY <1>3, <1>10
<1> QED
  BY <1>3, <1>4, <1>9, <1>10, <1>11, CountedOn

\* A chain that gives a hook up has counted to MaxRetries, and fails once more.
LEMMA SendGivesUp ==
  ASSUME WebhookInv, NEW s \in Sends, GiveUp(s)
  PROVE  /\ WebhookInv' /\ sends[s].hook \in Hooks
         /\ \E c \in carried[sends[s].hook] : failures[sends[s].hook] + 1 + c > MaxRetries
<1> USE DEF WebhookInv, WebhookTypeOK
<1>1. PICK h : h = sends[s].hook
  OBVIOUS
<1>2. /\ h # NoHook /\ ~(sends[s].attempt + 1 <= MaxRetries) /\ CountFailure(h)
      /\ UNCHANGED <<replaying, carried>>
      /\ hooks' = [hooks EXCEPT ![h].active = FALSE, ![h].retryCount = MaxRetries, ![h].lastStatus = "failed"]
      /\ sends' = [sends EXCEPT ![s] = NoSend]
  BY <1>1 DEF GiveUp, MoreRetries
<1>3. /\ h \in Hooks /\ sends[s].attempt \in 0 .. MaxRetries
      /\ failures' \in [Hooks -> 0 .. MaxRetries + 1] /\ \A i \in Hooks : failures[i] <= failures'[i]
  BY <1>1, <1>2, FailureCounted
<1>4. PICK c \in carried[h] : /\ c \in 0 .. MaxRetries /\ sends[s].attempt <= failures[h] + c
                              /\ \A m \in 0 .. MaxRetries :
                                   m <= sends[s].attempt + 1 => m <= failures'[h] + c
  BY <1>1, <1>2, FailureCounted
<1>5. failures[h] + 1 + c > MaxRetries /\ MaxRetries <= failures'[h] + c
  <2>1. MaxRetries \in 0 .. MaxRetries /\ MaxRetries <= sends[s].attempt + 1
    BY <1>2, <1>3, WebhookAssumption
  <2>2. failures[h] \in 0 .. MaxRetries + 1
    BY <1>3
  <2> QED
    BY <1>2, <1>3, <1>4, <2>1, <2>2, WebhookAssumption
<1>6. PICK row : row = [hooks[h] EXCEPT !.active = FALSE, !.retryCount = MaxRetries, !.lastStatus = "failed"]
  OBVIOUS
<1>7. row \in HookRows /\ row.retryCount = MaxRetries
  <2>1. hooks[h] \in HookRows /\ MaxRetries \in 0 .. MaxRetries
    BY <1>3, WebhookAssumption
  <2>2. row \in HookRows
    BY <1>6, <2>1, RowGivenUp
  <2> QED
    BY <1>6, <2>1, <2>2 DEF HookRows
<1>8. hooks' = [hooks EXCEPT ![h] = row]
  BY <1>2, <1>6
<1>9. /\ hooks' \in [Hooks -> HookRows]
      /\ \A i \in Hooks : \/ hooks'[i].retryCount = hooks[i].retryCount
                          \/ \E k \in carried[i] : hooks'[i].retryCount <= failures'[i] + k
  BY <1>3, <1>5, <1>7, <1>8
<1>10. sends' \in [Sends -> Chain] /\ \A i \in Sends : sends'[i] = sends[i] \/ sends'[i] = NoSend
  BY <1>2, WebhookAssumption DEF Chain, NoSend
<1>11. WebhookInv'
  BY <1>2, <1>3, <1>9, <1>10, CountedOn
<1> QED
  BY <1>1, <1>3, <1>4, <1>5, <1>11

\* Every step, and every stutter, keeps the invariant.
LEMMA HookNext == WebhookInv /\ [WebhookNext]_webhookVars => WebhookInv'
<1> SUFFICES ASSUME WebhookInv, [WebhookNext]_webhookVars PROVE WebhookInv'
  OBVIOUS
<1>1. ASSUME NEW h \in Hooks,
             \/ DeleteWebhook(h) \/ Reactivate(h)
             \/ \E row \in Columns : CreateWebhook(h, row) \/ UpdateWebhook(h, row)
      PROVE  WebhookInv'
  BY <1>1, RowWritten
<1>2. CASE Dispatch
  <2> DEFINE attempt == [h \in Hooks |-> 0]
             found == {h \in Hooks : hooks[h].there /\ hooks[h].active}
  <2>1. ASSUME NEW h \in Hooks PROVE Behind(h, 0)
    <3>1. PICK c \in carried[h] : hooks[h].retryCount <= failures[h] + c
      BY DEF WebhookInv, CountsBehind, Behind
    <3>2. c \in 0 .. MaxRetries /\ failures[h] \in 0 .. MaxRetries + 1
      BY <3>1 DEF WebhookInv, WebhookTypeOK
    <3>3. 0 <= failures[h] + c
      BY <3>2, WebhookAssumption
    <3> QED
      BY <3>3 DEF Behind
  <2>2. attempt \in [Hooks -> 0 .. MaxRetries] /\ \A h \in found : Behind(h, attempt[h])
    BY <2>1, WebhookAssumption
  <2>3. StartSends(found, attempt)
    BY <1>2 DEF Dispatch
  <2> QED
    BY <2>2, <2>3, ChainsStart
<1>3. CASE RetryFailedWebhooks
  <2> DEFINE attempt == [h \in Hooks |-> hooks[h].retryCount]
             found == {h \in Hooks : /\ hooks[h].there /\ hooks[h].active
                                     /\ hooks[h].retryCount \in 1..(MaxRetries - 1)}
  <2>1. attempt \in [Hooks -> 0 .. MaxRetries] /\ \A h \in found : Behind(h, attempt[h])
    BY DEF WebhookInv, WebhookTypeOK, HookRows, CountsBehind
  <2>2. StartSends(found, attempt)
    BY <1>3 DEF RetryFailedWebhooks
  <2> QED
    BY <2>1, <2>2, ChainsStart
<1>4. CASE ReplayFailed \/ UNCHANGED webhookVars
  BY <1>4 DEF ReplayFailed, webhookVars, WebhookInv, WebhookTypeOK, CountsBehind, ChainsBehind, Behind
<1>5. CASE Restart \/ \E s \in Sends : Orphaned(s)
  BY <1>5, ChainsLost DEF Restart, Orphaned
<1>6. ASSUME NEW s \in Sends, Succeed(s) \/ Fail(s) \/ GiveUp(s) PROVE WebhookInv'
  BY <1>6, SendSucceeds, SendFails, SendGivesUp
<1> QED
  BY <1>1, <1>2, <1>3, <1>4, <1>5, <1>6 DEF WebhookNext

\* Of all steps only the end of a chain switches its hook off.
LEMMA OnlyChainsGiveUp ==
  ASSUME WebhookInv, WebhookNext, NEW h \in Hooks, hooks[h].active, ~hooks'[h].active,
         NEW s \in Sends, sends[s].hook = h, sends'[s] = NoSend
  PROVE  \E c \in carried[h] : failures[h] + 1 + c > MaxRetries
<1>1. sends'[s] # sends[s] /\ hooks[h] \in HookRows /\ hooks \in [Hooks -> HookRows]
  BY WebhookAssumption DEF NoSend, WebhookInv, WebhookTypeOK
<1>2. UNCHANGED sends => FALSE
  BY <1>1
<1>3. UNCHANGED hooks => FALSE
  OBVIOUS
<1>4. ASSUME NEW c \in Sends, Succeed(c) PROVE FALSE
  <2>1. PICK i : hooks' = [hooks EXCEPT ![i].retryCount = 0, ![i].lastStatus = "ok"]
    BY <1>4 DEF Succeed
  <2> QED
    BY <1>1, <2>1 DEF HookRows
<1>5. ASSUME NEW c \in Sends, Fail(c) PROVE FALSE
  <2>1. PICK i, n, error : hooks' = [hooks EXCEPT ![i].retryCount = n, ![i].lastStatus = error]
    BY <1>5 DEF Fail
  <2> QED
    BY <1>1, <2>1 DEF HookRows
<1>6. ASSUME NEW c \in Sends, GiveUp(c) PROVE sends[c].hook = h
  <2>1. PICK i : i = sends[c].hook
    OBVIOUS
  <2>2. hooks' = [hooks EXCEPT ![i].active = FALSE, ![i].retryCount = MaxRetries, ![i].lastStatus = "failed"]
    BY <1>6, <2>1 DEF GiveUp
  <2>3. i # h => hooks'[h] = hooks[h]
    BY <1>1, <2>2
  <2> QED
    BY <2>1, <2>3
<1>7. \E c \in Sends : Succeed(c) \/ Fail(c) \/ GiveUp(c)
  BY <1>2, <1>3 DEF WebhookNext, DeleteWebhook, Reactivate, CreateWebhook, UpdateWebhook, Dispatch,
     RetryFailedWebhooks, StartSends, ReplayFailed, Restart, Orphaned
<1>8. PICK c \in Sends : GiveUp(c)
  BY <1>4, <1>5, <1>7
<1> QED
  BY <1>6, <1>8, SendGivesUp

\* However the chains, the daily job, the replays and the users' own writes meet
\* on a hook, a chain switches it off only for more than MaxRetries failures:
\* those since it last worked or was set back, and those one of the chains then
\* under way, or the count the user gave, had behind it (GivenUpForCause).
THEOREM HooksGivenUpForCause == WebhookSpec => GivenUpForCause
<1> DEFINE ForCause == \A h \in Hooks :
      hooks[h].active /\ ~hooks'[h].active /\ (\E s \in Sends : sends[s].hook = h /\ sends'[s] = NoSend)
        => \E c \in carried[h] : failures[h] + 1 + c > MaxRetries
<1>1. WebhookInv /\ [WebhookNext]_webhookVars => [ForCause]_webhookVars
  BY OnlyChainsGiveUp
<1>2. WebhookInit => WebhookInv
  BY HookInit
<1>3. WebhookInv /\ [WebhookNext]_webhookVars => WebhookInv'
  BY HookNext
<1> QED
  BY <1>1, <1>2, <1>3, PTL DEF WebhookSpec, GivenUpForCause
-----------------------------------------------------------------------------
\* API keys: what a key still opens.

\* What holds of the rows stays if no row goes, changes its expiry, or is
\* switched on.
LEMMA RowsStay ==
  ASSUME KeyInv,
         keyRow' \in [KeyIds -> KeyRows \union {NoKey}],
         \A k \in Rows : /\ k \in Rows' /\ keyRow'[k].expiresAt = keyRow[k].expiresAt
                         /\ ~keyRow[k].active => ~keyRow'[k].active
  PROVE  /\ \A k \in revoked : k \in Rows' /\ ~keyRow'[k].active
         /\ \A r \in Callers : caller[r] # NoKey =>
              /\ caller[r].key \in Rows'
              /\ caller[r].row.expiresAt = keyRow'[caller[r].key].expiresAt
              /\ caller[r].late => ~caller[r].row.active
         /\ \A s \in served : /\ s.on <= keyRow'[s.key].expiresAt /\ ~s.late
                              /\ s.key \in Rows'
<1>1. \A k \in revoked : k \in Rows' /\ ~keyRow'[k].active
  BY DEF KeyInv, RevokedOff
<1>2. ASSUME NEW r \in Callers, caller[r] # NoKey
      PROVE  /\ caller[r].key \in Rows'
             /\ caller[r].row.expiresAt = keyRow'[caller[r].key].expiresAt
             /\ caller[r].late => ~caller[r].row.active
  BY <1>2 DEF KeyInv, ReadsHold
<1>3. ASSUME NEW s \in served
      PROVE  s.on <= keyRow'[s.key].expiresAt /\ ~s.late /\ s.key \in Rows'
  BY <1>3 DEF KeyInv, KeyAlive
<1> QED
  BY <1>1, <1>2, <1>3

\* The initial states are in the invariant.
LEMMA KeyInit == ApiKeyInit => KeyInv
  BY DEF ApiKeyInit, KeyInv, ApiKeyTypeOK, RevokedOff, ReadsHold, KeyAlive, Rows

\* Steps that leave the rows alone.
LEMMA KeyReads ==
  ASSUME KeyInv, UNCHANGED <<keyRow, revoked>>,
         \/ \E c \in Creators, name \in Names, life \in Lives : CheckName(c, name, life)
         \/ \E r \in Callers : CanActivate(r) \/ \E k \in KeyIds : ValidateKey(r, k)
         \/ NextDay
         \/ UNCHANGED apiKeyVars
  PROVE  KeyInv'
<1> USE DEF KeyInv, ApiKeyTypeOK
<1>1. RevokedOff'
  BY DEF RevokedOff, Rows
<1>2. CASE \E c \in Creators, name \in Names, life \in Lives : CheckName(c, name, life)
  <2>1. PICK c \in Creators, name \in Names, life \in Lives : CheckName(c, name, life)
    BY <1>2
  <2>2. ExpiresAt(life) \in Nat
    BY ApiKeyAssumption DEF ExpiresAt, Never
  <2>3. [name |-> name, expiresAt |-> ExpiresAt(life)] \in Checks
    BY <2>2 DEF Checks
  <2>4. ApiKeyTypeOK'
    BY <2>1, <2>3 DEF CheckName
  <2> QED
    BY <1>1, <2>1, <2>4 DEF CheckName, ReadsHold, KeyAlive, Rows
<1>3. ASSUME NEW r \in Callers, NEW k \in KeyIds, ValidateKey(r, k) PROVE KeyInv'
  <2> DEFINE read == [key |-> k, row |-> keyRow[k], late |-> k \in revoked]
  <2>1. k \in Rows /\ keyRow[k] \in KeyRows
    BY <1>3 DEF ValidateKey, Rows
  <2>2. read \in Reads /\ (read.late => ~read.row.active)
    <3> DEFINE late == k \in revoked
    <3>1. late \in BOOLEAN
      OBVIOUS
    <3>2. late => ~keyRow[k].active
      BY DEF RevokedOff
    <3> HIDE DEF late
    <3>3. [key |-> k, row |-> keyRow[k], late |-> late] \in Reads
      BY <2>1, <3>1 DEF Reads
    <3> QED
      BY <3>2, <3>3 DEF late
  <2>3. caller' = [caller EXCEPT ![r] = read]
    BY <1>3 DEF ValidateKey
  <2> HIDE DEF read
  <2>4. ApiKeyTypeOK'
    BY <1>3, <2>2, <2>3 DEF ValidateKey
  <2>5. ReadsHold'
    BY <1>3, <2>1, <2>3, <2>2 DEF ReadsHold, ValidateKey, Rows, read
  <2> QED
    BY <1>1, <1>3, <2>4, <2>5 DEF ValidateKey, KeyAlive, Rows
<1>4. ASSUME NEW r \in Callers, CanActivate(r) PROVE KeyInv'
  <2> DEFINE read == caller[r]
             entry == [key |-> read.key, on |-> keyDay, late |-> read.late]
  <2>1. read \in Reads /\ read.key \in Rows /\ read.row.expiresAt = keyRow[read.key].expiresAt
        /\ (read.late => ~read.row.active)
    BY <1>4 DEF CanActivate, ReadsHold
  <2>2. served' = served \/ /\ served' = served \union {entry}
                            /\ read.row.active /\ ~(read.row.expiresAt < keyDay)
    BY <1>4 DEF CanActivate, Expired
  <2>3. /\ read.key \in KeyIds /\ read.late \in BOOLEAN /\ read.row.expiresAt \in Nat
    BY <2>1 DEF Reads, KeyRows
  <2>4. entry \in [key : KeyIds, on : Nat, late : BOOLEAN]
    BY <2>3
  <2>5. ApiKeyTypeOK'
    BY <1>4, <2>2, <2>4 DEF CanActivate
  <2>6. ReadsHold'
    BY <1>4 DEF CanActivate, ReadsHold, Rows
  <2>7. KeyAlive' /\ \A s \in served' : s.key \in Rows'
    <3>1. CASE served' = served
      BY <3>1 DEF KeyAlive, Rows
    <3>2. CASE served' = served \union {entry} /\ read.row.active /\ ~(read.row.expiresAt < keyDay)
      <4>1. entry.on <= keyRow'[entry.key].expiresAt /\ ~entry.late /\ entry.key \in Rows'
        BY <2>1, <2>3, <3>2 DEF Rows
      <4> QED
        BY <4>1, <3>2 DEF KeyAlive, Rows
    <3> QED
      BY <2>2, <3>1, <3>2
  <2> QED
    BY <1>1, <2>5, <2>6, <2>7
<1>5. CASE NextDay \/ UNCHANGED apiKeyVars
  BY <1>1, <1>5 DEF NextDay, apiKeyVars, ReadsHold, KeyAlive, Rows
<1> QED
  BY <1>2, <1>3, <1>4, <1>5

\* Steps that write rows.
LEMMA KeyWrites ==
  ASSUME KeyInv,
         \/ \E c \in Creators, k \in KeyIds : CreateKey(c, k)
         \/ \E k \in KeyIds : RevokeKey(k)
         \/ ExpireOldKeys
  PROVE  KeyInv'
<1> USE DEF KeyInv, ApiKeyTypeOK
<1>1. ASSUME NEW c \in Creators, NEW k \in KeyIds, CreateKey(c, k) PROVE KeyInv'
  <2> DEFINE row == [name |-> creator[c].name, expiresAt |-> creator[c].expiresAt, active |-> TRUE]
  <2>1. row \in KeyRows
    BY <1>1 DEF CreateKey, Checks, KeyRows
  <2>2. keyRow' = [keyRow EXCEPT ![k] = row] /\ k \notin Rows
    BY <1>1 DEF CreateKey, Rows
  <2> HIDE DEF row
  <2>3. ApiKeyTypeOK'
    BY <1>1, <2>1, <2>2 DEF CreateKey
  <2>4. \A i \in Rows : keyRow'[i] = keyRow[i] /\ i \in Rows'
    BY <2>2 DEF Rows
  <2> QED
    BY <1>1, <2>3, <2>4, RowsStay DEF CreateKey, RevokedOff, ReadsHold, KeyAlive
<1>2. ASSUME NEW k \in KeyIds, RevokeKey(k) PROVE KeyInv'
  <2>1. k \in Rows /\ keyRow[k] \in KeyRows
    BY <1>2 DEF RevokeKey, Rows
  <2>2. /\ [keyRow[k] EXCEPT !.active = FALSE] \in KeyRows
        /\ keyRow' = [keyRow EXCEPT ![k] = [keyRow[k] EXCEPT !.active = FALSE]]
    BY <1>2, <2>1 DEF RevokeKey, KeyRows
  <2>3. ApiKeyTypeOK'
    BY <1>2, <2>2 DEF RevokeKey
  <2>4. /\ k \in Rows' /\ keyRow'[k].expiresAt = keyRow[k].expiresAt /\ ~keyRow'[k].active
    BY <2>1, <2>2, ApiKeyAssumption DEF Rows, KeyRows
  <2>5. \A i \in Rows : /\ i \in Rows' /\ keyRow'[i].expiresAt = keyRow[i].expiresAt
                        /\ ~keyRow[i].active => ~keyRow'[i].active
    BY <2>2, <2>4 DEF Rows
  <2> QED
    BY <1>2, <2>3, <2>4, <2>5, RowsStay DEF RevokeKey, RevokedOff, ReadsHold, KeyAlive
<1>3. CASE ExpireOldKeys
  <2>1. ASSUME NEW k \in KeyIds
        PROVE  /\ keyRow'[k] \in KeyRows \union {NoKey}
               /\ k \in Rows => /\ k \in Rows' /\ keyRow'[k].expiresAt = keyRow[k].expiresAt
                                /\ ~keyRow[k].active => ~keyRow'[k].active
    <3>1. CASE k \in Rows /\ keyRow[k].expiresAt <= keyDay
      <4>1. keyRow[k] \in KeyRows
        BY <3>1 DEF Rows
      <4>2. keyRow'[k] = [keyRow[k] EXCEPT !.active = FALSE]
        BY <1>3, <3>1 DEF ExpireOldKeys
      <4>3. keyRow'[k] \in KeyRows
        BY <4>1, <4>2 DEF KeyRows
      <4> QED
        BY <4>1, <4>2, <4>3, ApiKeyAssumption DEF Rows, KeyRows
    <3>2. CASE ~(k \in Rows /\ keyRow[k].expiresAt <= keyDay)
      BY <1>3, <3>2 DEF ExpireOldKeys, Rows
    <3> QED
      BY <3>1, <3>2
  <2>2. keyRow' \in [KeyIds -> KeyRows \union {NoKey}]
    BY <1>3, <2>1 DEF ExpireOldKeys
  <2>3. \A i \in Rows : i \in KeyIds
    BY DEF Rows
  <2>4. \A i \in Rows : /\ i \in Rows' /\ keyRow'[i].expiresAt = keyRow[i].expiresAt
                        /\ ~keyRow[i].active => ~keyRow'[i].active
    BY <2>1, <2>3
  <2> QED
    BY <1>3, <2>2, <2>4, RowsStay DEF ExpireOldKeys, RevokedOff, ReadsHold, KeyAlive
<1> QED
  BY <1>1, <1>2, <1>3

\* Every step, and every stutter, keeps the invariant.
LEMMA KeyNext == KeyInv /\ [ApiKeyNext]_apiKeyVars => KeyInv'
<1> SUFFICES ASSUME KeyInv, [ApiKeyNext]_apiKeyVars PROVE KeyInv'
  OBVIOUS
<1>1. CASE \/ \E c \in Creators, name \in Names, life \in Lives : CheckName(c, name, life)
           \/ \E r \in Callers : CanActivate(r) \/ \E k \in KeyIds : ValidateKey(r, k)
           \/ NextDay
           \/ UNCHANGED apiKeyVars
  <2>1. UNCHANGED <<keyRow, revoked>>
    BY <1>1 DEF CheckName, CanActivate, ValidateKey, NextDay, apiKeyVars
  <2> QED
    BY <1>1, <2>1, KeyReads
<1>2. CASE \/ \E c \in Creators, k \in KeyIds : CreateKey(c, k)
           \/ \E k \in KeyIds : RevokeKey(k)
           \/ ExpireOldKeys
  BY <1>2, KeyWrites
<1> QED
  BY <1>1, <1>2 DEF ApiKeyNext

\* Whatever requests, revocations and the daily job do at once, a request that is
\* let through used a key that was alive (KeyAlive).
THEOREM KeysAlive == ApiKeySpec => []KeyAlive
<1>1. KeyInv => KeyAlive
  BY DEF KeyInv
<1> QED
  BY <1>1, KeyInit, KeyNext, PTL DEF ApiKeySpec
=============================================================================
