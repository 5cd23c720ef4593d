------------------------------ MODULE Assistant ------------------------------
(***************************************************************************)
(* AiService.processChat and executeTool                                   *)
(* (src/src/modules/ai/ai.service.ts): a chat reads the attachment with    *)
(* one model, asks another one, executes the first tool that one calls,    *)
(* asks again with the tool's result, and counts the usage of the company. *)
(*                                                                         *)
(* What the models answer, and whether they do, is any choice.             *)
(***************************************************************************)
EXTENDS Naturals, FiniteSets

CONSTANTS
    Firms,
    Chats,     \* calls of processChat
    Keys,      \* the skus and the nits a tool is given, or draws at random
    Plan,      \* Plan[t]: the plan of the subscription of t
    NoTenant

ASSUME AssistantAssumption ==
    /\ NoTenant \notin Firms
    /\ Plan \in [Firms -> {"starter", "pyme", "enterprise"}]

VARIABLES
    chat,       \* the calls, as records of their local state
    products,   \* rows of Product: [tenant, sku, stock]
    contacts,   \* rows of ThirdParty: [tenant, nit, kind]
    outbox,     \* chats whose mail was handed to the mail service
    touched,    \* history: what the tools wrote, as [by, tenant]
    counted     \* UsageRecords, per chat and metric

assistantVars == <<chat, products, contacts, outbox, touched, counted>>
-----------------------------------------------------------------------------
Metrics == {"ai_query", "ocr_run"}
\* The other tools, and a name that is no tool, read or answer a text.
Tools == {"create_product", "create_third_party", "send_email", "other"}

IdleChat == [pc |-> "idle", tenant |-> NoTenant, isSystemOwner |-> FALSE,
             vision |-> "", tool |-> "", target |-> NoTenant]

AssistantInit ==
    /\ chat = [c \in Chats |-> IdleChat]
    /\ products = {} /\ contacts = {} /\ outbox = {} /\ touched = {}
    /\ counted = [c \in Chats |-> [u \in Metrics |-> 0]]

GoOn(c, pc) == chat' = [chat EXCEPT ![c].pc = pc]

PlanFor(c) == IF chat[c].isSystemOwner THEN "enterprise" ELSE Plan[chat[c].tenant]

EffectiveTenant(c) ==
    IF chat[c].isSystemOwner /\ chat[c].target # NoTenant
    THEN chat[c].target ELSE chat[c].tenant

\* Not awaited; its errors are logged. The record of a metric may be missing.
Count(c, metrics) ==
    \E kept \in SUBSET metrics :
        counted' = [counted EXCEPT ![c] =
            [u \in Metrics |-> IF u \in kept THEN @[u] + 1 ELSE @[u]]]
-----------------------------------------------------------------------------
\* Without a key the chat is refused, as is an attachment on the smallest plan.
StartChat(c, t, isSystemOwner, attachment) ==
    /\ chat[c].pc = "idle"
    /\ chat' = [chat EXCEPT ![c] =
          [IdleChat EXCEPT !.tenant = t, !.isSystemOwner = isSystemOwner,
                           !.pc = IF attachment THEN "attachment" ELSE "ask"]]
    /\ UNCHANGED <<products, contacts, outbox, touched, counted>>

RefuseAttachment(c) ==
    /\ chat[c].pc = "attachment" /\ PlanFor(c) = "starter"
    /\ GoOn(c, "refused")
    /\ UNCHANGED <<products, contacts, outbox, touched, counted>>

\* An error of the vision model becomes the text that was read.
ReadAttachment(c) ==
    /\ chat[c].pc = "attachment" /\ PlanFor(c) # "starter"
    /\ \E vision \in {"", "text", "error"} :
          chat' = [chat EXCEPT ![c].vision = vision, ![c].pc = "ask"]
    /\ UNCHANGED <<products, contacts, outbox, touched, counted>>

\* The model answers, calls tools (all but the first are dropped), or fails; an
\* answer without a message and arguments that are no JSON count as failures.
Ask(c) ==
    /\ chat[c].pc = "ask"
    /\ \/ GoOn(c, "answered") \/ GoOn(c, "caught")
       \/ \E tool \in Tools, target \in Firms \union {NoTenant} :
            chat' = [chat EXCEPT ![c].tool = tool, ![c].target = target, ![c].pc = "tool"]
    /\ UNCHANGED <<products, contacts, outbox, touched, counted>>

AskAgain(c) ==
    /\ chat[c].pc = "follow"
    /\ \/ GoOn(c, "answered") \/ GoOn(c, "caught")
    /\ UNCHANGED <<products, contacts, outbox, touched, counted>>

\* The usage counts for the company of the caller, whichever the tool acted on.
Answered(c) ==
    /\ chat[c].pc = "answered"
    /\ Count(c, IF chat[c].vision = "" THEN {"ai_query"} ELSE Metrics)
    /\ GoOn(c, "done")
    /\ UNCHANGED <<products, contacts, outbox, touched>>

Caught_Both(c) ==   \* Mutant: as much is counted as for an answer.
    /\ chat[c].pc = "caught"
    /\ Count(c, IF chat[c].vision = "" THEN {"ai_query"} ELSE Metrics)
    /\ GoOn(c, "failed")
    /\ UNCHANGED <<products, contacts, outbox, touched>>
Caught(c) ==
    /\ chat[c].pc = "caught"
    /\ Count(c, {"ai_query"})
    /\ GoOn(c, "failed")
    /\ UNCHANGED <<products, contacts, outbox, touched>>
-----------------------------------------------------------------------------
\* executeTool. An error becomes the result of the tool, which the model gets.
UseTool(c, tool) ==
    /\ chat[c].pc = "tool" /\ chat[c].tool = tool
    /\ chat' = [chat EXCEPT ![c].pc = "follow", ![c].tool = "", ![c].target = NoTenant]

Touch(c) == touched' = touched \union {[by |-> c, tenant |-> EffectiveTenant(c)]}

FailTool(c) ==
    /\ UseTool(c, chat[c].tool)
    /\ UNCHANGED <<products, contacts, outbox, touched, counted>>

Read(c) ==
    /\ UseTool(c, "other")
    /\ UNCHANGED <<products, contacts, outbox, touched, counted>>

SendEmail(c) ==
    /\ UseTool(c, "send_email")
    /\ outbox' = outbox \union {c}
    /\ UNCHANGED <<products, contacts, touched, counted>>

\* No stock, like a stock of zero, is ten.
Quantity(n) == IF n = 0 THEN 10 ELSE n

\* A product that is there keeps its stock; no movement is written for a new
\* one.
CreateProduct(c, sku, n) ==
    LET t == EffectiveTenant(c)
        there == {p \in products : p.tenant = t /\ p.sku = sku}
    IN  /\ UseTool(c, "create_product")
        /\ products' = IF there # {} THEN products
                       ELSE products \union {[tenant |-> t, sku |-> sku, stock |-> Quantity(n)]}
        /\ Touch(c)
        /\ UNCHANGED <<contacts, outbox, counted>>

\* A party that is there keeps its kind.
CreateThirdParty(c, nit, kind) ==
    LET t == EffectiveTenant(c)
        there == {p \in contacts : p.tenant = t /\ p.nit = nit}
    IN  /\ UseTool(c, "create_third_party")
        /\ contacts' = IF there # {} THEN contacts
                       ELSE contacts \union {[tenant |-> t, nit |-> nit, kind |-> kind]}
        /\ Touch(c)
        /\ UNCHANGED <<products, outbox, counted>>

AssistantNext == \E c \in Chats :
    \/ \E t \in Firms, isSystemOwner, attachment \in BOOLEAN :
          StartChat(c, t, isSystemOwner, attachment)
    \/ RefuseAttachment(c) \/ ReadAttachment(c) \/ Ask(c) \/ AskAgain(c)
    \/ Answered(c) \/ Caught(c) \/ FailTool(c) \/ Read(c) \/ SendEmail(c)
    \/ \E key \in Keys :
         \/ \E n \in {0, 1} : CreateProduct(c, key, n)
         \/ \E kind \in {"client", "provider"} : CreateThirdParty(c, key, kind)

AssistantSpec == AssistantInit /\ [][AssistantNext]_assistantVars
-----------------------------------------------------------------------------
\* Whichever call of a chat fails, it counts one query at most, and only once a
\* model was asked; it counts a document only if it was answered, and one whose
\* attachment was refused or gave nothing counts none.
CountedOnce == \A c \in Chats :
    /\ counted[c]["ai_query"] <= IF chat[c].pc \in {"done", "failed"} THEN 1 ELSE 0
    /\ counted[c]["ocr_run"] <= IF chat[c].pc = "done" /\ chat[c].vision # "" THEN 1 ELSE 0

\* Whatever company the model names, the tools of a chat write to the company
\* of its caller, unless that is a system owner.
OwnCompanyOnly == \A w \in touched :
    chat[w.by].isSystemOwner \/ w.tenant = chat[w.by].tenant

\* What a chat leaves behind is its caller's, in number and in place.
ChatAccounted == CountedOnce /\ OwnCompanyOnly

-----------------------------------------------------------------------------
\* Why ChatAccounted holds: an invariant that is inductive.
ChatSteps == {"idle", "attachment", "ask", "tool", "follow", "answered", "caught", "refused", "done", "failed"}

ChatRows == [pc : ChatSteps, tenant : Firms \union {NoTenant}, isSystemOwner : BOOLEAN,
             vision : {"", "text", "error"}, tool : Tools \union {""}, target : Firms \union {NoTenant}]

AssistantTypeOK ==
    /\ chat \in [Chats -> ChatRows]
    /\ outbox \subseteq Chats
    /\ touched \subseteq [by : Chats, tenant : Firms \union {NoTenant}]
    /\ counted \in [Chats -> [Metrics -> Nat]]

\* Who wrote something has started: its caller does not change any more.
TouchedByStarted == \A w \in touched : chat[w.by].pc # "idle"

AssistantInv == AssistantTypeOK /\ TouchedByStarted /\ ChatAccounted
=============================================================================
