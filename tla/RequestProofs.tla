---------------------------- MODULE RequestProofs ----------------------------
(***************************************************************************)
(* Proofs about Access, Assistant and RateLimit: who is served, what a     *)
(* chat leaves in the account of its tokens, and how many requests get     *)
(* through, for every number of users, companies, tokens, requests, chats  *)
(* and keys.                                                               *)
(***************************************************************************)
EXTENDS Access, Assistant, RateLimit, FiniteSetTheorems, TLAPS
-----------------------------------------------------------------------------
\* Access: who is served held the role.

\* The initial states are in the invariant.
LEMMA RequestsInit == AccessInit => AccessInv
<1> SUFFICES ASSUME AccessInit PROVE AccessInv
  OBVIOUS
<1>1. NoRequest \in RequestRows /\ Len(NoRequest.tokens) = 0 /\ NoRequest.step = 0
      /\ NoRequest.answer = NoValue
  BY DEF NoRequest, RequestRows
<1>2. request = [q \in Requests |-> NoRequest] /\ held = [q \in Requests |-> {}]
      /\ DOMAIN signed = {} /\ expired = {}
  BY DEF AccessInit
<1>3. request \in [Requests -> RequestRows]
  BY <1>1, <1>2
<1>4. \A q \in Requests : request[q].step = 0 /\ Len(request[q].tokens) = 0 /\ request[q].answer = NoValue
  BY <1>1, <1>2
<1>5. AccessTypeOK
  BY <1>2, <1>3, <1>4 DEF AccessInit, AccessTypeOK
<1>6. ClaimsHold /\ HeldNow
  BY <1>2, <1>4 DEF ClaimsHold, HeldNow
<1>7. Authenticated /\ Permitted
  BY <1>4 DEF Authenticated, Permitted, Carries, IsPermitted, Passed
<1>8. NoValue # "served"
  BY AccessAssumption
<1> QED
  BY <1>5, <1>6, <1>7, <1>8, <1>4 DEF AccessInv, ServedLast

\* A step that leaves the requests and the roles alone; tokens may be signed.
LEMMA RequestsStay ==
  ASSUME AccessInv, UNCHANGED <<role, request, held>>, isOwner' \in BOOLEAN, ClaimsHold',
         expired' \subseteq DOMAIN signed', DOMAIN signed' \subseteq Tokens,
         DOMAIN signed \subseteq DOMAIN signed'
  PROVE  AccessInv'
<1> USE DEF AccessInv
<1>1. Seq(DOMAIN signed) \subseteq Seq(DOMAIN signed')
  OBVIOUS
<1>2. RequestRows \subseteq RequestRows'
  BY <1>1 DEF RequestRows
<1>3. AccessTypeOK'
  BY <1>2 DEF AccessTypeOK
<1>4. HeldNow'
  BY DEF HeldNow
<1>5. Authenticated' /\ Permitted' /\ ServedLast'
  BY DEF Authenticated, Permitted, Carries, IsPermitted, Allows, Passed, ServedLast, CheckedTenant, MayEnter
<1> QED
  BY <1>3, <1>4, <1>5

\* A step of one request, to a row of which the invariant's parts are known.
LEMMA RequestMoves ==
  ASSUME AccessInv, NEW q \in Requests, NEW row \in RequestRows,
         Len(row.tokens) <= 2, row.step > 0 => row.route \in Routes,
         request' = [request EXCEPT ![q] = row],
         UNCHANGED <<role, isOwner, signed, expired>>,
         held' \in [Requests -> SUBSET (Tenants \X (Roles \union {NoValue}))],
         \A p \in Requests \ {q} : held'[p] = held[p],
         row.step > 0 /\ row.answer = NoValue => \A x \in Tenants : <<x, role[x]>> \in held'[q],
         Carries(row), IsPermitted(row, held'[q]),
         row.answer = "served" => row.route \in Routes /\ row.step = Len(GuardsOf(row.route)) + 1
  PROVE  AccessInv'
<1> USE DEF AccessInv
<1>1. RequestRows' = RequestRows
  BY DEF RequestRows
<1>2. request' \in [Requests -> RequestRows]
  BY DEF AccessTypeOK
<1>3. request'[q] = row /\ \A p \in Requests \ {q} : request'[p] = request[p]
  BY DEF AccessTypeOK
<1>4. AccessTypeOK'
  BY <1>1, <1>2, <1>3 DEF AccessTypeOK
<1>5. ClaimsHold'
  BY DEF ClaimsHold
<1>6. HeldNow'
  BY <1>3 DEF HeldNow
<1>7. Authenticated'
  <2>1. \A p \in Requests : Carries(request'[p])
    BY <1>3 DEF Authenticated
  <2> QED
    BY <2>1 DEF Authenticated, Carries, Passed, MayEnter
<1>8. Permitted'
  <2>1. \A p \in Requests : IsPermitted(request'[p], held'[p])
    BY <1>3 DEF Permitted
  <2> QED
    BY <2>1 DEF Permitted, IsPermitted, Passed, Allows, CheckedTenant
<1>9. ServedLast'
  BY <1>3 DEF ServedLast
<1> QED
  BY <1>4, <1>5, <1>6, <1>7, <1>8, <1>9

\* What changes around the requests.
LEMMA TokenSigned ==
  ASSUME AccessInv, NEW t \in Tokens, SignIn(t)
  PROVE  AccessInv'
<1> USE DEF AccessInv, AccessTypeOK
<1>1. PICK x \in Tenants :
        LET claims == [isOwner |-> isOwner, tenant |-> x, tenants |-> {y \in Tenants : role[y] # NoValue}]
        IN  /\ role[x] # NoValue \/ isOwner
            /\ signed' = [s \in DOMAIN signed \union {t} |-> IF s = t THEN claims ELSE signed[s]]
  BY DEF SignIn
<1> DEFINE claims == [isOwner |-> isOwner, tenant |-> x, tenants |-> {y \in Tenants : role[y] # NoValue}]
<1>2. claims \in ClaimRows /\ (claims.isOwner \/ claims.tenant \in claims.tenants)
  BY <1>1 DEF ClaimRows
<1>3. signed' = [s \in DOMAIN signed \union {t} |-> IF s = t THEN claims ELSE signed[s]]
  BY <1>1
<1> HIDE DEF claims
<1>4. DOMAIN signed' = DOMAIN signed \union {t}
  BY <1>3
<1>5. ClaimsHold'
  BY <1>2, <1>3, <1>4 DEF ClaimsHold, AccessInv, ClaimRows
<1>6. UNCHANGED <<role, request, held, isOwner, expired>>
  BY DEF SignIn
<1> QED
  BY <1>4, <1>5, <1>6, RequestsStay DEF AccessInv, AccessTypeOK

\* Tokens that expire, and what guards read besides roles, change nothing of it.
LEMMA SurroundingsChange ==
  ASSUME AccessInv,
         \/ \E t \in Tokens : Expire(t)
         \/ \E x \in Tenants : ChangeSubscription(x) \/ Use(x) \/ Onboard(x)
         \/ ChangeProfile
  PROVE  AccessInv'
<1>1. UNCHANGED <<role, request, held, isOwner, signed>> /\ expired' \subseteq DOMAIN signed'
  BY DEF Expire, ChangeSubscription, Use, Onboard, ChangeProfile, AccessInv, AccessTypeOK
<1>2. ClaimsHold'
  BY <1>1 DEF ClaimsHold, AccessInv
<1> QED
  BY <1>1, <1>2, RequestsStay DEF AccessInv, AccessTypeOK

\* The history of a request on its way takes in the role that is new.
LEMMA RoleChanges ==
  ASSUME AccessInv, NEW x \in Tenants, ChangeRole(x)
  PROVE  AccessInv'
<1> USE DEF AccessInv
<1>1. UNCHANGED <<request, isOwner, signed, expired>>
  BY DEF ChangeRole
<1>2. role' \in [Tenants -> Roles \union {NoValue}] /\ \A y \in Tenants \ {x} : role'[y] = role[y]
  BY DEF ChangeRole, AccessTypeOK
<1>3. held' = [q \in Requests |-> IF request[q].answer # NoValue THEN held[q]
                                    ELSE held[q] \union {<<x, role'[x]>>}]
  BY DEF ChangeRole
<1>4. held' \in [Requests -> SUBSET (Tenants \X (Roles \union {NoValue}))]
  BY <1>2, <1>3 DEF AccessTypeOK
<1>5. \A q \in Requests : held[q] \subseteq held'[q]
  BY <1>3
<1>6. AccessTypeOK'
  BY <1>1, <1>2, <1>4 DEF AccessTypeOK, RequestRows
<1>7. HeldNow'
  BY <1>1, <1>2, <1>3 DEF HeldNow
<1>8. Permitted'
  <2>1. \A q \in Requests : IsPermitted(request[q], held'[q])
    BY <1>5 DEF Permitted, IsPermitted, Allows
  <2> QED
    BY <2>1, <1>1 DEF Permitted, IsPermitted, Passed, Allows, CheckedTenant
<1>9. ClaimsHold' /\ ServedLast' /\ Authenticated'
  BY <1>1 DEF ClaimsHold, ServedLast, Authenticated, Carries, Passed, MayEnter
<1> QED
  BY <1>6, <1>7, <1>8, <1>9

\* A request comes in with the roles of the moment.
LEMMA RequestArrives ==
  ASSUME AccessInv, NEW q \in Requests, Arrive(q)
  PROVE  AccessInv'
<1> USE DEF AccessInv
<1>1. PICK route \in Routes, header \in Tenants \union {NoValue},
          tokens \in UNION {[1 .. n -> DOMAIN signed] : n \in 0 .. 2} :
         request' = [request EXCEPT ![q] =
                       [step |-> 1, route |-> route, header |-> header, tokens |-> tokens,
                        authUser |-> NoValue, answer |-> NoValue]]
  BY DEF Arrive
<1> DEFINE row == [step |-> 1, route |-> route, header |-> header, tokens |-> tokens,
                   authUser |-> NoValue, answer |-> NoValue]
<1>2. tokens \in Seq(DOMAIN signed) /\ Len(tokens) <= 2
  <2>1. PICK n \in 0 .. 2 : tokens \in [1 .. n -> DOMAIN signed]
    OBVIOUS
  <2> QED
    BY <2>1
<1>3. row \in RequestRows /\ Len(row.tokens) <= 2 /\ row.step = 1 /\ row.route \in Routes
      /\ row.answer = NoValue
  BY <1>2 DEF RequestRows
<1>4. request' = [request EXCEPT ![q] = row]
  BY <1>1
<1>5. ~\E i \in DOMAIN GuardsOf(row.route) : i < row.step
  BY <1>3, GuardOrder
<1>6. Carries(row) /\ IsPermitted(row, held'[q])
  BY <1>5 DEF Carries, IsPermitted, Passed
<1> HIDE DEF row
<1>7. UNCHANGED <<role, isOwner, signed, expired>>
  BY DEF Arrive
<1>8. held' = [held EXCEPT ![q] = {<<x, role[x]>> : x \in Tenants}]
  BY DEF Arrive
<1>9. \A x \in Tenants : role[x] \in Roles \union {NoValue}
  BY DEF AccessTypeOK
<1>10. held' \in [Requests -> SUBSET (Tenants \X (Roles \union {NoValue}))]
  BY <1>8, <1>9 DEF AccessTypeOK
<1>11. (\A p \in Requests \ {q} : held'[p] = held[p]) /\ \A x \in Tenants : <<x, role[x]>> \in held'[q]
  BY <1>8 DEF AccessTypeOK
<1>12. row.answer # "served"
  BY <1>3, AccessAssumption
<1> QED
  BY <1>3, <1>4, <1>6, <1>7, <1>10, <1>11, <1>12, RequestMoves

\* A request that is turned away keeps what it carries.
LEMMA TurnedAway ==
  ASSUME AccessInv, NEW q \in Requests, NEW guard \in Guards, At(q, guard), Answer(q, guard),
         UNCHANGED <<role, isOwner, signed, expired, held>>
  PROVE  AccessInv'
<1> USE DEF AccessInv
<1> DEFINE row == [request[q] EXCEPT !.answer = guard]
<1>1. request[q] \in RequestRows /\ request[q].step > 0 /\ request[q].step \in Nat
      /\ Carries(request[q]) /\ IsPermitted(request[q], held[q])
      /\ request[q].route \in Routes /\ Len(request[q].tokens) <= 2
  BY DEF AccessTypeOK, At, Authenticated, Permitted, RequestRows
<1>2. row \in RequestRows /\ Len(row.tokens) <= 2 /\ row.step > 0 /\ row.route \in Routes
      /\ row.answer = guard /\ row.step = request[q].step /\ row.route = request[q].route
  BY <1>1 DEF RequestRows
<1>3. Carries(row) /\ IsPermitted(row, held'[q])
  BY <1>1 DEF Carries, IsPermitted, Passed, MayEnter, Allows, CheckedTenant, RequestRows
<1>4. request' = [request EXCEPT ![q] = row]
  BY DEF Answer
<1>5. \A x \in Tenants : <<x, role[x]>> \in held'[q] \/ guard # NoValue
  BY DEF HeldNow, At
<1>6. guard # "served"
  BY DEF Guards
<1> HIDE DEF row
<1> QED
  BY <1>2, <1>3, <1>4, <1>5, <1>6, RequestMoves DEF AccessTypeOK

\* A request that passes a guard without changing what it carries.
LEMMA MovesOn ==
  ASSUME AccessInv, NEW q \in Requests, NEW guard \in Guards, At(q, guard), Proceed(q),
         UNCHANGED <<role, isOwner, signed, expired, held>>,
         guard = "auth" => request[q].route.public,
         guard = "permissions" => Passes(guard, request[q])
  PROVE  AccessInv'
<1> USE DEF AccessInv
<1> DEFINE r == request[q]
           row == [r EXCEPT !.step = @ + 1]
<1>1. r \in RequestRows /\ r.step > 0 /\ r.step \in Nat /\ Carries(r) /\ IsPermitted(r, held[q])
      /\ r.route \in Routes /\ Len(r.tokens) <= 2 /\ r.answer = NoValue
      /\ GuardsOf(r.route)[r.step] = guard
  BY DEF AccessTypeOK, At, Authenticated, Permitted, RequestRows
<1>2. request' = [request EXCEPT ![q] = row]
  BY DEF Proceed
<1>3. row \in RequestRows /\ row.step = r.step + 1 /\ row.route = r.route /\ row.header = r.header
      /\ row.tokens = r.tokens /\ row.authUser = r.authUser /\ row.answer = r.answer
  BY <1>1 DEF RequestRows
<1> HIDE DEF r, row
<1>4. GuardsOf(r.route) \in Seq(STRING)
  BY <1>1, GuardOrder
<1>5. ASSUME NEW other \in Guards, Passed(row, other), other # guard
      PROVE  Passed(r, other)
  BY <1>1, <1>3, <1>4, <1>5 DEF Passed
<1>6. Carries(row)
  <2>1. SUFFICES ASSUME Passed(row, "auth"), ~row.route.public
                 PROVE  /\ row.authUser \in ClaimRows
                        /\ row.authUser.isOwner \/ row.authUser.tenant \in row.authUser.tenants
                        /\ MayEnter(row.authUser, row.header)
    BY DEF Carries
  <2>2. Passed(r, "auth")
    BY <1>3, <1>5, <2>1 DEF Guards, r
  <2> QED
    BY <1>1, <1>3, <2>1, <2>2 DEF Carries
<1>7. IsPermitted(row, held'[q])
  <2>1. SUFFICES ASSUME Passed(row, "permissions"), ~row.route.public, row.route.permission # NoValue
                 PROVE  row.authUser.isOwner \/ Allows(held[q], row)
    BY DEF IsPermitted
  <2>2. CASE guard # "permissions"
    <3>1. Passed(r, "permissions")
      BY <1>5, <2>1, <2>2 DEF Guards
    <3> QED
      BY <1>1, <1>3, <2>1, <3>1 DEF IsPermitted, Allows, CheckedTenant
  <2>3. CASE guard = "permissions"
    <3>1. r.authUser # NoValue /\ (r.authUser.isOwner \/ Grants(CheckedTenant(r), r.route.permission))
      BY <1>3, <2>1, <2>3 DEF Passes, r
    <3>2. CheckedTenant(r) \in Tenants
      BY <1>1, <3>1 DEF CheckedTenant, RequestRows, ClaimRows
    <3>3. <<CheckedTenant(r), role[CheckedTenant(r)]>> \in held[q]
      BY <1>1, <3>2 DEF HeldNow, r
    <3>4. CheckedTenant(row) = CheckedTenant(r)
      BY <1>3 DEF CheckedTenant
    <3> QED
      BY <1>3, <3>1, <3>3, <3>4 DEF Grants, Allows
  <2> QED
    BY <2>2, <2>3
<1>8. row.answer # "served"
  BY <1>1, <1>3, AccessAssumption
<1>9. \A x \in Tenants : <<x, role[x]>> \in held'[q]
  BY <1>1 DEF HeldNow, r
<1>10. Len(row.tokens) <= 2 /\ row.route \in Routes
  BY <1>1, <1>3
<1>11. held' \in [Requests -> SUBSET (Tenants \X (Roles \union {NoValue}))]
       /\ \A p \in Requests \ {q} : held'[p] = held[p]
  BY DEF AccessTypeOK
<1> QED
  BY <1>2, <1>3, <1>6, <1>7, <1>8, <1>9, <1>10, <1>11, RequestMoves

\* A request without a valid token stops; one with a token carries its claims.
LEMMA TokenFound ==
  ASSUME AccessInv, NEW q \in Requests, NEW valid,
         valid = {i \in DOMAIN request[q].tokens : request[q].tokens[i] \notin expired}, valid # {}
  PROVE  request[q].tokens[CHOOSE i \in valid : \A j \in valid : i <= j] \in DOMAIN signed
<1> DEFINE tokens == request[q].tokens
<1>1. tokens \in Seq(DOMAIN signed) /\ Len(tokens) <= 2
  BY DEF AccessInv, AccessTypeOK, RequestRows
<1> HIDE DEF tokens
<1>2. valid \subseteq {1, 2} /\ valid \subseteq 1 .. Len(tokens)
  BY <1>1 DEF tokens
<1>3. \E i \in valid : \A j \in valid : i <= j
  BY <1>2
<1> DEFINE first == CHOOSE i \in valid : \A j \in valid : i <= j
<1>4. first \in valid
  BY <1>3
<1> HIDE DEF first
<1>5. tokens[first] \in DOMAIN signed
  BY <1>1, <1>2, <1>4
<1> QED
  BY <1>5 DEF tokens, first

\* A request whose token is valid carries its claims from AuthGuard on.
LEMMA SignedIn ==
  ASSUME AccessInv, NEW q \in Requests, At(q, "auth"), NEW t \in DOMAIN signed,
         MayEnter(signed[t], request[q].header),
         request' = [request EXCEPT ![q].authUser = signed[t], ![q].step = @ + 1],
         UNCHANGED <<role, isOwner, signed, expired, held>>
  PROVE  AccessInv'
<1> USE DEF AccessInv
<1> DEFINE r == request[q]
           half == [r EXCEPT !.authUser = signed[t]]
           row == [half EXCEPT !.step = @ + 1]
<1>1. r \in RequestRows /\ r.step > 0 /\ r.step \in Nat /\ r.route \in Routes
      /\ Len(r.tokens) <= 2 /\ r.answer = NoValue /\ r.step <= Len(GuardsOf(r.route))
      /\ GuardsOf(r.route)[r.step] = "auth"
  BY DEF AccessTypeOK, At, RequestRows
<1>2. signed[t] \in ClaimRows /\ (signed[t].isOwner \/ signed[t].tenant \in signed[t].tenants)
  BY DEF ClaimsHold
<1>3. request' = [request EXCEPT ![q] = row]
  OBVIOUS
<1>4. half \in RequestRows /\ half.step = r.step /\ half.route = r.route /\ half.header = r.header
      /\ half.tokens = r.tokens /\ half.answer = r.answer /\ half.authUser = signed[t]
  BY <1>1, <1>2 DEF RequestRows
<1> HIDE DEF half
<1>5. row \in RequestRows /\ row.step = r.step + 1 /\ row.route = r.route /\ row.header = r.header
      /\ row.tokens = r.tokens /\ row.answer = r.answer /\ row.authUser = signed[t]
  BY <1>1, <1>4 DEF RequestRows
<1> HIDE DEF row, r
<1>6. Carries(row)
  BY <1>2, <1>5 DEF Carries, r
<1>7. ~Passed(row, "permissions")
  <2> DEFINE guards == GuardsOf(r.route)
  <2>1. guards \in Seq(STRING)
        /\ (\A i \in DOMAIN guards : guards[i] = "permissions" => \E j \in 1 .. i - 1 : guards[j] = "auth")
        /\ \A i, j \in DOMAIN guards : guards[i] = "auth" /\ guards[j] = "auth" => i = j
    BY <1>1, GuardOrder
  <2> HIDE DEF guards
  <2>2. r.step \in DOMAIN guards /\ guards[r.step] = "auth"
    BY <1>1, <2>1 DEF guards
  <2>3. ASSUME NEW i \in DOMAIN guards, i < r.step + 1, guards[i] = "permissions" PROVE FALSE
    <3>1. PICK j \in 1 .. i - 1 : guards[j] = "auth"
      BY <2>1, <2>3
    <3>2. j \in DOMAIN guards /\ j < r.step
      BY <1>1, <2>1, <2>3
    <3> QED
      BY <2>1, <2>2, <3>1, <3>2
  <2> QED
    BY <1>5, <2>3 DEF Passed, guards
<1>8. IsPermitted(row, held'[q])
  BY <1>7 DEF IsPermitted
<1>9. row.answer # "served"
  BY <1>1, <1>5, AccessAssumption
<1>10. \A x \in Tenants : <<x, role[x]>> \in held'[q]
  BY <1>1 DEF HeldNow, r
<1>11. Len(row.tokens) <= 2 /\ row.route \in Routes
  BY <1>1, <1>5
<1>12. held' \in [Requests -> SUBSET (Tenants \X (Roles \union {NoValue}))]
       /\ \A p \in Requests \ {q} : held'[p] = held[p]
  BY DEF AccessTypeOK
<1> QED
  BY <1>3, <1>5, <1>6, <1>8, <1>9, <1>10, <1>11, <1>12, RequestMoves

\* AuthGuard, in its three cases.
LEMMA RequestAuthenticated ==
  ASSUME AccessInv, NEW q \in Requests, Authenticate(q)
  PROVE  AccessInv'
<1> DEFINE r == request[q]
           valid == {i \in DOMAIN r.tokens : r.tokens[i] \notin expired}
           token == r.tokens[CHOOSE i \in valid : \A j \in valid : i <= j]
<1>1. At(q, "auth") /\ UNCHANGED <<role, isOwner, signed, expired, held>> /\ "auth" \in Guards
  BY DEF Authenticate, Guards
<1>2. CASE r.route.public
  <2>1. Proceed(q)
    BY <1>2 DEF Authenticate
  <2> QED
    BY <1>1, <1>2, <2>1, MovesOn
<1>3. CASE ~r.route.public /\ (valid = {} \/ ~MayEnter(signed[token], r.header))
  <2>1. Answer(q, "auth")
    BY <1>3 DEF Authenticate
  <2> QED
    BY <1>1, <2>1, TurnedAway
<1>4. CASE ~r.route.public /\ valid # {} /\ MayEnter(signed[token], r.header)
  <2>1. request' = [request EXCEPT ![q].authUser = signed[token], ![q].step = @ + 1]
    BY <1>4 DEF Authenticate
  <2>2. token \in DOMAIN signed
    BY <1>4, TokenFound
  <2> QED
    BY <1>1, <1>4, <2>1, <2>2, SignedIn
<1> QED
  BY <1>2, <1>3, <1>4

\* Any other guard lets through or turns away.
LEMMA RequestChecked ==
  ASSUME AccessInv, NEW q \in Requests,
         NEW guard \in {"twoFactor", "onboarding", "subscription", "plan", "permissions"}, Check(q, guard)
  PROVE  AccessInv'
<1>1. At(q, guard) /\ UNCHANGED <<role, isOwner, signed, expired, held>> /\ guard \in Guards /\ guard # "auth"
  BY DEF Check, Guards
<1>2. CASE Passes(guard, request[q])
  <2>1. Proceed(q)
    BY <1>2 DEF Check
  <2> QED
    BY <1>1, <1>2, <2>1, MovesOn
<1>3. CASE ~Passes(guard, request[q])
  <2>1. Answer(q, guard)
    BY <1>3 DEF Check
  <2> QED
    BY <1>1, <2>1, TurnedAway
<1> QED
  BY <1>2, <1>3

\* The handler runs when all guards have passed.
LEMMA RequestServed ==
  ASSUME AccessInv, NEW q \in Requests, Serve(q)
  PROVE  AccessInv'
<1> USE DEF AccessInv
<1> DEFINE row == [request[q] EXCEPT !.answer = "served"]
<1>1. request[q] \in RequestRows /\ request[q].step > 0
      /\ Carries(request[q]) /\ IsPermitted(request[q], held[q])
      /\ request[q].route \in Routes /\ Len(request[q].tokens) <= 2
      /\ request[q].step = Len(GuardsOf(request[q].route)) + 1
  BY DEF AccessTypeOK, Serve, Authenticated, Permitted, RequestRows, GlobalGuards
<1>2. row \in RequestRows /\ Len(row.tokens) <= 2 /\ row.step > 0 /\ row.route \in Routes
      /\ row.answer = "served" /\ row.step = request[q].step /\ row.route = request[q].route
      /\ row.step = Len(GuardsOf(row.route)) + 1
  BY <1>1 DEF RequestRows
<1>3. Carries(row) /\ IsPermitted(row, held[q])
  BY <1>1 DEF Carries, IsPermitted, Passed, MayEnter, Allows, CheckedTenant, RequestRows
<1>4. request' = [request EXCEPT ![q] = row]
  BY DEF Serve, Answer
<1>5. row.answer # NoValue
  BY <1>2, AccessAssumption
<1>6. UNCHANGED <<role, isOwner, signed, expired, held>>
  BY DEF Serve
<1> HIDE DEF row
<1>7. IsPermitted(row, held'[q])
  BY <1>3, <1>6
<1> QED
  BY <1>2, <1>3, <1>4, <1>5, <1>6, <1>7, RequestMoves DEF AccessTypeOK

\* Every step, and every stutter, keeps the invariant.
LEMMA RequestsNext == AccessInv /\ [AccessNext]_accessVars => AccessInv'
<1> SUFFICES ASSUME AccessInv, [AccessNext]_accessVars PROVE AccessInv'
  OBVIOUS
<1>1. CASE \E t \in Tokens : SignIn(t)
  BY <1>1, TokenSigned
<1>2. CASE \E x \in Tenants : ChangeRole(x)
  BY <1>2, RoleChanges
<1>3. CASE \/ \E t \in Tokens : Expire(t)
           \/ \E x \in Tenants : ChangeSubscription(x) \/ Use(x) \/ Onboard(x)
           \/ ChangeProfile
  BY <1>3, SurroundingsChange
<1>4. CASE \E q \in Requests : Arrive(q)
  BY <1>4, RequestArrives
<1>5. CASE \E q \in Requests : Authenticate(q)
  BY <1>5, RequestAuthenticated
<1>6. CASE \E q \in Requests : Serve(q)
  BY <1>6, RequestServed
<1>7. CASE \E q \in Requests, guard \in {"twoFactor", "onboarding", "subscription", "plan", "permissions"} :
             Check(q, guard)
  BY <1>7, RequestChecked
<1>8. CASE UNCHANGED accessVars
  <2>1. UNCHANGED <<role, request, held, isOwner, expired, signed>>
    BY <1>8 DEF accessVars
  <2>2. ClaimsHold'
    BY <2>1 DEF ClaimsHold, AccessInv
  <2> QED
    BY <2>1, <2>2, RequestsStay DEF AccessInv, AccessTypeOK
<1> QED
  BY <1>1, <1>2, <1>3, <1>4, <1>5, <1>6, <1>7, <1>8 DEF AccessNext

\* Who is served behind PermissionsGuard held a role with the permission in the
\* company the handler works for, and the token names that company.
THEOREM ServedWithARole == AccessSpec => []RoleHeld
<1>1. AccessInv => RoleHeld
  <2> SUFFICES ASSUME AccessInv, NEW q \in Requests,
                      request[q].answer = "served", Guarded(request[q].route), ~request[q].route.public,
                      request[q].route.permission # NoValue, ~request[q].authUser.isOwner
               PROVE  /\ TenantId(request[q]) \in request[q].authUser.tenants
                      /\ \E h \in held[q] : /\ h[1] = TenantId(request[q]) /\ h[2] \in DOMAIN ROLE_DEFINITIONS
                                            /\ request[q].route.permission \in ROLE_DEFINITIONS[h[2]]
    BY DEF RoleHeld
  <2> DEFINE r == request[q]
             guards == GuardsOf(r.route)
  <2>1. r.route \in Routes /\ r.step = Len(guards) + 1 /\ Carries(r) /\ IsPermitted(r, held[q])
    BY DEF AccessInv, ServedLast, Authenticated, Permitted
  <2>2. guards \in Seq(STRING)
        /\ (\A i \in DOMAIN guards : guards[i] = "permissions" => \E j \in 1 .. i - 1 : guards[j] = "auth")
    BY <2>1, GuardOrder
  <2>3. PICK i \in DOMAIN guards : guards[i] = "permissions"
    BY DEF Guarded
  <2> HIDE DEF r, guards
  <2>4. PICK j \in 1 .. i - 1 : guards[j] = "auth"
    BY <2>2, <2>3
  <2>5. i < r.step /\ j \in DOMAIN guards /\ j < r.step /\ r.step > 0
    BY <2>1, <2>2, <2>3, <2>4
  <2>6. Passed(r, "auth") /\ Passed(r, "permissions")
    BY <2>3, <2>4, <2>5 DEF Passed, guards
  <2>7. TenantId(r) = CheckedTenant(r)
    BY DEF TenantId, CheckedTenant
  <2>8. TenantId(r) \in r.authUser.tenants
    BY <2>1, <2>6 DEF Carries, MayEnter, TenantId, r
  <2>9. Allows(held[q], r)
    BY <2>1, <2>6 DEF IsPermitted, r
  <2> QED
    BY <2>7, <2>8, <2>9 DEF Allows, r
<1> QED
  BY RequestsInit, RequestsNext, <1>1, PTL DEF AccessSpec
-----------------------------------------------------------------------------
\* Assistant: what a chat is charged.

\* The initial states are in the invariant.
LEMMA ChatsInit == AssistantInit => AssistantInv
<1> SUFFICES ASSUME AssistantInit PROVE AssistantInv
  OBVIOUS
<1>1. AssistantTypeOK
  <2>1. IdleChat \in ChatRows
    BY DEF IdleChat, ChatRows, ChatSteps
  <2> QED
    BY <2>1 DEF AssistantInit, AssistantTypeOK
<1>2. ChatAccounted
  BY DEF AssistantInit, ChatAccounted, CountedOnce, OwnCompanyOnly, Metrics
<1> QED
  BY <1>1, <1>2 DEF AssistantInit, AssistantInv, TouchedByStarted

\* A chat that has started and goes to another step, before its usage is counted.
LEMMA ChatGoesOn ==
  ASSUME AssistantInv, NEW c \in Chats, NEW row \in ChatRows,
         chat[c].pc \in ChatSteps \ {"idle", "done", "failed"},
         row.pc \in ChatSteps \ {"idle", "done", "failed"},
         row.tenant = chat[c].tenant, row.isSystemOwner = chat[c].isSystemOwner,
         chat' = [chat EXCEPT ![c] = row],
         UNCHANGED counted, outbox' \subseteq Chats,
         \/ UNCHANGED touched
         \/ touched' = touched \union {[by |-> c, tenant |-> EffectiveTenant(c)]}
  PROVE  AssistantInv'
<1>1. chat'[c] = row /\ \A o \in Chats \ {c} : chat'[o] = chat[o]
  BY DEF AssistantInv, AssistantTypeOK
<1>2. AssistantTypeOK'
  <2>1. chat[c] \in ChatRows
    BY DEF AssistantInv, AssistantTypeOK
  <2>2. EffectiveTenant(c) \in Firms \union {NoTenant}
    BY <2>1 DEF ChatRows, EffectiveTenant
  <2>3. [by |-> c, tenant |-> EffectiveTenant(c)] \in [by : Chats, tenant : Firms \union {NoTenant}]
    BY <2>2
  <2> QED
    BY <2>3 DEF AssistantInv, AssistantTypeOK
<1>3. ASSUME NEW w \in touched'
      PROVE  /\ chat'[w.by].pc # "idle"
             /\ chat'[w.by].isSystemOwner \/ w.tenant = chat'[w.by].tenant
  <2>1. CASE w \in touched
    <3>1. w.by \in Chats
      BY <2>1 DEF AssistantInv, AssistantTypeOK
    <3> QED
      BY <1>1, <2>1, <3>1 DEF AssistantInv, TouchedByStarted, ChatAccounted, OwnCompanyOnly
  <2>2. CASE w = [by |-> c, tenant |-> EffectiveTenant(c)]
    <3>1. w.by = c /\ w.tenant = EffectiveTenant(c)
      BY <2>2
    <3> QED
      BY <1>1, <3>1 DEF EffectiveTenant
  <2> QED
    BY <2>1, <2>2
<1>4. CountedOnce'
  <2> SUFFICES ASSUME NEW o \in Chats
               PROVE  /\ counted[o]["ai_query"] <= IF chat'[o].pc \in {"done", "failed"} THEN 1 ELSE 0
                      /\ counted[o]["ocr_run"] <= IF chat'[o].pc = "done" /\ chat'[o].vision # "" THEN 1 ELSE 0
    BY DEF CountedOnce
  <2>1. CASE o = c
    BY <1>1, <2>1 DEF AssistantInv, ChatAccounted, CountedOnce, ChatSteps
  <2>2. CASE o # c
    BY <1>1, <2>2 DEF AssistantInv, ChatAccounted, CountedOnce
  <2> QED
    BY <2>1, <2>2
<1> QED
  BY <1>2, <1>3, <1>4 DEF AssistantInv, ChatAccounted, TouchedByStarted, OwnCompanyOnly

\* A chat that starts has touched nothing.
LEMMA ChatStarts ==
  ASSUME AssistantInv, NEW c \in Chats, NEW t \in Firms, NEW isSystemOwner \in BOOLEAN,
         NEW attachment \in BOOLEAN, StartChat(c, t, isSystemOwner, attachment)
  PROVE  AssistantInv'
<1> DEFINE pc == IF attachment THEN "attachment" ELSE "ask"
           row == [IdleChat EXCEPT !.tenant = t, !.isSystemOwner = isSystemOwner, !.pc = pc]
<1>1. /\ chat[c].pc = "idle" /\ chat' = [chat EXCEPT ![c] = row]
      /\ UNCHANGED <<outbox, touched, counted>>
  BY DEF StartChat
<1>2. pc \in {"attachment", "ask"}
  OBVIOUS
<1> HIDE DEF pc
<1>4. row \in ChatRows /\ row.pc = pc
  <2> DEFINE first == [IdleChat EXCEPT !.tenant = t]
             second == [first EXCEPT !.isSystemOwner = isSystemOwner]
  <2>1. row = [second EXCEPT !.pc = pc]
    OBVIOUS
  <2>2. first \in ChatRows
    <3>1. IdleChat \in ChatRows
      BY DEF IdleChat, ChatRows, ChatSteps
    <3> QED
      BY <3>1 DEF ChatRows
  <2> HIDE DEF first
  <2>3. second \in ChatRows
    BY <2>2 DEF ChatRows
  <2> HIDE DEF second
  <2> QED
    BY <1>2, <2>1, <2>3 DEF ChatRows, ChatSteps
<1> HIDE DEF row
<1>5. AssistantTypeOK'
  BY <1>1, <1>4 DEF AssistantInv, AssistantTypeOK
<1>6. chat'[c] = row /\ \A o \in Chats \ {c} : chat'[o] = chat[o]
  BY <1>1 DEF AssistantInv, AssistantTypeOK
<1>7. \A w \in touched : w.by # c /\ w.by \in Chats
  BY <1>1 DEF AssistantInv, AssistantTypeOK, TouchedByStarted
<1>8. TouchedByStarted' /\ OwnCompanyOnly'
  BY <1>1, <1>6, <1>7 DEF AssistantInv, TouchedByStarted, ChatAccounted, OwnCompanyOnly
<1>9. CountedOnce'
  <2> SUFFICES ASSUME NEW o \in Chats
               PROVE  /\ counted[o]["ai_query"] <= IF chat'[o].pc \in {"done", "failed"} THEN 1 ELSE 0
                      /\ counted[o]["ocr_run"] <= IF chat'[o].pc = "done" /\ chat'[o].vision # "" THEN 1 ELSE 0
    BY <1>1 DEF CountedOnce
  <2>1. CASE o = c
    BY <1>1, <1>2, <1>4, <1>6, <2>1 DEF AssistantInv, ChatAccounted, CountedOnce
  <2>2. CASE o # c
    BY <1>6, <2>2 DEF AssistantInv, ChatAccounted, CountedOnce
  <2> QED
    BY <2>1, <2>2
<1> QED
  BY <1>5, <1>8, <1>9 DEF AssistantInv, ChatAccounted

\* The end, which counts what was asked once; a document, for an answer only.
LEMMA ChatEnds ==
  ASSUME AssistantInv, NEW c \in Chats, Answered(c) \/ Caught(c)
  PROVE  AssistantInv'
<1> DEFINE old == chat[c]
<1>0. old \in ChatRows /\ counted[c] \in [Metrics -> Nat]
  BY DEF AssistantInv, AssistantTypeOK
<1>1. PICK kept \in SUBSET Metrics :
        /\ counted' = [counted EXCEPT ![c] = [u \in Metrics |-> IF u \in kept THEN @[u] + 1 ELSE @[u]]]
        /\ "ocr_run" \in kept => old.pc = "answered" /\ old.vision # ""
  <2>1. CASE Answered(c)
    BY <2>1 DEF Answered, Count, Metrics
  <2>2. CASE Caught(c)
    BY <2>2 DEF Caught, Count, Metrics
  <2> QED
    BY <2>1, <2>2
<1>2. PICK end \in {"done", "failed"} :
        /\ chat' = [chat EXCEPT ![c] = [old EXCEPT !.pc = end]]
        /\ old.pc = "answered" => end = "done"
  BY DEF Answered, Caught, GoOn
<1>3. old.pc \in {"answered", "caught"} /\ UNCHANGED <<outbox, touched>>
  BY DEF Answered, Caught
<1> DEFINE row == [old EXCEPT !.pc = end]
           counts == [u \in Metrics |-> IF u \in kept THEN counted[c][u] + 1 ELSE counted[c][u]]
<1>4. /\ row \in ChatRows /\ row.pc = end /\ row.vision = old.vision
      /\ row.tenant = old.tenant /\ row.isSystemOwner = old.isSystemOwner
  BY <1>0 DEF ChatRows, ChatSteps
<1>5. /\ counts \in [Metrics -> Nat]
      /\ counts["ai_query"] <= counted[c]["ai_query"] + 1
      /\ counts["ocr_run"] = counted[c]["ocr_run"] + (IF "ocr_run" \in kept THEN 1 ELSE 0)
  BY <1>0 DEF Metrics
<1>6. chat' = [chat EXCEPT ![c] = row] /\ counted' = [counted EXCEPT ![c] = counts]
  BY <1>1, <1>2
<1> HIDE DEF row, counts
<1>7. /\ AssistantTypeOK' /\ chat'[c] = row /\ counted'[c] = counts
      /\ \A o \in Chats \ {c} : chat'[o] = chat[o] /\ counted'[o] = counted[o]
  BY <1>3, <1>4, <1>5, <1>6 DEF AssistantInv, AssistantTypeOK
<1>8. ASSUME NEW w \in touched'
      PROVE  /\ chat'[w.by].pc # "idle"
             /\ chat'[w.by].isSystemOwner \/ w.tenant = chat'[w.by].tenant
  <2>1. w \in touched /\ w.by \in Chats
    BY <1>3 DEF AssistantInv, AssistantTypeOK
  <2> QED
    BY <1>4, <1>7, <2>1 DEF AssistantInv, TouchedByStarted, ChatAccounted, OwnCompanyOnly
<1>9. CountedOnce'
  <2> SUFFICES ASSUME NEW o \in Chats
               PROVE  /\ counted'[o]["ai_query"] <= IF chat'[o].pc \in {"done", "failed"} THEN 1 ELSE 0
                      /\ counted'[o]["ocr_run"] <= IF chat'[o].pc = "done" /\ chat'[o].vision # "" THEN 1 ELSE 0
    BY DEF CountedOnce
  <2>1. CASE o = c
    <3>1. counted[c]["ai_query"] = 0 /\ counted[c]["ocr_run"] = 0
      <4>1. counted[c]["ai_query"] <= 0 /\ counted[c]["ocr_run"] <= 0
        BY <1>3 DEF AssistantInv, ChatAccounted, CountedOnce
      <4>2. counted[c]["ai_query"] \in Nat /\ counted[c]["ocr_run"] \in Nat
        BY <1>0 DEF Metrics
      <4> QED
        BY <4>1, <4>2
    <3>2. counted'[c]["ai_query"] <= 1 /\ counted'[c]["ocr_run"] = IF "ocr_run" \in kept THEN 1 ELSE 0
      BY <1>5, <1>7, <3>1 DEF Metrics
    <3>3. chat'[c].pc = end /\ chat'[c].vision = old.vision
      BY <1>4, <1>7
    <3>4. CASE "ocr_run" \in kept
      <4>1. chat'[o].pc = "done" /\ chat'[o].vision # ""
        BY <1>1, <1>2, <2>1, <3>3, <3>4
      <4>2. counted'[o]["ai_query"] <= 1 /\ counted'[o]["ocr_run"] <= 1
        BY <2>1, <3>2
      <4> QED
        BY <4>1, <4>2
    <3>5. CASE "ocr_run" \notin kept
      BY <2>1, <3>2, <3>3, <3>5
    <3> QED
      BY <3>4, <3>5
  <2>2. CASE o # c
    BY <1>7, <2>2 DEF AssistantInv, ChatAccounted, CountedOnce
  <2> QED
    BY <2>1, <2>2
<1> QED
  BY <1>7, <1>8, <1>9 DEF AssistantInv, ChatAccounted, TouchedByStarted, OwnCompanyOnly

\* Every step, and every stutter, keeps the invariant.
LEMMA ChatsNext == AssistantInv /\ [AssistantNext]_assistantVars => AssistantInv'
<1> SUFFICES ASSUME AssistantInv, [AssistantNext]_assistantVars PROVE AssistantInv'
  OBVIOUS
<1>1. CASE UNCHANGED assistantVars
  BY <1>1 DEF assistantVars, AssistantInv, AssistantTypeOK, TouchedByStarted, ChatAccounted, CountedOnce,
     OwnCompanyOnly
<1> SUFFICES ASSUME AssistantNext PROVE AssistantInv'
  BY <1>1
<1>2. PICK c \in Chats :
        \/ \E t \in Firms, isSystemOwner, attachment \in BOOLEAN :
              StartChat(c, t, isSystemOwner, attachment)
        \/ RefuseAttachment(c) \/ ReadAttachment(c) \/ Ask(c) \/ AskAgain(c)
        \/ Answered(c) \/ Caught(c) \/ FailTool(c) \/ Read(c) \/ SendEmail(c)
        \/ \E key \in Keys :
             \/ \E n \in {0, 1} : CreateProduct(c, key, n)
             \/ \E kind \in {"client", "provider"} : CreateThirdParty(c, key, kind)
  BY DEF AssistantNext
<1> DEFINE old == chat[c]
           before == ChatSteps \ {"idle", "done", "failed"}
<1>3. old \in ChatRows /\ chat \in [Chats -> ChatRows] /\ outbox \subseteq Chats
  BY DEF AssistantInv, AssistantTypeOK
<1>4. ASSUME NEW row \in ChatRows, NEW pc \in before, old.pc \in before,
             row.tenant = old.tenant, row.isSystemOwner = old.isSystemOwner,
             chat' = [chat EXCEPT ![c] = [row EXCEPT !.pc = pc]],
             UNCHANGED counted, outbox' \subseteq Chats,
             \/ UNCHANGED touched
             \/ touched' = touched \union {[by |-> c, tenant |-> EffectiveTenant(c)]}
      PROVE  AssistantInv'
  <2> DEFINE new == [row EXCEPT !.pc = pc]
  <2>1. /\ new \in ChatRows /\ new.pc = pc
        /\ new.tenant = old.tenant /\ new.isSystemOwner = old.isSystemOwner
    BY <1>4 DEF ChatRows
  <2>2. chat' = [chat EXCEPT ![c] = new]
    BY <1>4
  <2> HIDE DEF new
  <2> QED
    BY <1>4, <2>1, <2>2, ChatGoesOn
<1>5. CASE \/ RefuseAttachment(c) \/ AskAgain(c)
           \/ Ask(c) /\ (GoOn(c, "answered") \/ GoOn(c, "caught"))
  <2>1. PICK pc \in {"refused", "answered", "caught"} : chat' = [chat EXCEPT ![c] = [old EXCEPT !.pc = pc]]
    BY <1>5 DEF RefuseAttachment, AskAgain, GoOn
  <2>2. old.pc \in {"attachment", "ask", "follow"} /\ UNCHANGED <<outbox, touched, counted>>
    BY <1>5 DEF RefuseAttachment, AskAgain, Ask
  <2>3. pc \in before /\ old.pc \in before
    BY <2>2 DEF ChatSteps
  <2> QED
    BY <1>3, <1>4, <2>1, <2>2, <2>3
<1>6. CASE ReadAttachment(c)
  <2>1. PICK vision \in {"", "text", "error"} : chat' = [chat EXCEPT ![c].vision = vision, ![c].pc = "ask"]
    BY <1>6 DEF ReadAttachment
  <2> DEFINE row == [old EXCEPT !.vision = vision]
  <2>2. row \in ChatRows /\ row.tenant = old.tenant /\ row.isSystemOwner = old.isSystemOwner
    BY <1>3 DEF ChatRows
  <2>3. chat' = [chat EXCEPT ![c] = [row EXCEPT !.pc = "ask"]]
    BY <2>1
  <2>4. "ask" \in before /\ old.pc \in before /\ UNCHANGED <<outbox, touched, counted>>
    BY <1>6 DEF ReadAttachment, ChatSteps
  <2> HIDE DEF row
  <2> QED
    BY <1>3, <1>4, <2>2, <2>3, <2>4
<1>7. ASSUME NEW tool \in Tools \union {""}, NEW target \in Firms \union {NoTenant}, NEW pc \in before,
             old.pc \in before,
             chat' = [chat EXCEPT ![c].tool = tool, ![c].target = target, ![c].pc = pc],
             UNCHANGED counted, outbox' \subseteq Chats,
             \/ UNCHANGED touched
             \/ touched' = touched \union {[by |-> c, tenant |-> EffectiveTenant(c)]}
      PROVE  AssistantInv'
  <2> DEFINE with == [old EXCEPT !.tool = tool]
             row == [with EXCEPT !.target = target]
  <2>1. with \in ChatRows /\ with.tenant = old.tenant /\ with.isSystemOwner = old.isSystemOwner
    BY <1>3 DEF ChatRows
  <2>2. chat' = [chat EXCEPT ![c] = [row EXCEPT !.pc = pc]]
    BY <1>7
  <2> HIDE DEF with
  <2>3. row \in ChatRows /\ row.tenant = old.tenant /\ row.isSystemOwner = old.isSystemOwner
    BY <2>1 DEF ChatRows
  <2> HIDE DEF row
  <2> QED
    BY <1>4, <1>7, <2>2, <2>3
<1>8. CASE Ask(c) /\ \E tool \in Tools, target \in Firms \union {NoTenant} :
            chat' = [chat EXCEPT ![c].tool = tool, ![c].target = target, ![c].pc = "tool"]
  <2>1. PICK tool \in Tools, target \in Firms \union {NoTenant} :
          chat' = [chat EXCEPT ![c].tool = tool, ![c].target = target, ![c].pc = "tool"]
    BY <1>8
  <2>2. "tool" \in before /\ old.pc \in before /\ UNCHANGED <<outbox, touched, counted>>
    BY <1>8 DEF Ask, ChatSteps
  <2> QED
    BY <1>3, <1>7, <2>1, <2>2
<1>9. CASE FailTool(c) \/ Read(c) \/ SendEmail(c)
           \/ \E key \in Keys : \/ \E n \in {0, 1} : CreateProduct(c, key, n)
                                \/ \E kind \in {"client", "provider"} : CreateThirdParty(c, key, kind)
  <2>1. /\ old.pc = "tool"
        /\ chat' = [chat EXCEPT ![c].pc = "follow", ![c].tool = "", ![c].target = NoTenant]
    BY <1>9 DEF FailTool, Read, SendEmail, CreateProduct, CreateThirdParty, UseTool
  <2>2. chat' = [chat EXCEPT ![c].tool = "", ![c].target = NoTenant, ![c].pc = "follow"]
    <3>1. [old EXCEPT !.pc = "follow", !.tool = "", !.target = NoTenant]
            = [old EXCEPT !.tool = "", !.target = NoTenant, !.pc = "follow"]
      OBVIOUS
    <3> QED
      BY <2>1, <3>1
  <2>3. /\ UNCHANGED counted /\ outbox' \subseteq Chats
        /\ \/ UNCHANGED touched
           \/ touched' = touched \union {[by |-> c, tenant |-> EffectiveTenant(c)]}
    BY <1>3, <1>9 DEF FailTool, Read, SendEmail, CreateProduct, CreateThirdParty, Touch
  <2>4. "follow" \in before /\ old.pc \in before
    BY <2>1 DEF ChatSteps
  <2> QED
    BY <1>7, <2>2, <2>3, <2>4
<1>10. CASE Answered(c) \/ Caught(c)
  BY <1>10, ChatEnds
<1>11. ASSUME NEW t \in Firms, NEW isSystemOwner \in BOOLEAN, NEW attachment \in BOOLEAN,
              StartChat(c, t, isSystemOwner, attachment)
       PROVE  AssistantInv'
  BY <1>11, ChatStarts
<1>12. CASE Ask(c)
  <2>1. \/ GoOn(c, "answered") \/ GoOn(c, "caught")
        \/ \E tool \in Tools, target \in Firms \union {NoTenant} :
             chat' = [chat EXCEPT ![c].tool = tool, ![c].target = target, ![c].pc = "tool"]
    BY <1>12 DEF Ask
  <2> QED
    BY <1>5, <1>8, <1>12, <2>1
<1> QED
  BY <1>2, <1>5, <1>6, <1>9, <1>10, <1>11, <1>12

\* Whatever the models answer and whichever call fails, a chat counts one query
\* and one document at most, and its tools write to the company of its caller,
\* unless that is a system owner (ChatAccounted).
THEOREM ChatsAccounted == AssistantSpec => []ChatAccounted
<1>1. AssistantInv => ChatAccounted
  BY DEF AssistantInv
<1> QED
  BY <1>1, ChatsInit, ChatsNext, PTL DEF AssistantSpec

-----------------------------------------------------------------------------
\* The rate limit.

\* Some of the places in a sequence are finitely many.
LEMMA PlacesFinite ==
  ASSUME NEW R, NEW s \in Seq(R), NEW S, S \subseteq DOMAIN s
  PROVE  IsFiniteSet(S) /\ Cardinality(S) \in Nat
<1>1. DOMAIN s = 1 .. Len(s) /\ Len(s) \in Nat
  OBVIOUS
<1>2. IsFiniteSet(DOMAIN s)
  BY <1>1, FS_Interval
<1> QED
  BY <1>2, FS_Subset, FS_CardinalityType

\* The fields of what was let through.
LEMMA AdmittedTyped ==
  ASSUME RateType, NEW k \in RateKeys, NEW i \in DOMAIN admitted[k]
  PROVE  /\ admitted[k][i].at \in Nat /\ admitted[k][i].until \in Nat
         /\ admitted[k][i].place \in 1 .. Limit
<1> DEFINE R == [at : Nat, until : Nat, place : 1 .. Limit]
<1>1. admitted[k] \in Seq(R)
  BY DEF RateType
<1>2. admitted[k][i] \in R
  <2> HIDE DEF R
  <2> QED
    BY <1>1
<1> QED
  BY <1>2

\* A span meets two windows at most.
LEMMA TwoWindows ==
  ASSUME RateType, PlacesDiffer, NEW k \in RateKeys, NEW from \in Nat
  PROVE  \E a, b \in Nat : \A i \in Admitted(k, from .. from + Window) :
            admitted[k][i].until \in {a, b}
<1> DEFINE S == Admitted(k, from .. from + Window)
           u(i) == admitted[k][i].until
<1>0. Window \in Nat
  BY RateAssumption
<1>1. \A i \in S : i \in DOMAIN admitted[k] /\ u(i) \in Nat
  BY AdmittedTyped DEF Admitted
<1>2. \A i \in S : admitted[k][i].at \in Nat /\ from <= admitted[k][i].at /\ admitted[k][i].at <= from + Window
  BY <1>0, <1>1, AdmittedTyped DEF Admitted
<1>3. \A i \in S : admitted[k][i].at <= u(i) /\ u(i) <= admitted[k][i].at + Window
  BY <1>1 DEF PlacesDiffer
<1>4. \A i, j \in S : u(i) < u(j) => u(i) + Window < u(j)
  BY <1>1 DEF PlacesDiffer
<1>5. \A i \in S : from <= u(i) /\ u(i) <= from + Window + Window
  BY <1>0, <1>1, <1>2, <1>3
<1>6. ASSUME NEW i \in S, NEW j \in S, NEW l \in S, u(i) < u(j), u(j) < u(l)
      PROVE  FALSE
  <2>1. u(i) + Window < u(j) /\ u(j) + Window < u(l)
    BY <1>4, <1>6
  <2> QED
    BY <1>0, <1>1, <1>5, <2>1
<1>7. CASE \A i, j \in S : u(i) = u(j)
  <2>1. CASE S = {}
    BY <2>1
  <2>2. CASE S # {}
    BY <1>1, <1>7, <2>2
  <2> QED
    BY <2>1, <2>2
<1>8. CASE \E i, j \in S : u(i) # u(j)
  <2>1. PICK i \in S, j \in S : u(i) # u(j)
    BY <1>8
  <2>2. \A l \in S : u(l) \in {u(i), u(j)}
    BY <1>1, <1>6, <2>1
  <2> QED
    BY <1>1, <2>2
<1> QED
  BY <1>7, <1>8

\* Two windows let through at most twice the limit.
LEMMA BoundedStep == RateType /\ PlacesDiffer => RateBounded
<1> SUFFICES ASSUME RateType, PlacesDiffer, NEW k \in RateKeys, NEW from \in 0 .. MaxClock
             PROVE  Cardinality(Admitted(k, from .. from + Window)) <= 2 * Limit
  BY DEF RateBounded
<1>0. from \in Nat /\ Limit \in Nat
  BY RateAssumption
<1>1. PICK a \in Nat, b \in Nat : \A i \in Admitted(k, from .. from + Window) :
                                     admitted[k][i].until \in {a, b}
  BY <1>0, TwoWindows
<1> DEFINE S == Admitted(k, from .. from + Window)
           T == {a, b} \X (1 .. Limit)
           f == [i \in S |-> <<admitted[k][i].until, admitted[k][i].place>>]
<1>2. IsFiniteSet({a, b}) /\ Cardinality({a, b}) \in Nat /\ Cardinality({a, b}) <= 2
  <2>1. {a, b} = {a} \union {b}
    OBVIOUS
  <2>2. IsFiniteSet({a}) /\ Cardinality({a}) = 1
    BY FS_Singleton
  <2>3. /\ IsFiniteSet({a} \union {b})
        /\ Cardinality({a} \union {b}) = IF b \in {a} THEN Cardinality({a}) ELSE Cardinality({a}) + 1
    BY <2>2, FS_AddElement
  <2>4. Cardinality({a} \union {b}) \in {1, 2}
    BY <2>2, <2>3
  <2> QED
    BY <2>1, <2>3, <2>4
<1>3. IsFiniteSet(1 .. Limit) /\ Cardinality(1 .. Limit) = Limit
  BY <1>0, FS_Interval
<1>4. IsFiniteSet(T) /\ Cardinality(T) = Cardinality({a, b}) * Limit
  BY <1>2, <1>3, FS_Product
<1>5. \A i \in S : i \in DOMAIN admitted[k] /\ admitted[k][i].place \in 1 .. Limit
  BY AdmittedTyped DEF Admitted
<1>6. f \in [S -> T]
  BY <1>1, <1>5
<1>7. \A i, j \in S : i # j => f[i] # f[j]
  BY <1>5 DEF PlacesDiffer
<1>8. f \in Injection(S, T)
  BY <1>6, <1>7 DEF Injection, IsInjective
<1>9. Cardinality(S) <= Cardinality(T)
  BY <1>4, <1>8, FS_Injection
<1>10. Cardinality({a, b}) * Limit <= 2 * Limit
  <2>1. Cardinality({a, b}) \in 0 .. 2
    BY <1>2
  <2>2. CASE Cardinality({a, b}) = 0
    BY <1>0, <2>2
  <2>3. CASE Cardinality({a, b}) = 1
    BY <1>0, <2>3
  <2>4. CASE Cardinality({a, b}) = 2
    BY <1>0, <2>4
  <2> QED
    BY <2>1, <2>2, <2>3, <2>4
<1>11. Cardinality(S) \in Nat
  BY PlacesFinite DEF Admitted, RateType
<1> QED
  BY <1>0, <1>2, <1>4, <1>9, <1>10, <1>11

\* At first nothing has been counted.
LEMMA RateInitial == RateInit => RateInv
<1> SUFFICES ASSUME RateInit PROVE RateInv
  OBVIOUS
<1>1. \A k \in RateKeys : admitted[k] = <<>> /\ refused[k] = {}
  BY DEF RateInit
<1>2. RateType
  BY DEF RateInit, RateType
<1> QED
  BY <1>1, <1>2 DEF RateInit, RateInv, PlacesDiffer, WindowsCount, RefusedOverLimit

\* What letting a request through does to the history.
LEMMA AdmitOne ==
  ASSUME RateType, NEW k \in RateKeys, NEW u \in Nat, NEW n \in 1 .. Limit, Admit(k, u, n)
  PROVE  /\ admitted' \in [RateKeys -> Seq([at : Nat, until : Nat, place : 1 .. Limit])]
         /\ \A l \in RateKeys \ {k} : admitted'[l] = admitted[l]
         /\ Len(admitted[k]) \in Nat /\ DOMAIN admitted[k] = 1 .. Len(admitted[k])
         /\ DOMAIN admitted'[k] = 1 .. Len(admitted[k]) + 1
         /\ \A i \in DOMAIN admitted[k] : admitted'[k][i] = admitted[k][i]
         /\ admitted'[k][Len(admitted[k]) + 1] = [at |-> clock, until |-> u, place |-> n]
<1> DEFINE R == [at : Nat, until : Nat, place : 1 .. Limit]
           r == [at |-> clock, until |-> u, place |-> n]
<1>1. admitted \in [RateKeys -> Seq(R)] /\ r \in R
  BY DEF RateType
<1>2. admitted' = [admitted EXCEPT ![k] = Append(@, r)]
  BY DEF Admit
<1> HIDE DEF R, r
<1>3. admitted'[k] = Append(admitted[k], r) /\ admitted[k] \in Seq(R)
  BY <1>1, <1>2
<1>4. admitted' \in [RateKeys -> Seq(R)] /\ \A l \in RateKeys \ {k} : admitted'[l] = admitted[l]
  BY <1>1, <1>2
<1>5. /\ Len(admitted[k]) \in Nat /\ DOMAIN admitted[k] = 1 .. Len(admitted[k])
      /\ DOMAIN admitted'[k] = 1 .. Len(admitted[k]) + 1
      /\ \A i \in DOMAIN admitted[k] : admitted'[k][i] = admitted[k][i]
      /\ admitted'[k][Len(admitted[k]) + 1] = r
  BY <1>1, <1>3
<1> QED
  BY <1>4, <1>5 DEF R, r

\* What was let through before stays where it was.
LEMMA AdmitKeeps ==
  ASSUME RateType, NEW k \in RateKeys, NEW u \in Nat, NEW n \in 1 .. Limit, Admit(k, u, n)
  PROVE  \A l \in RateKeys : \A i \in DOMAIN admitted[l] :
            i \in DOMAIN admitted'[l] /\ admitted'[l][i] = admitted[l][i]
<1>1. /\ \A l \in RateKeys \ {k} : admitted'[l] = admitted[l]
      /\ Len(admitted[k]) \in Nat /\ DOMAIN admitted[k] = 1 .. Len(admitted[k])
      /\ DOMAIN admitted'[k] = 1 .. Len(admitted[k]) + 1
      /\ \A i \in DOMAIN admitted[k] : admitted'[k][i] = admitted[k][i]
  BY AdmitOne
<1>2. DOMAIN admitted[k] \subseteq DOMAIN admitted'[k]
  BY <1>1
<1> QED
  BY <1>1, <1>2

\* A request let through leaves the history consistent if its place is free and
\* its window is not over and does not overlap another.
LEMMA PlacesStep ==
  ASSUME RateType, PlacesDiffer, clock' = clock, NEW k \in RateKeys, NEW u \in Nat,
         NEW n \in 1 .. Limit, Admit(k, u, n), clock <= u, u <= clock + Window,
         \A i \in DOMAIN admitted[k] :
            \/ admitted[k][i].until + Window < u
            \/ admitted[k][i].until = u /\ admitted[k][i].place # n
  PROVE  PlacesDiffer'
<1> DEFINE m == Len(admitted[k]) + 1
           r == [at |-> clock, until |-> u, place |-> n]
<1>0. /\ \A l \in RateKeys \ {k} : admitted'[l] = admitted[l]
      /\ Len(admitted[k]) \in Nat /\ DOMAIN admitted[k] = 1 .. Len(admitted[k])
      /\ DOMAIN admitted'[k] = 1 .. m
      /\ \A i \in DOMAIN admitted[k] : admitted'[k][i] = admitted[k][i]
      /\ admitted'[k][m] = r
  BY AdmitOne
<1>1. r.at = clock /\ r.until = u /\ r.place = n /\ clock \in Nat /\ Window \in Nat
  BY RateAssumption DEF RateType
<1> HIDE DEF r
<1>2. \A i \in DOMAIN admitted'[k] : i = m \/ i \in DOMAIN admitted[k]
  BY <1>0
<1>3. ASSUME NEW i \in DOMAIN admitted[k]
      PROVE  /\ admitted[k][i].until \in Nat
             /\ admitted[k][i].until # u => admitted[k][i].until + Window < u
             /\ admitted[k][i].until = u => admitted[k][i].place # n
  BY <1>1, <1>3, AdmittedTyped
<1> DEFINE Apart(a, b) == /\ a.until = b.until => a.place # b.place
                          /\ a.until < b.until => a.until + Window < b.until
           Good(a) == /\ a.at <= a.until /\ a.until <= a.at + Window /\ a.at <= clock
                      /\ a.until \in Nat
<1>4. \A l \in RateKeys : \A i, j \in DOMAIN admitted[l] :
         Good(admitted[l][i]) /\ (i # j => Apart(admitted[l][i], admitted[l][j]))
  BY AdmittedTyped, <1>1 DEF PlacesDiffer
<1>5. \A i \in DOMAIN admitted[k] : Apart(admitted[k][i], r) /\ Apart(r, admitted[k][i])
  BY <1>1, <1>3
<1>6. Good(r)
  BY <1>1
<1>7. \A i, j \in DOMAIN admitted'[k] :
         Good(admitted'[k][i]) /\ (i # j => Apart(admitted'[k][i], admitted'[k][j]))
  <2> HIDE DEF Good, Apart
  <2> QED
    BY <1>0, <1>2, <1>4, <1>5, <1>6
<1>8. \A l \in RateKeys \ {k} : \A i, j \in DOMAIN admitted'[l] :
         Good(admitted'[l][i]) /\ (i # j => Apart(admitted'[l][i], admitted'[l][j]))
  <2> HIDE DEF Good, Apart
  <2> QED
    BY <1>0, <1>4
<1>9. ASSUME NEW l \in RateKeys, NEW i \in DOMAIN admitted'[l], NEW j \in DOMAIN admitted'[l]
      PROVE  /\ Good(admitted'[l][i])
             /\ i # j => Apart(admitted'[l][i], admitted'[l][j])
  <2> HIDE DEF Good, Apart
  <2> QED
    BY <1>7, <1>8
<1>10. ASSUME NEW l \in RateKeys, NEW i \in DOMAIN admitted'[l], NEW j \in DOMAIN admitted'[l]
       PROVE  LET a == admitted'[l][i]
                  b == admitted'[l][j]
              IN  /\ a.at <= a.until /\ a.until <= a.at + Window /\ a.at <= clock'
                  /\ i # j /\ a.until = b.until => a.place # b.place
                  /\ a.until < b.until => a.until + Window < b.until
  <2>1. CASE i = j
    BY <1>9, <2>1
  <2>2. CASE i # j
    BY <1>9, <2>2
  <2> QED
    BY <2>1, <2>2
<1> QED
  BY <1>10 DEF PlacesDiffer

\* The requests already counted as let through stay so.
LEMMA RefusedStays ==
  ASSUME RateInv, RateType', NEW k \in RateKeys, NEW t \in refused[k],
         \A l \in RateKeys : \A i \in DOMAIN admitted[l] :
            i \in DOMAIN admitted'[l] /\ admitted'[l][i] = admitted[l][i]
  PROVE  Cardinality(Admitted(k, {s \in 0 .. t : s + Window >= t})') >= Limit
<1> DEFINE M == {s \in 0 .. t : s + Window >= t}
<1>1. Admitted(k, M) \in SUBSET Admitted(k, M)'
  BY DEF Admitted
<1>2. IsFiniteSet(Admitted(k, M)')
  <2>1. admitted'[k] \in Seq([at : Nat, until : Nat, place : 1 .. Limit])
    BY DEF RateType
  <2> QED
    BY <2>1, PlacesFinite DEF Admitted
<1>3. Cardinality(Admitted(k, M)) <= Cardinality(Admitted(k, M)')
  BY <1>1, <1>2, FS_Subset
<1>4. Cardinality(Admitted(k, M)) >= Limit
  BY DEF RateInv, RefusedOverLimit
<1>5. Cardinality(Admitted(k, M)) \in Nat /\ Cardinality(Admitted(k, M)') \in Nat
  BY <1>1, <1>2, FS_Subset, FS_CardinalityType
<1> QED
  BY <1>3, <1>4, <1>5, RateAssumption

\* A window that has let through its limit explains a refusal.
LEMMA FullWindow ==
  ASSUME RateType, PlacesDiffer, WindowsCount, NEW e \in store, clock <= e.resetAt, e.count >= Limit
  PROVE  Cardinality(Admitted(e.key, {s \in 0 .. clock : s + Window >= clock})) >= Limit
<1> DEFINE k == e.key
           S == Admitted(k, {s \in 0 .. clock : s + Window >= clock})
<1>0. k \in RateKeys /\ e.count \in Nat /\ e.resetAt \in Nat /\ Limit \in Nat /\ Window \in Nat /\ clock \in Nat
  BY RateAssumption DEF RateType
<1>1. \A n \in 1 .. Limit : \E i \in S : admitted[k][i].place = n
  <2> TAKE n \in 1 .. Limit
  <2>1. PICK i \in DOMAIN admitted[k] :
           admitted[k][i].until = e.resetAt /\ admitted[k][i].place = n
    BY <1>0 DEF WindowsCount
  <2>2. admitted[k][i].at \in Nat
    BY <1>0, AdmittedTyped
  <2>3. admitted[k][i].at <= clock /\ e.resetAt <= admitted[k][i].at + Window
    BY <1>0, <2>1 DEF PlacesDiffer
  <2>4. i \in S
    BY <1>0, <2>2, <2>3 DEF Admitted
  <2> QED
    BY <2>1, <2>4
<1> DEFINE f == [n \in 1 .. Limit |-> CHOOSE i \in S : admitted[k][i].place = n]
<1>2. \A n \in 1 .. Limit : f[n] \in S /\ admitted[k][f[n]].place = n
  BY <1>1
<1> HIDE DEF f
<1>3. f \in [1 .. Limit -> S]
  <2>1. f = [n \in 1 .. Limit |-> CHOOSE i \in S : admitted[k][i].place = n]
    BY DEF f
  <2> HIDE DEF S
  <2> QED
    BY <1>2, <2>1
<1>4. f \in Injection(1 .. Limit, S)
  <2> HIDE DEF S
  <2>1. \A m, n \in 1 .. Limit : f[m] = f[n] => m = n
    BY <1>2
  <2> QED
    BY <1>3, <2>1 DEF Injection, IsInjective
<1>5. IsFiniteSet(S) /\ Cardinality(S) \in Nat
  BY <1>0, PlacesFinite DEF Admitted, RateType
<1>6. Cardinality(1 .. Limit) <= Cardinality(S)
  BY <1>4, <1>5, FS_Injection
<1> QED
  BY <1>0, <1>5, <1>6, FS_Interval

\* What a window has counted stays let through.
LEMMA WindowsStay ==
  ASSUME RateType, WindowsCount, UNCHANGED admitted, clock <= clock', clock' \in Nat,
         store' \subseteq store, \A e \in store \ store' : clock > e.resetAt
  PROVE  WindowsCount'
<1>1. /\ \A e \in store : e.key \in RateKeys /\ e.resetAt \in Nat
      /\ clock \in Nat /\ Window \in Nat
  BY RateAssumption DEF RateType
<1>2. \A e \in store' : e.resetAt <= clock' + Window
  BY <1>1 DEF WindowsCount
<1>3. ASSUME NEW k \in RateKeys, NEW i \in DOMAIN admitted[k], ~ \E e \in store' : e.key = k
      PROVE  clock' > admitted[k][i].until
  <2>0. admitted[k][i].until \in Nat
    BY AdmittedTyped
  <2>1. CASE clock > admitted[k][i].until
    BY <1>1, <2>0, <2>1
  <2>2. CASE \E e \in store : e.key = k
    <3>1. PICK e \in store : e.key = k
      BY <2>2
    <3>2. clock > e.resetAt
      BY <1>3, <3>1
    <3>3. admitted[k][i].until <= e.resetAt
      BY <1>1, <2>0, <3>1 DEF WindowsCount
    <3> QED
      BY <1>1, <2>0, <3>1, <3>2, <3>3
  <2> QED
    BY <2>1, <2>2 DEF WindowsCount
<1> QED
  BY <1>1, <1>2, <1>3 DEF WindowsCount

\* A request lets its window count one more.
LEMMA WindowsGrow ==
  ASSUME RateType, WindowsCount, NEW k \in RateKeys, NEW u \in Nat, NEW n \in 1 .. Limit,
         Admit(k, u, n), clock' = clock, u <= clock + Window, clock <= u,
         store' = (store \ Entries(k)) \union {[key |-> k, count |-> n, resetAt |-> u]},
         \A m \in 1 .. n - 1 : \E i \in DOMAIN admitted[k] :
            admitted[k][i].until = u /\ admitted[k][i].place = m,
         \A i \in DOMAIN admitted[k] :
            \/ admitted[k][i].until + Window < u
            \/ admitted[k][i].until = u /\ admitted[k][i].place < n
  PROVE  WindowsCount'
<1> DEFINE e == [key |-> k, count |-> n, resetAt |-> u]
           m == Len(admitted[k]) + 1
           r == [at |-> clock, until |-> u, place |-> n]
<1>0. /\ \A l \in RateKeys \ {k} : admitted'[l] = admitted[l]
      /\ Len(admitted[k]) \in Nat /\ DOMAIN admitted[k] = 1 .. Len(admitted[k])
      /\ DOMAIN admitted'[k] = 1 .. m
      /\ \A i \in DOMAIN admitted[k] : admitted'[k][i] = admitted[k][i]
      /\ admitted'[k][m] = r
  BY AdmitOne
<1>1. r.until = u /\ r.place = n /\ clock \in Nat /\ Window \in Nat /\ Limit \in Nat
  BY RateAssumption DEF RateType
<1>2. e.key = k /\ e.count = n /\ e.resetAt = u
  OBVIOUS
<1> HIDE DEF e, r
<1>3. store' = (store \ Entries(k)) \union {e}
  BY DEF e
<1>4. \A f \in store' : f = e \/ (f \in store /\ f.key \in RateKeys \ {k})
  <2>1. \A f \in store : f.key \in RateKeys
    BY DEF RateType
  <2>2. \A f \in store' : f = e \/ (f \in store /\ f \notin Entries(k))
    BY <1>3
  <2> QED
    BY <2>1, <2>2 DEF Entries
<1>5. \A i \in DOMAIN admitted'[k] : i = m \/ i \in DOMAIN admitted[k]
  BY <1>0
<1>6. \A f, g \in store' : f.key = g.key => f = g
  BY <1>2, <1>4 DEF WindowsCount
<1>7. \A f \in store' : f.resetAt <= clock' + Window
  BY <1>2, <1>4 DEF WindowsCount
<1>8. ASSUME NEW f \in store'
      PROVE  \A p \in 1 .. Limit : p <= f.count =>
                \E i \in DOMAIN admitted'[f.key] :
                    admitted'[f.key][i].until = f.resetAt /\ admitted'[f.key][i].place = p
  <2>1. CASE f = e
    <3>1. ASSUME NEW p \in 1 .. Limit, p <= n, p # n
          PROVE  \E i \in DOMAIN admitted'[k] : admitted'[k][i].until = u /\ admitted'[k][i].place = p
      <4>1. p \in 1 .. n - 1
        BY <1>1, <3>1
      <4>2. PICK i \in DOMAIN admitted[k] : admitted[k][i].until = u /\ admitted[k][i].place = p
        BY <4>1
      <4> QED
        BY <1>0, <4>2
    <3>2. m \in DOMAIN admitted'[k] /\ admitted'[k][m].until = u /\ admitted'[k][m].place = n
      BY <1>0, <1>1
    <3> QED
      BY <1>2, <2>1, <3>1, <3>2
  <2>2. CASE f \in store /\ f.key \in RateKeys \ {k}
    BY <1>0, <2>2 DEF WindowsCount
  <2> QED
    BY <1>4, <2>1, <2>2
<1>9. ASSUME NEW f \in store', NEW i \in DOMAIN admitted'[f.key]
      PROVE  \/ admitted'[f.key][i].until + Window < f.resetAt
             \/ admitted'[f.key][i].until = f.resetAt /\ admitted'[f.key][i].place <= f.count
  <2>1. CASE f = e
    <3>1. CASE i = m
      BY <1>0, <1>1, <1>2, <2>1, <3>1
    <3>2. CASE i \in DOMAIN admitted[k]
      <4>1. admitted[k][i].place \in 1 .. Limit
        BY <3>2, AdmittedTyped
      <4> QED
        BY <1>0, <1>2, <2>1, <3>2, <4>1
    <3> QED
      BY <1>2, <1>5, <1>9, <2>1, <3>1, <3>2
  <2>2. CASE f \in store /\ f.key \in RateKeys \ {k}
    <3>1. admitted'[f.key] = admitted[f.key]
      BY <1>0, <2>2
    <3>2. i \in DOMAIN admitted[f.key]
      BY <1>9, <3>1
    <3> QED
      BY <2>2, <3>1, <3>2 DEF WindowsCount
  <2> QED
    BY <1>4, <2>1, <2>2
<1>10. ASSUME NEW l \in RateKeys, NEW i \in DOMAIN admitted'[l]
       PROVE  clock' > admitted'[l][i].until \/ \E f \in store' : f.key = l
  <2>1. CASE l = k
    BY <1>2, <1>3, <2>1
  <2>2. CASE l # k
    <3>1. clock > admitted[l][i].until \/ \E f \in store : f.key = l
      BY <1>0, <1>10, <2>2 DEF WindowsCount
    <3>2. \A f \in store : f.key = l => f \in store'
      BY <1>3, <2>2 DEF Entries
    <3> QED
      BY <1>0, <2>2, <3>1, <3>2
  <2> QED
    BY <2>1, <2>2
<1> QED
  BY <1>6, <1>7, <1>8, <1>9, <1>10 DEF WindowsCount

\* A first request opens a window.
LEMMA OpenStep ==
  ASSUME RateInv, NEW k \in RateKeys, OpenWindow(k)
  PROVE  /\ RateType' /\ PlacesDiffer' /\ WindowsCount' /\ UNCHANGED refused
         /\ \A l \in RateKeys : \A i \in DOMAIN admitted[l] :
               i \in DOMAIN admitted'[l] /\ admitted'[l][i] = admitted[l][i]
<1> DEFINE u == clock + Window
<1>0. /\ RateType /\ PlacesDiffer /\ WindowsCount
      /\ clock \in Nat /\ Window \in Nat /\ Limit \in Nat \ {0}
  BY RateAssumption DEF RateInv, RateType
<1>u. u \in Nat
  BY <1>0
<1>1. /\ Admit(k, u, 1) /\ UNCHANGED <<clock, refused>>
      /\ store' = (store \ Entries(k)) \union {[key |-> k, count |-> 1, resetAt |-> u]}
      /\ \A e \in Entries(k) : clock > e.resetAt
  BY DEF OpenWindow, Admit
<1>2. 1 \in 1 .. Limit /\ clock <= u /\ u <= clock + Window
  BY <1>0, <1>u
<1>3. ASSUME NEW i \in DOMAIN admitted[k]
      PROVE  admitted[k][i].until + Window < u
  <2>0. admitted[k][i].until \in Nat
    BY <1>0, <1>u, AdmittedTyped
  <2>1. CASE clock > admitted[k][i].until
    BY <1>0, <1>u, <2>0, <2>1
  <2>2. CASE \E e \in store : e.key = k
    <3>1. PICK e \in store : e.key = k
      BY <2>2
    <3>2. clock > e.resetAt /\ e.resetAt \in Nat
      BY <1>0, <1>u, <1>1, <3>1 DEF Entries, RateType
    <3>3. admitted[k][i].until <= e.resetAt
      BY <1>0, <1>u, <2>0, <3>1, <3>2 DEF WindowsCount
    <3> QED
      BY <1>0, <1>u, <2>0, <3>2, <3>3
  <2> QED
    BY <1>0, <1>u, <2>1, <2>2 DEF WindowsCount
<1>4. PlacesDiffer'
  BY <1>0, <1>u, <1>1, <1>2, <1>3, PlacesStep
<1>5. WindowsCount'
  <2>1. 1 .. 1 - 1 = {}
    OBVIOUS
  <2> HIDE DEF u
  <2> QED
    BY <1>0, <1>u, <1>1, <1>2, <1>3, <2>1, WindowsGrow
<1>6. RateType'
  <2>1. admitted' \in [RateKeys -> Seq([at : Nat, until : Nat, place : 1 .. Limit])]
    BY <1>0, <1>u, <1>1, <1>2, AdmitOne
  <2>2. [key |-> k, count |-> 1, resetAt |-> u] \in [key : RateKeys, count : 1 .. Limit + 1, resetAt : Nat]
    BY <1>0, <1>u
  <2> QED
    BY <1>0, <1>u, <1>1, <2>1, <2>2 DEF RateType
<1>7. \A l \in RateKeys : \A i \in DOMAIN admitted[l] :
         i \in DOMAIN admitted'[l] /\ admitted'[l][i] = admitted[l][i]
  BY <1>0, <1>u, <1>1, <1>2, AdmitKeeps
<1> QED
  BY <1>1, <1>4, <1>5, <1>6, <1>7

\* Another request counts in its window.
LEMMA CountStep ==
  ASSUME RateInv, NEW k \in RateKeys, CountRequest(k)
  PROVE  RateInv'
<1>0. /\ RateType /\ PlacesDiffer /\ WindowsCount /\ RefusedOverLimit
      /\ clock \in Nat /\ Window \in Nat \ {0} /\ Limit \in Nat \ {0}
  BY RateAssumption DEF RateInv, RateType
<1>a. PICK e \in Entries(k) :
         LET one == [e EXCEPT !.count = IF @ > Limit THEN @ ELSE @ + 1]
         IN  /\ clock <= e.resetAt
             /\ store' = (store \ {e}) \union {one}
             /\ IF Exceeds(one.count)
                THEN refused' = [refused EXCEPT ![k] = @ \union {clock}] /\ UNCHANGED admitted
                ELSE Admit(k, e.resetAt, one.count)
             /\ UNCHANGED clock
  BY DEF CountRequest
<1>1. PICK c :
         /\ c = [e EXCEPT !.count = IF @ > Limit THEN @ ELSE @ + 1]
         /\ clock <= e.resetAt
         /\ store' = (store \ {e}) \union {c}
         /\ IF Exceeds(c.count)
            THEN refused' = [refused EXCEPT ![k] = @ \union {clock}] /\ UNCHANGED admitted
            ELSE Admit(k, e.resetAt, c.count)
         /\ UNCHANGED clock
  BY <1>a
<1>2. /\ e \in store /\ e.key = k /\ e.count \in 1 .. Limit + 1 /\ e.resetAt \in Nat
      /\ e = [key |-> k, count |-> e.count, resetAt |-> e.resetAt]
      /\ e.resetAt <= clock + Window
  BY <1>0, <1>1 DEF Entries, RateType, WindowsCount
<1>3. Entries(k) = {e}
  BY <1>0, <1>1, <1>2 DEF Entries, WindowsCount
<1>4. /\ c.key = k /\ c.resetAt = e.resetAt
      /\ c.count = IF e.count > Limit THEN e.count ELSE e.count + 1
      /\ c = [key |-> k, count |-> c.count, resetAt |-> e.resetAt]
  <2> DEFINE n == IF e.count > Limit THEN e.count ELSE e.count + 1
  <2>1. c = [e EXCEPT !.count = n]
    BY <1>1
  <2> HIDE DEF n
  <2>2. c = [key |-> k, count |-> n, resetAt |-> e.resetAt]
    BY <1>2, <2>1
  <2> QED
    BY <2>2 DEF n
<1>5. CASE Exceeds(c.count)
  <2>1. /\ refused' = [refused EXCEPT ![k] = @ \union {clock}] /\ UNCHANGED <<admitted, clock>>
        /\ e.count >= Limit /\ e.count <= c.count /\ c.count \in 1 .. Limit + 1
    BY <1>0, <1>1, <1>2, <1>4, <1>5 DEF Exceeds
  <2>2. RateType'
    BY <1>0, <1>1, <1>2, <1>4, <2>1 DEF RateType
  <2>3. PlacesDiffer'
    BY <1>0, <2>1 DEF PlacesDiffer
  <2>4. \A f \in store' : f = c \/ (f \in store /\ f.key # k)
    BY <1>1, <1>2, <1>3 DEF Entries
  <2>5. WindowsCount'
    <3>1. \A f, g \in store' : f.key = g.key => f = g
      BY <1>0, <1>4, <2>4 DEF WindowsCount
    <3>2. \A f \in store' : f.resetAt <= clock + Window
      BY <1>0, <1>2, <1>4, <2>4 DEF WindowsCount
    <3>3. ASSUME NEW f \in store'
          PROVE  /\ \A n \in 1 .. Limit : n <= f.count =>
                       \E i \in DOMAIN admitted[f.key] :
                           admitted[f.key][i].until = f.resetAt /\ admitted[f.key][i].place = n
                 /\ \A i \in DOMAIN admitted[f.key] :
                       \/ admitted[f.key][i].until + Window < f.resetAt
                       \/ admitted[f.key][i].until = f.resetAt /\ admitted[f.key][i].place <= f.count
      <4>1. CASE f = c
        <5>1. \A n \in 1 .. Limit : n <= e.count
          BY <1>0, <1>2, <2>1
        <5>2. \A n \in 1 .. Limit : \E i \in DOMAIN admitted[k] :
                 admitted[k][i].until = e.resetAt /\ admitted[k][i].place = n
          BY <1>0, <1>2, <5>1 DEF WindowsCount
        <5>3. ASSUME NEW i \in DOMAIN admitted[k]
              PROVE  \/ admitted[k][i].until + Window < e.resetAt
                     \/ admitted[k][i].until = e.resetAt /\ admitted[k][i].place <= c.count
          <6>1. admitted[k][i].place \in 1 .. Limit
            BY <1>0, AdmittedTyped
          <6>2. \/ admitted[k][i].until + Window < e.resetAt
                \/ admitted[k][i].until = e.resetAt /\ admitted[k][i].place <= e.count
            BY <1>0, <1>2 DEF WindowsCount
          <6> QED
            BY <1>0, <1>2, <2>1, <6>1, <6>2
        <5> QED
          BY <1>4, <4>1, <5>2, <5>3
      <4>2. CASE f \in store
        BY <1>0, <4>2 DEF WindowsCount
      <4> QED
        BY <2>4, <4>1, <4>2
    <3>4. \A l \in RateKeys : \A i \in DOMAIN admitted[l] :
             clock > admitted[l][i].until \/ \E f \in store' : f.key = l
      <4>1. \A f \in store : \E g \in store' : g.key = f.key
        BY <1>1, <1>2, <1>4
      <4> QED
        BY <1>0, <4>1 DEF WindowsCount
    <3> QED
      BY <2>1, <3>1, <3>2, <3>3, <3>4 DEF WindowsCount
  <2>6. RefusedOverLimit'
    <3>1. ASSUME NEW l \in RateKeys, NEW t \in refused'[l]
          PROVE  Cardinality(Admitted(l, {s \in 0 .. t : s + Window >= t})') >= Limit
      <4>1. Admitted(l, {s \in 0 .. t : s + Window >= t})' = Admitted(l, {s \in 0 .. t : s + Window >= t})
        BY <2>1 DEF Admitted
      <4>2. CASE t \in refused[l]
        BY <1>0, <4>1, <4>2 DEF RefusedOverLimit
      <4>3. CASE t \notin refused[l]
        <5>1. l = k /\ t = clock
          BY <1>0, <2>1, <3>1, <4>3 DEF RateType
        <5>2. Cardinality(Admitted(k, {s \in 0 .. clock : s + Window >= clock})) >= Limit
          BY <1>0, <1>1, <1>2, <2>1, FullWindow
        <5> QED
          BY <4>1, <5>1, <5>2
      <4> QED
        BY <4>2, <4>3
    <3> QED
      BY <3>1 DEF RefusedOverLimit
  <2> QED
    BY <2>2, <2>3, <2>5, <2>6 DEF RateInv
<1>6. CASE ~Exceeds(c.count)
  <2> DEFINE u == e.resetAt
             n == c.count
  <2>1. Admit(k, u, n) /\ UNCHANGED <<refused, clock>>
    BY <1>1, <1>6 DEF Admit
  <2>2. n \in 1 .. Limit /\ e.count = n - 1
    BY <1>0, <1>2, <1>4, <1>6 DEF Exceeds
  <2>3. store' = (store \ Entries(k)) \union {[key |-> k, count |-> n, resetAt |-> u]}
    BY <1>1, <1>3, <1>4
  <2>4. u \in Nat /\ clock <= u /\ u <= clock + Window
    BY <1>1, <1>2
  <2>5. ASSUME NEW i \in DOMAIN admitted[k]
        PROVE  \/ admitted[k][i].until + Window < u
               \/ admitted[k][i].until = u /\ admitted[k][i].place < n
    <3>1. admitted[k][i].place \in 1 .. Limit
      BY <1>0, AdmittedTyped
    <3>2. \/ admitted[k][i].until + Window < u
          \/ admitted[k][i].until = u /\ admitted[k][i].place <= e.count
      BY <1>0, <1>2 DEF WindowsCount
    <3> QED
      BY <1>0, <2>2, <3>1, <3>2
  <2>6. \A m \in 1 .. n - 1 : \E i \in DOMAIN admitted[k] :
           admitted[k][i].until = u /\ admitted[k][i].place = m
    <3>1. \A m \in 1 .. n - 1 : m \in 1 .. Limit /\ m <= e.count
      BY <1>0, <2>2
    <3> QED
      BY <1>0, <1>2, <3>1 DEF WindowsCount
  <2>7. PlacesDiffer'
    <3>1. \A i \in DOMAIN admitted[k] : \/ admitted[k][i].until + Window < u
                                        \/ admitted[k][i].until = u /\ admitted[k][i].place # n
      BY <1>0, <2>2, <2>5, AdmittedTyped
    <3> HIDE DEF u, n
    <3> QED
      BY <1>0, <2>1, <2>2, <2>4, <3>1, PlacesStep
  <2>8. WindowsCount'
    <3> HIDE DEF u, n
    <3> QED
      BY <1>0, <2>1, <2>2, <2>3, <2>4, <2>5, <2>6, WindowsGrow
  <2>9. RateType'
    <3>1. admitted' \in [RateKeys -> Seq([at : Nat, until : Nat, place : 1 .. Limit])]
      BY <1>0, <2>1, <2>2, <2>4, AdmitOne
    <3>2. [key |-> k, count |-> n, resetAt |-> u] \in [key : RateKeys, count : 1 .. Limit + 1, resetAt : Nat]
      BY <1>0, <2>2, <2>4
    <3> QED
      BY <1>0, <2>1, <2>3, <3>1, <3>2 DEF RateType
  <2>10. RefusedOverLimit'
    <3>1. \A l \in RateKeys : \A i \in DOMAIN admitted[l] :
             i \in DOMAIN admitted'[l] /\ admitted'[l][i] = admitted[l][i]
      BY <1>0, <2>1, <2>2, <2>4, AdmitKeeps
    <3> QED
      BY <2>1, <2>9, <3>1, RefusedStays DEF RefusedOverLimit
  <2> QED
    BY <2>7, <2>8, <2>9, <2>10 DEF RateInv
<1> QED
  BY <1>5, <1>6

\* Time passes, or the timer drops the windows that are over.
LEMMA TimerStep ==
  ASSUME RateInv, Tick \/ Cleanup
  PROVE  RateInv'
<1>0. /\ RateType /\ PlacesDiffer /\ WindowsCount /\ RefusedOverLimit /\ clock \in Nat
  BY DEF RateInv, RateType
<1>1. /\ UNCHANGED <<admitted, refused>> /\ clock' \in Nat /\ clock <= clock'
      /\ store' \subseteq store /\ \A e \in store \ store' : clock > e.resetAt
  BY <1>0 DEF Tick, Cleanup, IsOver
<1>2. RateType'
  BY <1>0, <1>1 DEF RateType
<1>3. PlacesDiffer'
  <2>1. ASSUME NEW k \in RateKeys, NEW i \in DOMAIN admitted[k]
        PROVE  admitted[k][i].at <= clock'
    <3>1. admitted[k][i].at \in Nat /\ admitted[k][i].at <= clock
      BY <1>0, AdmittedTyped DEF PlacesDiffer
    <3> QED
      BY <1>0, <1>1, <3>1
  <2> QED
    BY <1>0, <1>1, <2>1 DEF PlacesDiffer
<1>4. WindowsCount'
  BY <1>0, <1>1, WindowsStay
<1>5. RefusedOverLimit'
  BY <1>0, <1>1 DEF RefusedOverLimit, Admitted
<1> QED
  BY <1>2, <1>3, <1>4, <1>5 DEF RateInv

\* Every step keeps the windows.
LEMMA RateStep == RateInv /\ [RateNext]_rateVars => RateInv'
<1> SUFFICES ASSUME RateInv, [RateNext]_rateVars PROVE RateInv'
  OBVIOUS
<1>1. ASSUME NEW k \in RateKeys, OpenWindow(k)
      PROVE  RateInv'
  <2>1. /\ RateType' /\ PlacesDiffer' /\ WindowsCount' /\ UNCHANGED refused
        /\ \A l \in RateKeys : \A i \in DOMAIN admitted[l] :
              i \in DOMAIN admitted'[l] /\ admitted'[l][i] = admitted[l][i]
    BY <1>1, OpenStep
  <2> QED
    BY <2>1, RefusedStays DEF RateInv, RefusedOverLimit
<1>2. CASE UNCHANGED rateVars
  <2>1. UNCHANGED <<clock, store, admitted, refused>>
    BY <1>2 DEF rateVars
  <2>2. RateType'
    BY <2>1 DEF RateInv, RateType
  <2>5. PlacesDiffer'
    BY <2>1 DEF RateInv, PlacesDiffer
  <2>3. WindowsCount'
    BY <2>1 DEF RateInv, WindowsCount
  <2>4. RefusedOverLimit'
    BY <2>1 DEF RateInv, RefusedOverLimit, Admitted
  <2> QED
    BY <2>2, <2>3, <2>4, <2>5 DEF RateInv
<1> QED
  BY <1>1, <1>2, CountStep, TimerStep DEF RateNext

\* The limiter lets through at most twice its limit in any span as long as a
\* window, and refuses only what comes after as many as its limit within one
\* window: for every limit, window and number of keys, and whenever the timer
\* clears the store.
THEOREM LimiterFair == RateSpec => []RateFair
<1>1. RateInv => RateFair
  BY BoundedStep DEF RateInv, RateFair
<1> QED
  BY RateInitial, RateStep, <1>1, PTL DEF RateSpec
=============================================================================
