------------------------------- MODULE ApiKeys -------------------------------
(***************************************************************************)
(* The API keys of one company: ApiKeysService and ApiKeyGuard             *)
(* (src/src/modules/api/api-keys.service.ts and api-key.guard.ts).  The    *)
(* time of the last use is left out; time is counted in days.              *)
(***************************************************************************)
EXTENDS Naturals, FiniteSets

CONSTANTS
    KeyIds,
    Names,
    Creators,   \* concurrent calls of createKey
    Callers,    \* concurrent requests of the public API
    Lives,      \* values of expiresInDays
    LastDay,    \* the clock stops there
    NoKey

KeyRows == [name : Names, expiresAt : Nat, active : BOOLEAN]
Checks == [name : Names, expiresAt : Nat]
Reads == [key : KeyIds, row : KeyRows, late : BOOLEAN]

ASSUME ApiKeyAssumption ==
    /\ NoKey \notin KeyRows \union Checks \union Reads
    /\ LastDay \in Nat /\ Lives \subseteq Nat

VARIABLES
    keyRow,    \* the rows: [name, expiresAt, active], or NoKey
    creator,   \* what the calls of createKey have checked: [name, life]
    caller,    \* what the guard has read: [key, row, late]
    served,    \* history: requests let through: [key, on, late]
    revoked,   \* history: keys that were revoked
    keyDay

apiKeyVars == <<keyRow, creator, caller, served, revoked, keyDay>>
-----------------------------------------------------------------------------
ApiKeyInit ==
    /\ keyRow = [k \in KeyIds |-> NoKey]
    /\ creator = [c \in Creators |-> NoKey] /\ caller = [r \in Callers |-> NoKey]
    /\ served = {} /\ revoked = {} /\ keyDay = 0

Rows == {k \in KeyIds : keyRow[k] # NoKey}
Never == LastDay + 1   \* a key without an expiry

\* No life, like a life of zero, is a key without an expiry.
ExpiresAt(life) == IF life = 0 THEN Never ELSE keyDay + life

\* The name is looked up before the insert; no index enforces that it is new.
CheckName(c, name, life) ==
    /\ creator[c] = NoKey
    /\ \A k \in Rows : keyRow[k].name # name
    /\ creator' = [creator EXCEPT ![c] = [name |-> name, expiresAt |-> ExpiresAt(life)]]
    /\ UNCHANGED <<keyRow, caller, served, revoked, keyDay>>

CreateKey(c, k) ==
    /\ creator[c] # NoKey /\ keyRow[k] = NoKey
    /\ keyRow' = [keyRow EXCEPT ![k] =
          [name |-> creator[c].name, expiresAt |-> creator[c].expiresAt, active |-> TRUE]]
    /\ creator' = [creator EXCEPT ![c] = NoKey]
    /\ UNCHANGED <<caller, served, revoked, keyDay>>

RevokeKey(k) ==
    /\ k \in Rows
    /\ keyRow' = [keyRow EXCEPT ![k].active = FALSE]
    /\ revoked' = revoked \union {k}
    /\ UNCHANGED <<creator, caller, served, keyDay>>

ExpireOldKeys ==
    /\ keyRow' = [k \in KeyIds |->
          IF k \in Rows /\ keyRow[k].expiresAt <= keyDay
          THEN [keyRow[k] EXCEPT !.active = FALSE] ELSE keyRow[k]]
    /\ UNCHANGED <<creator, caller, served, revoked, keyDay>>

ValidateKey(r, k) ==
    /\ caller[r] = NoKey
    /\ k \in Rows
    /\ caller' = [caller EXCEPT ![r] = [key |-> k, row |-> keyRow[k], late |-> k \in revoked]]
    /\ UNCHANGED <<keyRow, creator, served, revoked, keyDay>>

Expired_Never(row) == FALSE   \* Mutant: the daily job is trusted with it.
Expired(row) == row.expiresAt < keyDay

\* The guard judges the row it read, by the clock of now.
CanActivate(r) ==
    LET read == caller[r] IN
    /\ read # NoKey
    /\ served' = IF read.row.active /\ ~Expired(read.row)
                 THEN served \union {[key |-> read.key, on |-> keyDay, late |-> read.late]}
                 ELSE served
    /\ caller' = [caller EXCEPT ![r] = NoKey]
    /\ UNCHANGED <<keyRow, creator, revoked, keyDay>>

NextDay ==
    /\ keyDay < LastDay
    /\ keyDay' = keyDay + 1
    /\ UNCHANGED <<keyRow, creator, caller, served, revoked>>

ApiKeyNext ==
    \/ \E c \in Creators : \/ \E name \in Names, life \in Lives : CheckName(c, name, life)
                           \/ \E k \in KeyIds : CreateKey(c, k)
    \/ \E k \in KeyIds : RevokeKey(k) \/ \E r \in Callers : ValidateKey(r, k)
    \/ \E r \in Callers : CanActivate(r)
    \/ ExpireOldKeys \/ NextDay

ApiKeySpec == ApiKeyInit /\ [][ApiKeyNext]_apiKeyVars
-----------------------------------------------------------------------------
\* A request is let through only on a day its key is valid on, although the job
\* that switches expired keys off runs once a day, and only if the key had not
\* been revoked before it was looked up.
KeyAlive == \A s \in served :
    s.on <= keyRow[s.key].expiresAt /\ ~s.late

\* The inductive invariant behind it.
ApiKeyTypeOK ==
    /\ keyRow \in [KeyIds -> KeyRows \union {NoKey}]
    /\ creator \in [Creators -> Checks \union {NoKey}]
    /\ caller \in [Callers -> Reads \union {NoKey}]
    /\ served \subseteq [key : KeyIds, on : Nat, late : BOOLEAN]
    /\ revoked \subseteq KeyIds /\ keyDay \in Nat

\* A revoked key is off; nothing switches one on again.
RevokedOff == \A k \in revoked : k \in Rows /\ ~keyRow[k].active

\* What a request has read of a key holds of the row, whose expiry never changes,
\* and a key revoked before it was read was read as off.
ReadsHold == \A r \in Callers : caller[r] # NoKey =>
    LET read == caller[r]
    IN  /\ read.key \in Rows /\ read.row.expiresAt = keyRow[read.key].expiresAt
        /\ read.late => ~read.row.active

KeyInv == ApiKeyTypeOK /\ RevokedOff /\ ReadsHold /\ KeyAlive /\ \A s \in served : s.key \in Rows
=============================================================================
