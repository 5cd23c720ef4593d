----------------------------- MODULE RateLimit -----------------------------
(***************************************************************************)
(* The limit of requests per minute                                        *)
(* (src/src/common/guards/tenant-rate-limit.guard.ts): a counter in memory *)
(* for each key, in windows that begin with the first request after the    *)
(* window before is over, and a timer that drops the windows that are.     *)
(*                                                                         *)
(* The guard runs before AuthGuard, so a request is counted under what its *)
(* X-Tenant-ID header says, whoever sends it, or as "anonymous".           *)
(***************************************************************************)
EXTENDS Naturals, Sequences, FiniteSets

CONSTANTS
    RateKeys,     \* values of the header, and "anonymous"
    Limit,    \* defaultLimit
    Window,   \* windowMs
    MaxClock  \* bound on the clock

ASSUME RateAssumption == Limit \in Nat \ {0} /\ Window \in Nat \ {0} /\ MaxClock \in Nat

VARIABLES
    clock,
    store,     \* the windows, at most one for each key
    admitted,  \* history: the requests let through, per key, in their order
    refused    \* history: moments at which a request was turned away, per key

rateVars == <<clock, store, admitted, refused>>
-----------------------------------------------------------------------------
RateInit ==
    /\ clock = 0 /\ store = {}
    /\ admitted = [k \in RateKeys |-> <<>>]
    /\ refused = [k \in RateKeys |-> {}]

Entries(k) == {e \in store : e.key = k}

IsOver_Always(e) == TRUE   \* Mutant: the timer clears the whole store.
IsOver(e) == clock > e.resetAt

Exceeds(count) == count > Limit

\* A request is let through: when, until when its window lasts, and its place in
\* the window.
Admit(k, until, place) ==
    /\ admitted' = [admitted EXCEPT ![k] =
                        Append(@, [at |-> clock, until |-> until, place |-> place])]
    /\ UNCHANGED refused

\* canActivate without a window for the key, or with one that is over.
OpenWindow(k) ==
    /\ \A e \in Entries(k) : clock > e.resetAt
    /\ store' = (store \ Entries(k)) \union {[key |-> k, count |-> 1, resetAt |-> clock + Window]}
    /\ Admit(k, clock + Window, 1)
    /\ UNCHANGED clock

\* Counted first, and refused then: the count of a window goes on growing
\* (bound: up to one more than the limit, where nothing else changes).
CountRequest(k) ==
    \E e \in Entries(k) :
        LET counted == [e EXCEPT !.count = IF @ > Limit THEN @ ELSE @ + 1] IN
        /\ clock <= e.resetAt
        /\ store' = (store \ {e}) \union {counted}
        /\ IF Exceeds(counted.count)
           THEN /\ refused' = [refused EXCEPT ![k] = @ \union {clock}]
                /\ UNCHANGED admitted
           ELSE Admit(k, e.resetAt, counted.count)
        /\ UNCHANGED clock

Cleanup ==
    /\ store' = {e \in store : ~IsOver(e)}
    /\ UNCHANGED <<clock, admitted, refused>>

Tick ==
    /\ clock < MaxClock
    /\ clock' = clock + 1
    /\ UNCHANGED <<store, admitted, refused>>

RateNext == Tick \/ Cleanup \/ \E k \in RateKeys : OpenWindow(k) \/ CountRequest(k)

RateSpec == RateInit /\ [][RateNext]_rateVars
-----------------------------------------------------------------------------
Admitted(k, moments) == {i \in DOMAIN admitted[k] : admitted[k][i].at \in moments}

\* A span as long as a window meets two windows at most, so at most twice the
\* limit gets through in it, whenever it begins and whenever the timer runs.
RateBounded ==
    \A k \in RateKeys, from \in 0 .. MaxClock :
        Cardinality(Admitted(k, from .. from + Window)) <= 2 * Limit

\* A request is refused only if as many as the limit were let through since a
\* window ago: refused requests do not count against later windows.
RefusedOverLimit ==
    \A k \in RateKeys : \A t \in refused[k] :
        Cardinality(Admitted(k, {s \in 0 .. t : s + Window >= t})) >= Limit

\* The limiter lets no more through than it promises, and no less.
RateFair == RateBounded /\ RefusedOverLimit

-----------------------------------------------------------------------------
\* The inductive invariant behind RateFair.

RateType ==
    /\ clock \in Nat
    /\ store \subseteq [key : RateKeys, count : 1 .. Limit + 1, resetAt : Nat]
    /\ admitted \in [RateKeys -> Seq([at : Nat, until : Nat, place : 1 .. Limit])]
    /\ refused \in [RateKeys -> SUBSET Nat]

\* No two requests have one place in a window, and windows do not overlap.
PlacesDiffer ==
    \A k \in RateKeys : \A i, j \in DOMAIN admitted[k] :
        LET a == admitted[k][i]
            b == admitted[k][j]
        IN  /\ a.at <= a.until /\ a.until <= a.at + Window /\ a.at <= clock
            /\ i # j /\ a.until = b.until => a.place # b.place
            /\ a.until < b.until => a.until + Window < b.until

\* A window in the store is the last one of its key, and has let through what it
\* has counted, up to the limit; one that is not there is over.
WindowsCount ==
    /\ \A e, f \in store : e.key = f.key => e = f
    /\ \A e \in store :
          /\ e.resetAt <= clock + Window
          /\ \A n \in 1 .. Limit : n <= e.count =>
                \E i \in DOMAIN admitted[e.key] :
                    admitted[e.key][i].until = e.resetAt /\ admitted[e.key][i].place = n
          /\ \A i \in DOMAIN admitted[e.key] :
                \/ admitted[e.key][i].until + Window < e.resetAt
                \/ admitted[e.key][i].until = e.resetAt /\ admitted[e.key][i].place <= e.count
    /\ \A k \in RateKeys : \A i \in DOMAIN admitted[k] :
          clock > admitted[k][i].until \/ \E e \in store : e.key = k

RateInv == RateType /\ PlacesDiffer /\ WindowsCount /\ RefusedOverLimit
=============================================================================
