--------------------------- MODULE SlidingWindow ---------------------------
(***************************************************************************)
(* What the rate limit of one account promises, whatever is stored for it  *)
(* (the comments of packages/infra/src/limits.ts and of                    *)
(* apps/api/src/routes/v1/rate-limit.ts): a request is admitted exactly    *)
(* when fewer than Limit were admitted in the Window that ends now.        *)
(* RateLimit is shown to implement this.                                   *)
(***************************************************************************)
EXTENDS Integers, FiniteSets

CONSTANTS
    Requests,   \* request ids
    Limit,      \* requests admitted per window
    Window      \* length of the window

VARIABLES
    now,        \* the time
    admitted,   \* [id, at] of every request ever admitted
    refused     \* [id, at] of every request ever refused

windowVars == <<now, admitted, refused>>

\* The requests admitted in the window that ends at t.
Recent(t) == {r \in admitted : t - Window < r.at /\ r.at <= t}

WindowInit == now = 0 /\ admitted = {} /\ refused = {}

New(id) == \A r \in admitted \union refused : r.id # id

Admit(id) ==
    /\ New(id)
    /\ Cardinality(Recent(now)) < Limit
    /\ admitted' = admitted \union {[id |-> id, at |-> now]}
    /\ UNCHANGED <<now, refused>>

Refuse(id) ==
    /\ New(id)
    /\ Cardinality(Recent(now)) >= Limit
    /\ refused' = refused \union {[id |-> id, at |-> now]}
    /\ UNCHANGED <<now, admitted>>

Pass == now' = now + 1 /\ UNCHANGED <<admitted, refused>>

WindowNext == Pass \/ \E id \in Requests : Admit(id) \/ Refuse(id)

WindowSpec == WindowInit /\ [][WindowNext]_windowVars
=============================================================================
