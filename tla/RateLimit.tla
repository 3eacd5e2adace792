----------------------------- MODULE RateLimit -----------------------------
(***************************************************************************)
(* The rate limit of the public API: one sorted set of request times per   *)
(* account in Redis, trimmed, counted and extended by one Lua script       *)
(* (packages/infra/src/limits.ts), and the answer the middleware makes of  *)
(* it (apps/api/src/routes/v1/rate-limit.ts).                              *)
(*                                                                         *)
(* Time is the clock of Redis, in ticks; Second of them make the unit of   *)
(* Retry-After.                                                            *)
(***************************************************************************)
EXTENDS Integers, FiniteSets

CONSTANTS
    Accounts,   \* accounts, the unit that is metered
    Requests,   \* request ids (randomUUID)
    Limit,      \* API_RATE_LIMIT_MAX
    Window,     \* API_RATE_LIMIT_WINDOW_MS
    Second,     \* ticks per second
    MaxTime     \* bound on the clock

ASSUME RateLimitAssumption ==
    /\ Limit \in Nat \ {0}
    /\ Window \in Nat \ {0}
    /\ Second \in Nat \ {0}
    /\ MaxTime \in Nat

VARIABLES
    now,        \* Redis TIME
    log,        \* log[a]: the members [id, at] of vj:ratelimit:<a>
    logEnds,    \* logEnds[a]: when that key expires
    decisions   \* what the script answered, for every request it saw (kept
                \* for properties; a reply is one of them)

limitVars == <<now, log, logEnds, decisions>>

Times == 0..MaxTime

Member == [id : Requests, at : Times]

TypeOK ==
    /\ now \in Times
    /\ log \in [Accounts -> SUBSET Member]
    /\ logEnds \in [Accounts -> Int]
    /\ decisions \subseteq [account : Accounts, id : Requests, at : Times,
                            allowed : BOOLEAN, resetAt : Int]

LimitInit ==
    /\ now = 0
    /\ log = [a \in Accounts |-> {}]
    /\ logEnds = [a \in Accounts |-> 0]
    /\ decisions = {}

-----------------------------------------------------------------------------
\* An expired key is gone, though not before its time has passed.
Live(a) == IF now > logEnds[a] THEN {} ELSE log[a]

\* A slip: a member at the very edge is kept.
KeptOnEdge(a) == {m \in Live(a) : m.at >= now - Window}

\* ZREMRANGEBYSCORE -inf (now - window).
Kept(a) == {m \in Live(a) : m.at > now - Window}

\* reset_at: when the oldest member leaves the window.
ResetAt(members) ==
    (IF members = {} THEN now
     ELSE CHOOSE t \in {m.at : m \in members} : \A m \in members : t <= m.at) + Window

Allowed(a) == Cardinality(Kept(a)) < Limit

\* The members the script leaves behind, and what it returns.
After(a, r) == Kept(a) \union IF Allowed(a) THEN {[id |-> r, at |-> now]} ELSE {}

Decision(a, r) == [account |-> a, id |-> r, at |-> now, allowed |-> Allowed(a),
                   resetAt |-> ResetAt(After(a, r))]

\* A slip: PEXPIRE only when the key is made.
EndsOnce(a) == IF Allowed(a) /\ Kept(a) = {} THEN now + Window ELSE logEnds[a]

\* PEXPIRE with every member that is added.
Ends(a) == IF Allowed(a) THEN now + Window ELSE logEnds[a]

\* vjSlidingWindow for request r of account a.
Script(a, r) ==
    /\ \A d \in decisions : d.id # r
    /\ log' = [log EXCEPT ![a] = After(a, r)]
    /\ logEnds' = [logEnds EXCEPT ![a] = Ends(a)]
    /\ decisions' = decisions \union {Decision(a, r)}
    /\ UNCHANGED now

\* A slip: rounded down.
RetryRoundedDown(d) ==
    LET seconds == (d.resetAt - d.at) \div Second
    IN  IF seconds > 1 THEN seconds ELSE 1

\* Retry-After, in seconds, rounded up.
RetryAfter(d) ==
    LET seconds == (d.resetAt - d.at + Second - 1) \div Second
    IN  IF seconds > 1 THEN seconds ELSE 1

Tick ==
    /\ now < MaxTime
    /\ now' = now + 1
    /\ UNCHANGED <<log, logEnds, decisions>>

LimitNext == Tick \/ \E a \in Accounts, r \in Requests : Script(a, r)

LimitSpec == LimitInit /\ [][LimitNext]_limitVars

-----------------------------------------------------------------------------
Answered(a, allowed) ==
    {[id |-> d.id, at |-> d.at] :
        d \in {e \in decisions : e.account = a /\ e.allowed = allowed}}

\* The promise, for one account.
Promise(a) == INSTANCE SlidingWindow WITH
    admitted <- Answered(a, TRUE),
    refused <- Answered(a, FALSE)

\* In no interval as long as the window, wherever it ends, are more requests
\* of an account admitted than its limit: not around a boundary, not after the
\* trimmed and expired parts of the log are gone.
WindowLimit ==
    \A a \in Accounts : \A t \in 0..now : Cardinality(Promise(a)!Recent(t)) <= Limit

=============================================================================
