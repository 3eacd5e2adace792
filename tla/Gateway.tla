------------------------------ MODULE Gateway ------------------------------
(***************************************************************************)
(* The public API around its handlers: keys are created and revoked by     *)
(* their owner (routes/app/api-keys.ts, packages/infra/src/api-keys.ts),   *)
(* every request passes the chain auth, usage recording, rate limit,       *)
(* handler (routes/v1/index.ts), and the usage buffer is flushed to        *)
(* Postgres once a second (routes/v1/usage.ts, packages/infra/src/usage.ts).*)
(*                                                                         *)
(* The API is one process; its memory is the requests under way and the    *)
(* buffer.  What the limiter decides is the business of RateLimit, what    *)
(* POST /executions does that of Executions: here they answer anything.    *)
(* Faults are classes, and at most MaxFaults happen:                       *)
(*   "down"    a statement fails and has no effect                         *)
(*   "lost"    a statement has its effect, its caller gets an error        *)
(*   "gone"    a client closes its connection before it is answered        *)
(*   "crash"   the API process dies and is started again                   *)
(*   "delete"  an operator deletes the row of a key                        *)
(***************************************************************************)
EXTENDS Integers, Sequences, FiniteSets

CONSTANTS
    Keys,         \* keys, each made by one POST /app/api-keys
    Owner,        \* Owner[k]: the account of k
    MaxActive,    \* MAX_ACTIVE_API_KEYS
    Requests,     \* requests to /api/v1
    KeyOf,        \* KeyOf[r]: the key r carries
    MaxBuffered,  \* MAX_BUFFERED
    Faults,       \* the classes of faults that may happen
    MaxFaults     \* bound on how many do

ASSUME GatewayAssumption ==
    /\ IsFiniteSet(Keys)
    /\ KeyOf \in [Requests -> Keys]
    /\ MaxActive \in Nat \ {0}
    /\ MaxBuffered \in Nat \ {0}
    /\ MaxFaults \in Nat

VARIABLES
    key,        \* key[k]: the row of k
    making,     \* making[k]: the next command of its POST, or its answer
    locks,      \* transactions that hold the row lock of their account
    at,         \* at[r]: the next command of r, or how it was answered
    finished,   \* the records of the answered requests, in the order of their
                \* finish events (kept for properties)
    buffer,     \* buffer of usage.ts, as numbers of records
    batch,      \* what the flush under way writes; empty when not flushing
    dropped,    \* dropped of usage.ts
    rows,       \* rows[i]: how many rows of api_usage record i has
    lost,       \* records lost with a process or with the row of their key
                \* (kept for properties)
    faults      \* faults so far

keyVars == <<key, making, locks>>
usageVars == <<finished, buffer, batch, dropped, rows, lost>>
vars == <<keyVars, at, usageVars, faults>>

\* What a recorded request was answered with.
Answers == {"created", "ok", "throttled", "error"}

Records == DOMAIN finished

TypeOK ==
    /\ key \in [Keys -> {"none", "active", "revoked", "deleted"}]
    /\ making \in [Keys -> {"new", "lock", "count", "commit",
                            "shown", "full", "failed"}]
    /\ locks \subseteq Keys
    /\ at \in [Requests -> {"new", "limit", "handler", "answered",
                            "unauthorized", "gone"}]
    /\ finished \in Seq([key : Keys, answer : Answers])
    /\ buffer \in Seq(Records) /\ batch \in Seq(Records)
    /\ dropped \in Nat
    /\ rows \in [Records -> Nat]
    /\ lost \subseteq Records
    /\ faults \in 0..MaxFaults

Init ==
    /\ key = [k \in Keys |-> "none"]
    /\ making = [k \in Keys |-> "new"]
    /\ locks = {}
    /\ at = [r \in Requests |-> "new"]
    /\ finished = <<>> /\ buffer = <<>> /\ batch = <<>> /\ rows = <<>>
    /\ dropped = 0
    /\ lost = {}
    /\ faults = 0

Fault(class) ==
    /\ class \in Faults
    /\ faults < MaxFaults
    /\ faults' = faults + 1

-----------------------------------------------------------------------------
(* Keys: createApiKey is one transaction.                                  *)

Active(a) == {k \in Keys : Owner[k] = a /\ key[k] = "active"}

Step(k, next) == making' = [making EXCEPT ![k] = next]

\* POST /app/api-keys of a signed-in user: BEGIN.
Ask(k) ==
    /\ making[k] = "new"
    /\ Step(k, "lock")
    /\ UNCHANGED <<key, locks, at, usageVars, faults>>

\* A slip: SELECT without FOR UPDATE.
ReadUser(k) ==
    /\ making[k] = "lock"
    /\ Step(k, "count")
    /\ UNCHANGED <<key, locks, at, usageVars, faults>>

\* SELECT ... FOR UPDATE of the user's row waits for who holds it.
LockUser(k) ==
    /\ making[k] = "lock"
    /\ \A j \in locks : Owner[j] # Owner[k]
    /\ locks' = locks \union {k}
    /\ Step(k, "count")
    /\ UNCHANGED <<key, at, usageVars, faults>>

\* SELECT COUNT(*) of the active keys: ROLLBACK and 409 at the cap.
Count(k) ==
    /\ making[k] = "count"
    /\ IF Cardinality(Active(Owner[k])) >= MaxActive
       THEN Step(k, "full") /\ locks' = locks \ {k}
       ELSE Step(k, "commit") /\ UNCHANGED locks
    /\ UNCHANGED <<key, at, usageVars, faults>>

\* INSERT, which nobody sees before COMMIT, and 201 with the key.  If the reply
\* is lost, the key is there and nobody has seen it.
Commit(k) ==
    /\ making[k] = "commit"
    /\ key' = [key EXCEPT ![k] = "active"]
    /\ locks' = locks \ {k}
    /\ \/ Step(k, "shown") /\ UNCHANGED faults
       \/ Step(k, "failed") /\ Fault("lost")
    /\ UNCHANGED <<at, usageVars>>

\* A slip: an error leaves the transaction open.
FailOpen(k) ==
    /\ making[k] \in {"lock", "count", "commit"}
    /\ Fault("down")
    /\ Step(k, "failed")
    /\ UNCHANGED <<key, locks, at, usageVars>>

\* Any statement fails: ROLLBACK, and 500.
Fail(k) ==
    /\ making[k] \in {"lock", "count", "commit"}
    /\ Fault("down")
    /\ Step(k, "failed")
    /\ locks' = locks \ {k}
    /\ UNCHANGED <<key, at, usageVars>>

\* DELETE /app/api-keys/:id, by its owner, who finds the id in the list.
Revoke(k) ==
    /\ key[k] = "active"
    /\ key' = [key EXCEPT ![k] = "revoked"]
    /\ UNCHANGED <<making, locks, at, usageVars, faults>>

CreateStep(k) == LockUser(k) \/ Count(k) \/ Commit(k)

-----------------------------------------------------------------------------
(* Requests.                                                               *)

Goto(r, next) == at' = [at EXCEPT ![r] = next]

\* requireApiKey: 401 unless the row is there and not revoked.  A program has a
\* key only from the answer that showed it.
Authenticate(r) ==
    /\ at[r] = "new" /\ making[KeyOf[r]] = "shown"
    /\ Goto(r, IF key[KeyOf[r]] = "active" THEN "limit" ELSE "unauthorized")
    /\ UNCHANGED <<keyVars, usageVars, faults>>

\* The buffer with a newer record, or with those of a failed flush put back in
\* front: the oldest beyond MaxBuffered are dropped.
Capped(seq) ==
    IF Len(seq) > MaxBuffered THEN SubSeq(seq, Len(seq) - MaxBuffered + 1, Len(seq)) ELSE seq

\* A slip: counted although nothing may be over the cap.
CountOver(seq) == dropped' = dropped + Len(seq) - MaxBuffered

CountDropped(seq) == dropped' = dropped + Len(seq) - Len(Capped(seq))

\* The "finish" event: the record is buffered.
Finish(r, answer) ==
    LET added == Append(buffer, Len(finished) + 1)
    IN  /\ Goto(r, "answered")
        /\ finished' = Append(finished, [key |-> KeyOf[r], answer |-> answer])
        /\ rows' = Append(rows, 0)
        /\ buffer' = Capped(added)
        /\ CountDropped(added)
        /\ UNCHANGED <<batch, lost>>

\* rateLimit: 429, or on to the handler, which is also where a failure of
\* Redis leads.
RateLimited(r) ==
    /\ at[r] = "limit"
    /\ \/ Finish(r, "throttled")
       \/ Goto(r, "handler") /\ UNCHANGED usageVars
    /\ UNCHANGED <<keyVars, faults>>

\* The routers, notFound and errorHandler: every request is answered, 429 for
\* a spent quota included.
Handle(r) ==
    /\ at[r] = "handler"
    /\ \E answer \in Answers : Finish(r, answer)
    /\ UNCHANGED <<keyVars, faults>>

\* The client is gone before the answer is: no "finish".
ClientGone(r) ==
    /\ at[r] \in {"limit", "handler"}
    /\ Fault("gone")
    /\ Goto(r, "gone")
    /\ UNCHANGED <<keyVars, usageVars>>

-----------------------------------------------------------------------------
(* The flush.                                                              *)

\* A slip: the timer waits for a full buffer.
FlushFull ==
    /\ batch = <<>> /\ Len(buffer) = MaxBuffered
    /\ batch' = buffer
    /\ buffer' = <<>>
    /\ UNCHANGED <<keyVars, at, finished, dropped, rows, lost, faults>>

\* The timer: nothing if a flush is under way.
Flush ==
    /\ batch = <<>> /\ buffer # <<>>
    /\ batch' = buffer
    /\ buffer' = <<>>
    /\ UNCHANGED <<keyVars, at, finished, dropped, rows, lost, faults>>

In(seq) == {seq[i] : i \in DOMAIN seq}

KeyOfRecord(i) == finished[i].key

Written == [i \in Records |-> IF i \in In(batch) THEN rows[i] + 1 ELSE rows[i]]

\* A row of api_usage refers to the row of its key.
Writable == \A i \in In(batch) : key[KeyOfRecord(i)] # "deleted"

\* A slip: the buffer is emptied when the INSERT is done.
FlushedEmpty ==
    /\ batch # <<>> /\ Writable
    /\ rows' = Written
    /\ batch' = <<>>
    /\ buffer' = <<>>
    /\ UNCHANGED <<keyVars, at, finished, dropped, lost, faults>>

\* insertUsageBatch: one INSERT.
Flushed ==
    /\ batch # <<>> /\ Writable
    /\ rows' = Written
    /\ batch' = <<>>
    /\ UNCHANGED <<keyVars, at, finished, buffer, dropped, lost, faults>>

\* A slip: the batch goes behind what is newer.
PutBackLast ==
    /\ buffer' = Capped(buffer \o batch)
    /\ CountDropped(buffer \o batch)

\* The batch is put back ahead of anything newer.
PutBack ==
    /\ buffer' = Capped(batch \o buffer)
    /\ CountDropped(batch \o buffer)

FlushFails ==
    /\ batch # <<>>
    /\ \/ ~ Writable /\ UNCHANGED <<rows, faults>>
       \/ Writable /\ Fault("down") /\ UNCHANGED rows
       \/ Writable /\ Fault("lost") /\ rows' = Written
    /\ PutBack
    /\ batch' = <<>>
    /\ UNCHANGED <<keyVars, at, finished, lost>>

-----------------------------------------------------------------------------
\* The process dies and comes back with an empty memory.  Its transactions are
\* rolled back; a COMMIT or an INSERT it has sent may still be carried out.
Crash ==
    /\ Fault("crash")
    /\ \E done \in SUBSET {k \in Keys : making[k] = "commit"} :
        key' = [k \in Keys |-> IF k \in done THEN "active" ELSE key[k]]
    /\ making' = [k \in Keys |-> IF making[k] \in {"lock", "count", "commit"}
                                 THEN "failed" ELSE making[k]]
    /\ locks' = {}
    /\ at' = [r \in Requests |-> IF at[r] \in {"limit", "handler"}
                                 THEN "gone" ELSE at[r]]
    /\ rows' \in {rows} \union IF Writable THEN {Written} ELSE {}
    /\ lost' = lost \union {i \in Records : rows'[i] = 0}
    /\ buffer' = <<>> /\ batch' = <<>> /\ dropped' = 0
    /\ UNCHANGED finished

\* An operator deletes a key; ON DELETE CASCADE takes its rows of api_usage.
DeleteKey(k) ==
    /\ key[k] \in {"active", "revoked"}
    /\ Fault("delete")
    /\ key' = [key EXCEPT ![k] = "deleted"]
    /\ LET theirs == {i \in Records : KeyOfRecord(i) = k /\ rows[i] > 0}
       IN  /\ rows' = [i \in Records |-> IF i \in theirs THEN 0 ELSE rows[i]]
           /\ lost' = lost \union theirs
    /\ UNCHANGED <<making, locks, at, finished, buffer, batch, dropped>>

Next ==
    \/ \E k \in Keys : Ask(k) \/ CreateStep(k) \/ Fail(k) \/ Revoke(k) \/ DeleteKey(k)
    \/ \E r \in Requests :
        Authenticate(r) \/ RateLimited(r) \/ Handle(r) \/ ClientGone(r)
    \/ Flush \/ Flushed \/ FlushFails \/ Crash

\* Postgres carries out the statements of a creation, a lock that can be taken
\* is granted, the timer of usage.ts fires and its INSERT ends.
Fairness ==
    /\ \A k \in Keys : WF_vars(CreateStep(k))
    /\ WF_vars(Flush) /\ WF_vars(Flushed \/ FlushFails)

Spec == Init /\ [][Next]_vars /\ Fairness

-----------------------------------------------------------------------------
\* An account never has more active keys than the cap, however many creations
\* run at once (api-keys.ts: "the cap holds under concurrency").
KeyCap == \A k \in Keys : Cardinality(Active(Owner[k])) <= MaxActive

\* Every creation is answered: none waits for a lock that nobody will release.
EveryCreationAnswered ==
    \A k \in Keys : making[k] = "lock" ~> making[k] \in {"shown", "full", "failed"}

Waiting == In(batch) \union In(buffer)

\* A record that is neither stored nor waiting, and was not lost with a process
\* or its key, is one of those counted as dropped.
DroppedAreCounted ==
    Cardinality({i \in Records : rows[i] = 0 /\ i \notin Waiting \union lost}) <= dropped

\* What waits is in the order in which it finished, whatever was put back, and
\* never more than the cap twice, once in the buffer and once under way: so
\* what the cap drops is the oldest of the buffer.
BoundedInOrder ==
    /\ Len(buffer) <= MaxBuffered /\ Len(batch) <= MaxBuffered
    /\ \A i, j \in 1..Len(batch \o buffer) : i < j => (batch \o buffer)[i] < (batch \o buffer)[j]

\* getApiKeyUsage: the columns of the roll-up of k, over the rows it has.
Tally(k, answers) ==
    {t \in Records \X (1..(MaxFaults + 1)) :
        KeyOfRecord(t[1]) = k /\ t[2] <= rows[t[1]] /\ finished[t[1]].answer \in answers}

\* A slip: 429 is an error too.
UsageWithThrottled(k) ==
    [requests |-> Cardinality(Tally(k, Answers)),
     created |-> Cardinality(Tally(k, {"created"})),
     throttled |-> Cardinality(Tally(k, {"throttled"})),
     errors |-> Cardinality(Tally(k, {"error", "throttled"}))]

UsageOf(k) ==
    [requests |-> Cardinality(Tally(k, Answers)),
     created |-> Cardinality(Tally(k, {"created"})),
     throttled |-> Cardinality(Tally(k, {"throttled"})),
     errors |-> Cardinality(Tally(k, {"error"}))]

AnswersTo(k, answers) ==
    Cardinality({i \in Records : KeyOfRecord(i) = k /\ finished[i].answer \in answers})

\* What the roll-up of a key says, once nothing waits and nothing was dropped
\* or went wrong, is what its programs were answered, to the last request.
UsageIsTrue ==
    (faults = 0 /\ dropped = 0 /\ Waiting = {}) =>
        \A k \in Keys :
            /\ UsageOf(k).requests = AnswersTo(k, Answers)
            /\ UsageOf(k).created = AnswersTo(k, {"created"})
            /\ UsageOf(k).throttled + UsageOf(k).errors = AnswersTo(k, {"throttled", "error"})

\* Every buffered record is stored in the end, dropped or lost, unless the row
\* of a key is deleted (a batch with such a record fails for ever).
EventuallyStored ==
    \A i \in 1..Cardinality(Requests) :
        (i \in Records /\ i \in Waiting) ~>
            \/ i \notin Waiting
            \/ \E k \in Keys : key[k] = "deleted"
=============================================================================
