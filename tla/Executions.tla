----------------------------- MODULE Executions -----------------------------
(***************************************************************************)
(* The life of one-off executions, end to end: POST /api/v1/executions in  *)
(* the API process (routes/v1/executions.ts), the account's in-flight slot *)
(* and daily quota in Redis (packages/infra/src/limits.ts), the row in     *)
(* Postgres (packages/infra/src/executions.ts), the executions stream      *)
(* (StreamQueue), and the consumers that run jobs (apps/worker/src/        *)
(* execute.ts under the loop of pool.ts).                                  *)
(*                                                                         *)
(* One action per awaited command: between two commands any other request  *)
(* or consumer may run.  What goes wrong is a class of Faults, and at most *)
(* MaxFaults of them, midnights included, happen in a behaviour:           *)
(*   "down"     an API command fails and has no effect                     *)
(*   "lost"     an API command has its effect, its caller gets an error    *)
(*   "resent"   a command has its effect, its reply is lost with the       *)
(*              connection, and the Redis client sends it again            *)
(*   "apiCrash" the API process dies while it serves a request             *)
(*   "engine"   the sandbox cannot be reached (isRetryable in retry.ts)    *)
(*   "worker"   a consumer's attempt ends early: any other command of its  *)
(*              throws, or its process dies and is started again           *)
(*   "delete"   an operator deletes the account, and with it the row       *)
(*   "external" something else writes and publishes a row whose language   *)
(*              the workers do not know                                    *)
(***************************************************************************)
EXTENDS Integers, StreamQueue, FiniteSets

CONSTANTS
    Execs,          \* execution ids; each is posted at most once
    Accounts,       \* accounts (user ids)
    Owner,          \* the account of each execution
    Workers,        \* consumers: the loops of a WorkerPool
    NameOf,         \* the consumer name each loop reads under
    MaxConcurrent,  \* API_MAX_CONCURRENT_EXECUTIONS
    DailyQuota,     \* API_DAILY_EXECUTION_QUOTA
    TTL,            \* API_INFLIGHT_TTL_MS, in ticks
    MaxTime,        \* bound on Redis time, in ticks
    LastDay,        \* bound on the UTC day
    Faults,         \* the classes of faults that may happen
    MaxFaults       \* bound on how many do, midnights included

FaultClasses == {"down", "lost", "resent", "apiCrash", "engine", "worker", "delete",
                 "external"}

\* After these something was done that is not known to be done: it may be done
\* again, or be taken back while it has its effect.
Doubtful == {"lost", "resent", "worker"}

ASSUME ExecutionsAssumption ==
    /\ Jobs = Execs
    /\ IsFiniteSet(Execs)
    /\ Owner \in [Execs -> Accounts]
    /\ NameOf \in [Workers -> Names]
    /\ MaxConcurrent \in Nat /\ DailyQuota \in Nat
    /\ TTL \in Nat \ {0}
    /\ MaxTime \in Nat /\ LastDay \in Nat
    /\ Faults \subseteq FaultClasses
    /\ MaxFaults \in Nat

VARIABLES
    request,    \* request[e]: where the POST that creates e stands
    day,        \* day[e]: the UTC day that request read from the API's clock
    slot,       \* slot[e]: expiry of e in its account's in-flight set, 0 if absent
    used,       \* used[<<a, d>>]: executions charged to account a on day d
    row,        \* row[e]: status of e's row, "none" while there is no row
    step,       \* step[w]: the command consumer w executes next
    held,       \* held[w]: the message w is processing, 0 if none
    now,        \* Redis TIME
    today,      \* the UTC day of the API's clock
    faults,     \* faults so far
    doubts      \* those of them that leave open what was done

apiVars == <<request, day>>
limitVars == <<slot, used>>
workerVars == <<step, held>>
clockVars == <<now, today>>
faultVars == <<faults, doubts>>
vars == <<queueVars, apiVars, limitVars, row, workerVars, clockVars, faultVars>>

Days == 0..LastDay
Active == {"queued", "running"}
Terminal == {"completed", "failed"}

RequestStates ==
    {"new",        \* not posted yet
     "validated",  \* validated; acquireExecutionSlot comes next
     "acquired",   \* createExecution comes next
     "inserted",   \* enqueueExecution comes next
     "accepted",   \* answered 202
     "failing",    \* enqueueExecution threw; failExecution comes next
     "refunding",  \* refundExecutionSlot comes next, then an error answer
     "rejected",   \* answered 429
     "errored",    \* answered 500
     "crashed",    \* the API died between two commands: no answer
     "external"}   \* not posted: the row was written by something else

Steps ==
    {"pending",    \* readOwnPending
     "next",       \* readNext
     "load",       \* getExecutionJob
     "mark",       \* markExecutionRunning
     "run",        \* runOnce
     "save",       \* saveExecutionResult
     "fail",       \* failExecution
     "release",    \* releaseExecutionSlot
     "ack",        \* ack, after the slot was released
     "drop"}       \* ack of a message whose row does not exist

TypeOK ==
    /\ QueueTypeOK
    /\ request \in [Execs -> RequestStates]
    /\ day \in [Execs -> Days]
    /\ slot \in [Execs -> Nat]
    /\ used \in [Accounts \X Days -> Int]
    /\ row \in [Execs -> {"none"} \cup Active \cup Terminal]
    /\ step \in [Workers -> Steps]
    /\ held \in [Workers -> Nat]
    /\ now \in Nat
    /\ today \in Days
    /\ faults \in Nat /\ doubts \in Nat

Init ==
    /\ QueueInit
    /\ request = [e \in Execs |-> "new"]
    /\ day = [e \in Execs |-> 0]
    /\ slot = [e \in Execs |-> 0]
    /\ used = [q \in Accounts \X Days |-> 0]
    /\ row = [e \in Execs |-> "none"]
    /\ step = [w \in Workers |-> "pending"]
    /\ held = [w \in Workers |-> 0]
    /\ now = 0
    /\ today = 0
    /\ faults = 0 /\ doubts = 0

-----------------------------------------------------------------------------
(* Redis: the in-flight set and the daily counter (limits.ts).             *)

\* The members of an account's in-flight set that have not expired.
InFlight(slots, a) == {e \in Execs : Owner[e] = a /\ slots[e] > now}

\* ZREMRANGEBYSCORE -inf now on the in-flight set of one account.  The
\* PEXPIRE of the whole key never fires before its youngest member expires.
Trim(slots, a) ==
    [e \in Execs |-> IF Owner[e] = a /\ slots[e] <= now THEN 0 ELSE slots[e]]

\* Slip: the cap is compared with > instead of >=.
VerdictOffByOne(slots, count, e) ==
    IF count >= DailyQuota THEN "quota_exceeded"
    ELSE IF Cardinality(InFlight(slots, Owner[e])) > MaxConcurrent
         THEN "concurrency_limited"
    ELSE "ok"

\* The answer of the acquire script: quota first, then concurrency.
Verdict(slots, count, e) ==
    IF count >= DailyQuota THEN "quota_exceeded"
    ELSE IF Cardinality(InFlight(slots, Owner[e])) >= MaxConcurrent
         THEN "concurrency_limited"
    ELSE "ok"

Quota(e) == <<Owner[e], day[e]>>

\* ZADD of the execution: its slot expires one TTL from now.
Taken(slots, e) == [slots EXCEPT ![e] = now + TTL]

\* Slip: the refund reads the day again instead of using the one it charged.
RefundedToday(e) ==
    /\ slot' = [slot EXCEPT ![e] = 0]
    /\ used' = [used EXCEPT ![<<Owner[e], today>>] = @ - 1]

\* refundExecutionSlot: ZREM and DECR in one MULTI.
Refunded(e) ==
    /\ slot' = [slot EXCEPT ![e] = 0]
    /\ used' = [used EXCEPT ![Quota(e)] = @ - 1]

\* An UPDATE ... WHERE id = e: no row, no effect.
SetStatus(e, status) ==
    row' = [row EXCEPT ![e] = IF @ = "none" THEN "none" ELSE status]

\* A fault of this class happens in this step.
Fault(class) ==
    /\ class \in Faults
    /\ faults + today < MaxFaults
    /\ faults' = faults + 1
    /\ doubts' = IF class \in Doubtful THEN doubts + 1 ELSE doubts

-----------------------------------------------------------------------------
(* The API: POST /executions.                                              *)

Goto(e, state) == request' = [request EXCEPT ![e] = state]

\* The body passed validation; the UTC day is read here, before the script
\* runs, so midnight may fall between the two.
Validate(e) ==
    /\ request[e] = "new"
    /\ Goto(e, "validated")
    /\ day' = [day EXCEPT ![e] = today]
    /\ UNCHANGED <<queueVars, limitVars, row, workerVars, clockVars, faultVars>>

\* acquireExecutionSlot: one run of the script.  An error outside every try
\* block leaves the slot and the unit of quota taken; a script that is sent
\* again counts what its first run took.
Acquire(e) ==
    LET trimmed == Trim(slot, Owner[e])
        verdict == Verdict(trimmed, used[Quota(e)], e)
    IN
    /\ request[e] = "validated"
    /\ IF verdict = "ok"
       THEN /\ slot' = Taken(trimmed, e)
            /\ used' = [used EXCEPT ![Quota(e)] = @ + 1]
       ELSE slot' = trimmed /\ UNCHANGED used
    /\ \/ /\ Goto(e, IF verdict = "ok" THEN "acquired" ELSE "rejected")
          /\ UNCHANGED faultVars
       \/ Fault("lost") /\ Goto(e, "errored")
       \/ Fault("resent") /\ UNCHANGED request
    /\ UNCHANGED <<queueVars, day, row, workerVars, clockVars>>

\* The script did not run.
AcquireDown(e) ==
    /\ request[e] = "validated"
    /\ Fault("down")
    /\ Goto(e, "errored")
    /\ UNCHANGED <<queueVars, day, limitVars, row, workerVars, clockVars>>

\* createExecution: INSERT with the column default 'queued'.
Insert(e) ==
    /\ request[e] = "acquired"
    /\ \/ /\ row' = [row EXCEPT ![e] = "queued"]
          /\ \/ Goto(e, "inserted") /\ UNCHANGED faultVars
             \/ Goto(e, "refunding") /\ Fault("lost")
       \/ UNCHANGED row /\ Goto(e, "refunding") /\ Fault("down")
    /\ UNCHANGED <<queueVars, day, limitVars, workerVars, clockVars>>

\* enqueueExecution: XADD, then the 202 answer.
Publish(e) ==
    /\ request[e] = "inserted"
    /\ \/ Enqueue(e) /\ Goto(e, "accepted") /\ UNCHANGED faultVars
       \/ Enqueue(e) /\ UNCHANGED request /\ Fault("resent")
       \/ Enqueue(e) /\ Goto(e, "failing") /\ Fault("lost")
       \/ UNCHANGED stream /\ Goto(e, "failing") /\ Fault("down")
    /\ UNCHANGED <<cursor, pel, day, limitVars, row, workerVars, clockVars>>

\* failExecution(...).catch(() => {}): an error is swallowed.
FailRow(e) ==
    /\ request[e] = "failing"
    /\ Goto(e, "refunding")
    /\ \/ SetStatus(e, "failed") /\ UNCHANGED faultVars
       \/ UNCHANGED row /\ Fault("down")
    /\ UNCHANGED <<queueVars, day, limitVars, workerVars, clockVars>>

\* refundExecutionSlot(...).catch(() => {}), then the error answer.
Refund(e) ==
    /\ request[e] = "refunding"
    /\ \/ Refunded(e) /\ Goto(e, "errored") /\ UNCHANGED faultVars
       \/ Refunded(e) /\ UNCHANGED request /\ Fault("resent")
       \/ UNCHANGED limitVars /\ Goto(e, "errored") /\ Fault("down")
    /\ UNCHANGED <<queueVars, day, row, workerVars, clockVars>>

\* The API process dies in the middle of the request.
ApiCrash(e) ==
    /\ request[e] \in {"acquired", "inserted", "failing", "refunding"}
    /\ Fault("apiCrash")
    /\ Goto(e, "crashed")
    /\ UNCHANGED <<queueVars, day, limitVars, row, workerVars, clockVars>>

\* A row with an unknown language, written and published by something else.
WriteUnsupported(e) ==
    /\ request[e] = "new"
    /\ Fault("external")
    /\ Goto(e, "external")
    /\ row' = [row EXCEPT ![e] = "queued"]
    /\ Enqueue(e)
    /\ UNCHANGED <<cursor, pel, day, limitVars, workerVars, clockVars>>

ApiNext ==
    \E e \in Execs :
        \/ Validate(e) \/ Acquire(e) \/ AcquireDown(e)
        \/ Insert(e) \/ Publish(e) \/ FailRow(e) \/ Refund(e) \/ ApiCrash(e)
        \/ WriteUnsupported(e)

-----------------------------------------------------------------------------
(* The consumers: processOneExecution under WorkerPool.runLoop.            *)

\* The execution named by the message w is processing.
JobOf(w) == stream[held[w]]

Proceed(w, next) == step' = [step EXCEPT ![w] = next] /\ UNCHANGED held

Take(w, m) ==
    /\ step' = [step EXCEPT ![w] = "load"]
    /\ held' = [held EXCEPT ![w] = m]

Finish(w) ==
    /\ step' = [step EXCEPT ![w] = "pending"]
    /\ held' = [held EXCEPT ![w] = 0]

\* readOwnPending: the oldest unacknowledged message of this name, if any.
ReadOwnPending(w) ==
    /\ step[w] = "pending"
    /\ \/ \E m \in Messages : OldestPending(NameOf[w], m) /\ Take(w, m)
       \/ NothingPending(NameOf[w]) /\ Proceed(w, "next")
    /\ UNCHANGED <<queueVars, apiVars, limitVars, row, clockVars, faultVars>>

\* readNext: a new message, or null when none arrives within waitMs.
ReadNext(w) ==
    /\ step[w] = "next"
    /\ IF cursor < Len(stream)
       THEN DeliverNext(NameOf[w]) /\ Take(w, cursor + 1) /\ UNCHANGED stream
       ELSE Finish(w) /\ UNCHANGED queueVars
    /\ UNCHANGED <<apiVars, limitVars, row, clockVars, faultVars>>

\* The reply of a readNext is lost: its message is delivered but unseen, and
\* the command is sent again.
ReadNextResent(w) ==
    /\ step[w] = "next"
    /\ DeliverNext(NameOf[w])
    /\ Fault("resent")
    /\ UNCHANGED <<stream, apiVars, limitVars, row, workerVars, clockVars>>

\* Slip: an unsupported language throws instead of failing the row.
LoadJobPoison(w) ==
    /\ step[w] = "load"
    /\ IF row[JobOf(w)] # "none" /\ request[JobOf(w)] = "external"
       THEN Finish(w)
       ELSE Proceed(w, IF row[JobOf(w)] = "none" THEN "drop" ELSE "mark")
    /\ UNCHANGED <<queueVars, apiVars, limitVars, row, clockVars, faultVars>>

\* getExecutionJob, and the check of the row's language.
LoadJob(w) ==
    /\ step[w] = "load"
    /\ Proceed(w, IF row[JobOf(w)] = "none" THEN "drop"
                  ELSE IF request[JobOf(w)] = "external" THEN "fail"
                  ELSE "mark")
    /\ UNCHANGED <<queueVars, apiVars, limitVars, row, clockVars, faultVars>>

\* markExecutionRunning: whatever the status was.
MarkRunning(w) ==
    /\ step[w] = "mark"
    /\ SetStatus(JobOf(w), "running")
    /\ Proceed(w, "run")
    /\ UNCHANGED <<queueVars, apiVars, limitVars, clockVars, faultVars>>

\* runOnce: an outcome to store, or an error that a retry would not cure.
RunOnce(w) ==
    /\ step[w] = "run"
    /\ \E next \in {"save", "fail"} : Proceed(w, next)
    /\ UNCHANGED <<queueVars, apiVars, limitVars, row, clockVars, faultVars>>

\* Slip: a retryable error acknowledges the message.
EngineUnavailableAcked(w) ==
    /\ step[w] = "run"
    /\ Fault("engine")
    /\ Ack(held[w])
    /\ Finish(w)
    /\ UNCHANGED <<stream, cursor, apiVars, limitVars, row, clockVars>>

\* Slip: a retryable error frees the slot.
EngineUnavailableReleased(w) ==
    /\ step[w] = "run"
    /\ Fault("engine")
    /\ slot' = [slot EXCEPT ![JobOf(w)] = 0]
    /\ Finish(w)
    /\ UNCHANGED <<queueVars, apiVars, used, row, clockVars>>

\* runOnce throws a retryable error: the message stays pending and the slot
\* taken, and the loop comes back to the message after its backoff.
EngineUnavailable(w) ==
    /\ step[w] = "run"
    /\ Fault("engine")
    /\ Finish(w)
    /\ UNCHANGED <<queueVars, apiVars, limitVars, row, clockVars>>

\* Slip: the outcome is stored and acknowledged, the slot forgotten.
StoreOutcomeOnly(w) ==
    /\ step[w] \in {"save", "fail"}
    /\ SetStatus(JobOf(w), IF step[w] = "save" THEN "completed" ELSE "failed")
    /\ Proceed(w, "ack")
    /\ UNCHANGED <<queueVars, apiVars, limitVars, clockVars, faultVars>>

\* saveExecutionResult or failExecution: a plain overwrite.
StoreOutcome(w) ==
    /\ step[w] \in {"save", "fail"}
    /\ SetStatus(JobOf(w), IF step[w] = "save" THEN "completed" ELSE "failed")
    /\ Proceed(w, "release")
    /\ UNCHANGED <<queueVars, apiVars, limitVars, clockVars, faultVars>>

\* releaseExecutionSlot: the first half of finish().
ReleaseSlot(w) ==
    /\ step[w] = "release"
    /\ slot' = [slot EXCEPT ![JobOf(w)] = 0]
    /\ Proceed(w, "ack")
    /\ UNCHANGED <<queueVars, apiVars, used, row, clockVars, faultVars>>

\* Slip: the message is never acknowledged.
AckForgotten(w) ==
    /\ step[w] \in {"ack", "drop"}
    /\ Finish(w)
    /\ UNCHANGED <<queueVars, apiVars, limitVars, row, clockVars, faultVars>>

\* XACK: the second half of finish(), or all that is done for a missing row.
AckMessage(w) ==
    /\ step[w] \in {"ack", "drop"}
    /\ Ack(held[w])
    /\ Finish(w)
    /\ UNCHANGED <<stream, cursor, apiVars, limitVars, row, clockVars, faultVars>>

\* The attempt ends anywhere: a command throws (after its effect or without
\* it) or the process dies; the loop starts over under the same name.
Throw(w) ==
    /\ step[w] # "pending"
    /\ Fault("worker")
    /\ Finish(w)
    /\ UNCHANGED <<queueVars, apiVars, limitVars, row, clockVars>>

WorkerStep(w) ==
    \/ ReadOwnPending(w) \/ ReadNext(w) \/ LoadJob(w) \/ MarkRunning(w)
    \/ RunOnce(w) \/ StoreOutcome(w) \/ ReleaseSlot(w) \/ AckMessage(w)

WorkerNext ==
    \E w \in Workers :
        WorkerStep(w) \/ ReadNextResent(w) \/ EngineUnavailable(w) \/ Throw(w)

-----------------------------------------------------------------------------
(* The environment.                                                        *)

\* Time passes; midnight UTC may fall anywhere.
Tick ==
    /\ now < MaxTime
    /\ now' = now + 1
    /\ today' \in {today, today + 1} \cap Days
    /\ today' > today => faults + today < MaxFaults
    /\ UNCHANGED <<queueVars, apiVars, limitVars, row, workerVars, faultVars>>

\* The account is deleted: ON DELETE CASCADE takes the row.
DeleteRow(e) ==
    /\ row[e] # "none"
    /\ Fault("delete")
    /\ row' = [row EXCEPT ![e] = "none"]
    /\ UNCHANGED <<queueVars, apiVars, limitVars, workerVars, clockVars>>

Next == ApiNext \/ WorkerNext \/ Tick \/ \E e \in Execs : DeleteRow(e)

\* Every consumer loop keeps running and is restarted after a crash.
Fairness == \A w \in Workers : WF_vars(WorkerStep(w))

Spec == Init /\ [][Next]_vars /\ Fairness
-----------------------------------------------------------------------------
(* What the component promises.                                            *)

\* The in-flight cap, as Redis sees it: an account never holds more
\* unexpired slots than its cap, whichever requests race, whichever replies
\* are lost, and however often the script is repeated (limits.ts, the
\* acquire script).
SlotCap == \A a \in Accounts : Cardinality(InFlight(slot, a)) <= MaxConcurrent

\* Requests that have taken a unit of this quota and not given it back.
Holding(a, d) ==
    {e \in Execs :
        /\ Owner[e] = a /\ day[e] = d
        /\ request[e] \in {"acquired", "inserted", "accepted", "failing",
                           "refunding", "crashed"}}

\* Requests that use this quota: they hold a unit of it, or their execution is
\* run all the same.
Charged(a, d) ==
    Holding(a, d) \cup
        {e \in Execs :
            Owner[e] = a /\ day[e] = d /\ Published(e) /\ request[e] # "external"}

\* A day's counter is short of the requests that use it by at most one for
\* each reply that was lost, even when a refund comes after midnight or an
\* execution runs after its request was refunded, and never exceeds the quota:
\* where no reply is lost, no more than DailyQuota executions of a day are run.
\* (limits.ts: INCR in the script, DECR in the refund, the captured day;
\* executions.ts:160, where enqueueExecution throws.)
QuotaSound ==
    \A a \in Accounts, d \in Days :
        /\ Cardinality(Charged(a, d)) <= used[<<a, d>>] + doubts
        /\ used[<<a, d>>] <= DailyQuota

\* Nothing is silently lost (README, the design table): while a published
\* execution is queued or running, some message that names it is still to be
\* delivered or still pending, whatever throws, crashes or is repeated.
NothingLost ==
    \A e \in Execs :
        Published(e) /\ row[e] \in Active => \E m \in MessagesOf(e) : ~Acked(m)

\* Every terminal path frees the slot before acking (execute.ts, finish): once
\* a message is acknowledged, its execution holds no slot, unless its row was
\* gone when the consumer looked for it.
ReleasedBeforeAck ==
    \A m \in Messages :
        Acked(m) /\ row[stream[m]] # "none" => slot[stream[m]] = 0

\* Executions posted by an account that a consumer has yet to finish.
Unfinished(a) ==
    {e \in Execs :
        Owner[e] = a /\ request[e] # "external" /\ Published(e) /\ row[e] \in Active}

\* The cap, as the account is told it: as long as no slot can have expired, no
\* more than MaxConcurrent of its executions are queued or running at once, and
\* one more for each lost reply or consumer that died, which can bring back an
\* execution that has given its slot back.
InFlightWithinCap ==
    now < TTL =>
        \A a \in Accounts :
            Cardinality(Unfinished(a)) <= MaxConcurrent + doubts

\* A finished execution stays as it finished: the status the client polled
\* is not taken back, unless a reply was lost or a consumer died.
TerminalIsFinal ==
    [][doubts = 0 =>
        \A e \in Execs : row[e] \in Terminal => row'[e] \in {row[e], "none"}]_vars

\* Every published execution comes to rest: from some moment on the rows of
\* all of them are completed or failed for good, or were deleted.
EventuallySettled ==
    <>[](\A e \in Execs : Published(e) => row[e] \in Terminal \cup {"none"})
-----------------------------------------------------------------------------
(* Why nothing is lost: the inductive strengthening of NothingLost, for    *)
(* consumers that do not share a name.                                     *)

UniqueNames == \A v, w \in Workers : NameOf[v] = NameOf[w] => v = w

\* A delivered message is pending under one name.
PendingUnderOneName ==
    \A n1, n2 \in Names : n1 # n2 => pel[n1] \cap pel[n2] = {}

\* A consumer works on a message that is pending under its own name.
HoldsItsOwn ==
    \A w \in Workers : step[w] \notin {"pending", "next"} => held[w] \in pel[NameOf[w]]

\* A row is inserted before its message is published, never after.
PublishedAfterInsert ==
    \A e \in Execs :
        Published(e) => request[e] \notin {"new", "validated", "acquired"}

\* The consumer will not touch the row again before it acknowledges.
Finishing(w) == step[w] \in {"release", "ack", "drop"}

\* The message will still make a consumer finish its execution: it is to be
\* delivered, or pending and not merely waiting to be acknowledged.
Live(m) ==
    \/ m > cursor
    \/ /\ \E n \in Names : m \in pel[n]
       /\ \A w \in Workers : Finishing(w) => held[w] # m

UnfinishedHasLiveMessage ==
    \A e \in Execs :
        Published(e) /\ row[e] \in Active => \E m \in MessagesOf(e) : Live(m)

DeliveryInv ==
    /\ TypeOK
    /\ PendingUnderOneName
    /\ HoldsItsOwn
    /\ PublishedAfterInsert
    /\ UnfinishedHasLiveMessage
-----------------------------------------------------------------------------
(* Why the slot is freed first: the inductive strengthening of             *)
(* ReleasedBeforeAck, which needs nothing about names.                     *)

\* A consumer that is about to acknowledge has released the slot, or found
\* no row.
ReleasedWhenAcking ==
    \A w \in Workers :
        /\ step[w] \notin {"pending", "next"} => held[w] \in 1..cursor
        /\ step[w] = "drop" => row[JobOf(w)] = "none"
        /\ step[w] = "ack" => row[JobOf(w)] = "none" \/ slot[JobOf(w)] = 0

ReleaseInv ==
    /\ TypeOK
    /\ PublishedAfterInsert
    /\ ReleasedWhenAcking
    /\ ReleasedBeforeAck
=============================================================================
