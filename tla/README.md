# A TLA+ model of the sandbox execution engine

The repository is a code execution service in TypeScript: an API process, a
worker process, Postgres, Redis, Docker, a website and an SDK. Two pipelines
share its parts. *Executions* are programs posted by API clients with limits
per account; *submissions* are solutions that are graded against test cases and
whose progress is pushed to a web page. This directory models the parts where
processes, failures and time meet, checks them with TLC, and proves the main
safety properties of every component with TLAPS.

## Inventory

| Component | State | Operations | Talks to |
|---|---|---|---|
| Work queue (`packages/infra/src/stream.ts`) | a Redis stream, a consumer group with its cursor and, per consumer name, the messages delivered and not acknowledged | `enqueue`, `ensureGroup`, `readNext`, `readOwnPending`, `ack` | API enqueues, worker reads |
| Executions API (`routes/v1/executions.ts`, `executions.ts`, `limits.ts`) | the row; the in-flight set and the daily counter of an account in Redis | `POST /executions`: acquire, INSERT, XADD, or fail and refund | queue, Postgres, Redis |
| Execution consumers (`execute.ts`, `pool.ts`, `retry.ts`) | the job in hand | read, load, mark running, run, save or fail, release the slot, acknowledge | queue, rows, in-flight set, engine |
| Grading (`routes/app/index.ts`, `consume.ts`, `db.ts`) | rows of `submissions` and `submission_results` | `POST /submissions`; load, mark, announce, grade, save in a transaction, announce, acknowledge | queue, rows, pub/sub, engine |
| Live updates (`pubsub.ts`, `ws-hub.ts`, `ResultsView.tsx`) | the channel, the hub's map of sockets, the page | publish, fan out, subscribe with two awaits, push, poll | grading, rows |
| Engine (`packages/engine`) | a container, its OOM counter | create, compile, run, close | Docker |
| Grader (`grader.ts`) | the results so far | grade a submission test by test | engine |
| Rate limiter (`limits.ts`, `rate-limit.ts`) | per account a sorted set of request times that expires | trim, count, admit or refuse; `Retry-After` | every request to `/api/v1` |
| SDK (`packages/sdk-ts`) | one waiting loop | `run`, `waitFor` | rate limiter, executions API |
| API keys (`api-keys.ts`) | key rows, the row lock of the owner | create under a cap, revoke, look up | Postgres |
| Usage accounting (`usage.ts`) | a bounded buffer in memory, the batch under way, a counter of dropped records; `api_usage` | record at "finish", flush once a second, put back | every request, Postgres |
| Boot (`migrate.ts`, `seed.ts`, `main.ts`, `pool.ts`) | `schema_migrations`, the problems, the loops of a pool | migrate, seed, start, shut down | Postgres |
| Accounts and sessions (`routes/app/index.ts`, `db.ts`, `auth.tsx`) | `users`; the token of a browser; the user a tab shows | sign up, log in, check a stored token, log out | Postgres |
| Other web pages (`apps/web/src/pages`) | a form or a list each | submit, read | API |
| Contracts, data, images, scripts | none | none | |

What is hard in it, and what makes each part correct:

- *Queue and consumers.* Delivery is at least once, an attempt may end at any
  command, a restarted consumer reads its own unacknowledged messages again.
  Correct: no published job is stranded without a message; every job comes to
  rest; unfinished work is never acknowledged.
- *Executions.* Three stores (Redis, Postgres, stream) change one after the
  other. Any command may fail before or after its effect, and ioredis sends a
  command again when its connection drops. Correct: the cap and the quota hold
  under every race; an error leaves nothing that runs; a slot is freed before
  its message is acknowledged.
- *Grading.* The same, plus a transaction whose isolation is READ COMMITTED
  and announcements that must not run ahead of the row. Correct: one set of
  result rows per submission; what is announced is what is stored.
- *Live updates.* Pushes, a snapshot and poll answers reach one page in any
  order, and two awaits split the hub's handler. Correct: the page comes to
  show the verdict and keeps showing it.
- *Engine and grader.* A timeout races the result; an OOM counter is read late;
  containers must be removed on every path. Correct: each outcome is that of
  its own run.
- *Rate limiter and SDK.* The log is trimmed when it is used and expires when
  it is not; times are rounded to seconds; a client waits as it is told.
  Correct: no interval of the window's length has more requests than the limit,
  and none is refused that has room; `Retry-After` is the truth; `waitFor` ends.
- *Keys and usage.* A count is checked before an insert; a flush fails while
  newer records arrive, at the cap of the buffer. Correct: the cap holds; no
  record disappears uncounted, or out of order.
- *Boot.* Several processes migrate an empty database with no lock between
  them, and any may die. Correct: who serves finds the whole schema and every
  problem whole; one of those that race gets through; who lost comes up when
  started again; who is told to stop stops.
- *Accounts and sessions.* Two signups pass a pre-check at once; the check of a
  stored token comes back after a login. Correct: one signup wins; the page
  shows the user it acts as.

## Modules

| Module | What it is |
|---|---|
| `StreamQueue` | the Redis stream and consumer group, as actions other modules conjoin |
| `Executions` | EXTENDS `StreamQueue`; API, limits, rows and consumers of executions |
| `SubmissionLifecycle` | abstract: what a submission's row and the updates about it may do |
| `Grading` | EXTENDS `StreamQueue`; API, rows, transaction and consumers of submissions; implements `SubmissionLifecycle` |
| `LiveUpdates` | EXTENDS `SubmissionLifecycle` as its workers; channel, hub and pages |
| `Sandbox` | one consumer's sessions: container, commands, timer, kernel, and the grader and `runOnce` on top |
| `SlidingWindow` | abstract: a rate limit over the complete history of an account |
| `RateLimit` | the script of the limiter, its sorted set and its answer |
| `SdkClient` | EXTENDS `RateLimit`; `run()` and `waitFor()` of the SDK; implements `SlidingWindow` |
| `Gateway` | keys, the chain of middleware, the usage buffer and its flush |
| `Boot` | migrations, seed, start and end of the processes |
| `Website` | signup, login and session checks, and what browsers and tabs keep |
| `MCExecutions`, `MCGrading`, `MCLiveUpdates`, `MCSdkClient`, `MCGateway`, `MCBoot`, `MCWebsite` | instances for TLC (`Sandbox` is checked as it is) |
| `ExecutionsProofs`, `GradingProofs`, `LiveUpdatesProofs`, `SandboxProofs`, `SdkClientProofs`, `GatewayProofs`, `BootProofs`, `WebsiteProofs` | the theorems, each EXTENDS the module it is about |

The composition is by shared state: `Executions` and `Grading` run on the same
queue module, `LiveUpdates` takes for its workers what `Grading` is shown to
implement, `SdkClient` sends every request through the script of `RateLimit`.
A definition whose comment begins with "A slip" is a plausible mistake that the
checks are tried against; no specification uses it.

### How the models correspond to the code

Every `await` is a point where other requests, consumers or processes may run,
so every awaited command is an action of its own; the code between two awaits
belongs to the action before it. A consumer's program counter `step[w]` names the next
command of `processOneExecution` or `processOneSubmission`; a request's
`request[e]` names the next command of its route handler, or how it was
answered. `at`, `making` and `pc` of the other modules are such counters too.

*StreamQueue.* Nothing trims the stream, so a message is its position.
`readOwnPending` returns the oldest pending message of a *name*, not of a
process; `ack` removes the message from the group whoever sends it. No consumer
takes messages over from another name: there is no XAUTOCLAIM in the code.

*Executions.* `Acquire` is one run of the Lua script: trim, test the quota, test
the cap, take. Time is Redis `TIME` in ticks; a slot is the expiry of the
member in the sorted set, 0 when it is absent. The clock of the API is separate
and only its UTC day matters. `Insert`, `Publish`, `FailRow` and `Refund` are
the two try blocks; errors of the last two are swallowed, as in the code.
Programs, outputs and limits of a run are abstracted: `RunOnce` gives an
outcome to store or an error that is not retryable, `EngineUnavailable` is the
retryable one. `Throw` ends an attempt at any command: since a command that
throws after its effect leaves the same state as a consumer that dies after
it, one action stands for both. An execution that something other than the API
writes and publishes (`WriteUnsupported`) is a fault of its own class. `doubts`
counts the faults after which something was done that nobody knows to be done:
a lost reply, a repeated command, a consumer's attempt that ended early.

*Grading.* The k-th grading of a submission has verdict k and result rows k, so
that the model can tell two sets of rows apart. `saveGradeResult` is four
steps: the DELETE takes its snapshot, waits for transactions that are deleting
the same rows, the UPDATE waits for the row lock, COMMIT makes everything
visible. Other updates of the row wait for the lock as well. A submission in
`Demo` is posted to an API in `DEMO_MODE`, which stores its verdict at once and
publishes nothing. `said` is the last update published since a worker last
wrote the row.

*LiveUpdates.* The workers do what `SubmissionLifecycle` allows, with the fairness
that `EventuallyJudged` of `Grading` justifies. Frames to a browser that has closed
its socket are dropped. `Register` adds the socket even if it has closed while
the owner was looked up, as the code does. `missed` records which pages lost
something that only polling can make good.

*Sandbox.* `at` is the Docker call the worker awaits; the program (`procs`, `exec`),
the timer, the kernel (`kills`) and the daemon (`box`, `flag`) move on their own.
`withTimeout` settles once: `RunTimesOut` may come before or after the program
ended, and what it abandoned stays in `procs` until the container is stopped. `Launch` needs
no case for a container that is down, in which `container.exec` would reject: the
kernel's kill of the first process (`KernelKillsInit`) fails the command in
progress, and only an accepted run or compile is followed by another command
(`LaunchedInRunningBox`, proved for all constants). A
program that closes its output ends its stream with an exit code of null
(`OutputCloses`). The flow of `gradeSubmission` is in `Settle`: the next run starts
only after an accepted one. `runOnce` is the case of a single run whose output
nobody compares. `killed`, `quiet`, `truth`, `byFlag` and `spoiled` record what
really happened, for the properties. Sessions share nothing, so one consumer
with several sessions in a row stands for all.

*RateLimit.* `Script` is one run of `vjSlidingWindow`: an expired key is empty,
members at or before `now - Window` are removed, the rest are counted, the
request is added and the key's expiry set if there is room. `log` and `logEnds`
are the set and the expiry. The header is computed in ticks and rounded up to
`Second`s, at least one. `decisions` keeps every answer for the properties.

*SdkClient.* `pc` is where `run()` is; `wire` is how far its current request is:
sent, then answered by a row that is unfinished or terminal, by 429 with its
`Retry-After`, or by a failure. `Pause` is the end of the loop's body: sleep, or
give up when the next poll would come after the deadline. When Redis fails the
middleware lets a request through (`ServeUnlimited`), with or without an entry
in the log. `told` records the refusals that a waiter has heeded.

*Gateway.* `createApiKey` is a transaction: `LockUser` (FOR UPDATE) waits while
another creation of the account holds the row, `Count` answers 409 or goes on,
`Commit` makes the key visible; `Fail` is its ROLLBACK. A request passes
authentication, then the usage recorder, the limiter, the handler; its record
is buffered by the "finish" event, which never comes if the client is gone. A
record is a number, in the order of the "finish" events. `Flush` takes the
buffer, `Flushed` is the INSERT, `FlushFails` puts the batch back in front.

*Boot.* `program[p]` tells whether the API's container runs the seed or the
server. `Prepare` and `CreateTable` split CREATE TABLE IF NOT EXISTS, which is
not atomic in Postgres; `Apply` stands for BEGIN, the file and the INSERT into
`schema_migrations`, which wait for a transaction that does the same and fail
if it commits. Every error ends the process (`Leave`). `Start` happens once per
container, as `docker compose up` does it; `Restart` is an operator's. A worker that is up runs
its loops; `Head` is `while (!shuttingDown)`.

*Website.* A token is named by the request that was answered with it. `token`
belongs to a browser, `user` to a tab: tabs are not told of a change.
`AuthProvider` of a loaded tab sends its check with the token it finds, and
`Land` does with the answer what the code does, whoever has signed in
meanwhile. `overtaken` records the tabs for which that happened.

### Faults

A fault is a step of a class, enabled when the class is in `Faults`, and at
most `MaxFaults` happen in a behaviour.

| Module | Classes |
|---|---|
| `Executions`, `Grading` | (in `Executions` also midnights count against `MaxFaults`) `down` (an API command fails without effect), `lost` (it has its effect, the caller gets an error), `resent` (it has its effect, the reply is lost with the connection and ioredis sends the command again on reconnect: its default), `reread` (`Grading` only: the same for an XREADGROUP), `apiCrash`, `engine` (out of reach), `worker` (a consumer's command throws or its process dies), `delete` (the row is deleted), `external` (`Executions` only: a row with an unknown language is written and published by something else) |
| `LiveUpdates` | `rejudge`, `repeat` (an update is published again), `socket`, `channel` (an update is missed), `poll`, `delete` |
| `Sandbox` | a Docker call fails, the worker dies |
| `SdkClient` | `down` and `lost` (Redis, before or after the script), `request` (any other answer, or none), `abort` (the caller's signal) |
| `Gateway` | `down`, `lost` (statements of Postgres), `gone` (the client), `crash` (the API), `delete` (an operator deletes a key) |
| `Boot` | `down`, `lost`, `crash`, `signal` (SIGTERM) |
| `Website` | `down`, `lost`, `limited` (429 of a login or signup), `net`, `expired` (a token), `reload` (a tab) |

## Runs

| Run | Asks | Result |
|---|---|---|
| `executions` | With every class of fault, a slot that expires while its job waits, and a midnight: is a published execution ever stranded (`NothingLost`), a slot still held after its acknowledgement (`ReleasedBeforeAck`), the in-flight set above its cap (`SlotCap`)? Do quota and cap drift by more than one for each lost reply or dead consumer (`QuotaSound`, `InFlightWithinCap`)? Is a finished status final while there was none (`TerminalIsFinal`)? Does every execution come to rest (`EventuallySettled`)? | never, never, never, no, yes, yes |
| `judged` | Grading with distinct names and every fault but a repeated XADD: one set of result rows (`OneSetOfResults`), nothing stranded (`StillToJudge`), the refinement of `SubmissionLifecycle` (`ImplementsLifecycle`), everything finished and announced (`EventuallyJudged`)? | yes |
| `live` | Do a page with an undisturbed socket and a page that polls come to show the verdict (`EventuallyShown`) and keep it (`DoneIsKept`)? | yes |
| `sessions` | Is every verdict that of its run, whatever the order of ends, kills and timers (`JudgedAsItRan`, `MemoryVerdictHasKill`)? Is every container removed unless Docker or the worker failed (`NoBoxLeftBehind`)? Does every session end (`SessionEnds`)? | yes |
| `waits` | Does the log of the limiter keep its limit in every interval (`WindowLimit`) and decide as the whole history would (refinement of `SlidingWindow`, `KeepsThePromise`)? Is `Retry-After` right (`RetryAfterIsHonest`)? Does `waitFor` end (`EventuallyReturns`), and not much too early (`GivesUpLate`)? | yes |
| `usage` | Does the cap on keys hold under concurrent creations (`KeyCap`), and does none wait for ever (`EveryCreationAnswered`)? Is every usage record stored, waiting in order, counted as dropped or lost with its process or key (`DroppedAreCounted`, `BoundedInOrder`, `EventuallyStored`), and the roll-up true (`UsageIsTrue`)? | yes |
| `boot` | Does who is up find the whole schema and every problem whole (`UpMeansReady`)? If nothing fails, does one of those that race get through by itself (`OneGetsThrough`)? Whatever failed, does starting the losers again bring all up (`RestartsBringUp`)? Does a worker told to stop stop (`EventuallyStopped`)? | yes |
| `web` | Does one signup per address win (`OneWinner`), does a page show the user it acts as unless it was overtaken (`SessionOfOneUser`), does no page wait for ever (`EventuallyKnown`)? | yes |
| `regraded_at_once` | `OneSetOfResults` when an XADD is repeated | violated |
| `live_both` | `EventuallyShown` for a page that has both a socket and polling, as every page does | violated |
| `late_oom` | `OwnKills`: is a kill charged only to the run it happened in? | violated |
| `first_boot` | `EventuallyUp`: does one `docker compose up` on an empty database bring up the API and a worker, if nothing fails? | violated |

`executions`, `live`, `sessions`, `waits` and `usage` also check the type invariant of
their module.

### What the violations say

- `regraded_at_once`: the DELETE of `saveGradeResult` runs before the UPDATE
  that locks the row, so two transactions that save the same submission both
  find nothing to delete and both insert.
- `live_both`: a poll's answer, read before the verdict and delivered after the
  push of Done, overwrites the page; `settled` is already set, so polling has
  ended and the page shows Judging for ever.
- `late_oom`: `run()` reads the OOM counter only after a non-zero exit. A kill of
  a child of a program that exits with 0 is not noted, and the next test that
  fails for any reason is reported as out of memory. `MemoryVerdictHasKill` says how
  far it goes: only the kills of runs that survived them are charged late,
  those of a run that timed out never are, because grading stops there.
- `first_boot`: `api` and `worker` start together, both read an empty
  `schema_migrations` and both apply the first migration; the slower one meets
  what the other has committed, its statement fails, it exits with 1, and no
  service of `docker-compose.yml` has a restart policy. `OneGetsThrough` and
  `RestartsBringUp` say what is left of the promise: one of them gets through, and
  starting the loser again helps.

Three more places where the code does less than one may expect show in how the
properties of `executions` are stated:

- *A lost reply.* An XADD whose reply is lost is treated as one that did not
  happen (`executions.ts:160`): the row is failed, slot and unit are given back,
  the client gets an error, and then a worker runs the execution. The comment
  at `:162` ("The row exists but no worker will ever see it.") does not hold. What
  does hold is a bound: each such reply lets at most one execution run above
  the cap (`InFlightWithinCap`) and one beyond the quota (`QuotaSound`). Take
  `+ doubts` out of either and TLC shows the trace.
- *A consumer's death.* A consumer frees the slot before it acknowledges, the
  right order for slots; if it dies in between, the job runs a second time
  without a slot and its status goes from `completed` back to `running`. The same
  bound covers the cap; `TerminalIsFinal` speaks only of behaviours without doubts,
  and TLC refutes it without that condition.
- *Shared names.* In `Executions_faults.cfg` give both consumers one name
  (`NameOf <- SameName`, `Names = {w1}`, `Faults = {"engine"}`): TLC refutes
  `EventuallySettled`. Consumer names are `executor-0`, `executor-1`, ... in every
  process (`pool.ts:59`). Two worker processes share pending lists; one
  acknowledges a message while the other, which has set the row to `running`,
  gives up on a retryable error: no message is left to finish the row.

### Bounds

- *Executions.* Two executions of one account, a cap of 1, a quota of 2, two
  consumers: two requests meet a full cap, the third, for a spent quota, is
  made by a command that is repeated; two consumers suffice for every pairwise
  race, and slots and counters of different accounts never touch each other.
  Every class of fault may happen, two faults or midnights in a behaviour (with
  one, no fault could meet the consequence of another). The slot expires after
  one tick, so it may do so while its job waits; `InFlightWithinCap` is meant for
  the time in which none can have (the README of the repository lists the
  other case under known limitations).
- *Grading.* Three submissions: an ordinary one, one with an unsupported
  language, one in demo mode; two consumers, two faults. `Verdicts` bounds how
  often a submission is graded. `regraded_at_once` needs one fault and one submission.
- *LiveUpdates.* One submission, one page with a socket and one that polls, two
  faults; `live_both` needs one page and no fault.
- *Sandbox.* Two sessions of up to three runs (a run before and one after the
  interesting one), two kills, two faults.
- *SdkClient.* One waiter and two requests of other programs, a limit of 2 in a
  window of 3 ticks, seconds of 2 ticks (so that rounding matters), pauses of 1
  and 2, a timeout of 5, six ticks: the window passes twice, the waiter is
  refused, waits and is refused again. One fault.
- *Gateway.* Two keys of one account with a cap of 1, three requests, a buffer of
  2 (so that a third record, or a batch put back, overflows it), two faults.
- *Boot.* The API and two workers with a loop each, three migrations, two
  problems of two test cases, two faults. With three processes a loser can lose
  again; loops share nothing but the flag. `first_boot` needs one worker and no
  fault.
- *Website.* Two requests, two addresses of which one is spelled in two ways, two
  passwords, two browsers of which one has two tabs, two faults.
- Symmetry is used nowhere: most runs check liveness, for which it is not sound.
- `LiveUpdates`, `Sandbox`, `SdkClient`, `Gateway`, `Boot` and `Website` may stop (every
  page settled, every session over, every request answered), so their
  configurations switch the deadlock check off; `Executions` and `Grading` never
  stop, because a consumer keeps reading.

### Fairness

- `Executions` and `Grading`: weak fairness of each consumer's next command. Loops
  run until shutdown, errors are caught and retried after a backoff, and a
  crashed process is started again under the same names by whoever runs the
  stack (README.md:414-417 of the repository says that otherwise its messages
  stay pending). Nothing is assumed of requests, of time or of faults.
- `LiveUpdates`: workers finish and announce, and Redis, the hub and the browser
  keep processing what they have received.
- `Sandbox`: Docker answers every call and timers fire; programs need never end,
  and the kernel does what it likes.
- `SdkClient`: time passes, the client's code runs, the server answers what
  reaches it.
- `Gateway`: Postgres carries out the statements of a creation and grants a lock
  that can be taken; the interval of `usage.ts` fires and its INSERT ends. Nothing
  is assumed of requests.
- `Boot`: every container is started once, Postgres answers, jobs end, backoffs are
  bounded. Nothing is assumed of restarts, because nothing in the repository
  restarts what has exited; `RestartsBringUp` has the operator as its hypothesis.
- `Website`: handlers go on, and `fetch` resolves or rejects.

## Proofs

Every theorem is for all values of the constants that satisfy the module's
named assumption (`ExecutionsAssumption`, `GradingAssumption`, ...), which asks for
types and little more: that names are given to consumers, that bounds are
natural numbers, that the limit and the window are positive. TLC evaluates
each of them in the runs. Further hypotheses are in the statements.

`ExecutionsProofs`:

- `TypeCorrect`: `Spec => []TypeOK`.
- `NothingIsLost`: `UniqueNames => (Spec => []NothingLost)`. `NothingLost` is not inductive:
  a message that is pending only because its consumer is about to acknowledge
  it does not count. `DeliveryInv` therefore asks for a *live* message, one not
  yet delivered or pending and not in the hands of a consumer that has stored
  the outcome already. This needs that a message is pending under one name
  (`PendingUnderOneName`), that a consumer works on a message of its own list
  (`HoldsItsOwn`), which fails without distinct names, and that no row is
  inserted after its message was published (`PublishedAfterInsert`).
- `SlotReleasedBeforeAck`: whatever the names. `ReleaseInv` adds what a consumer
  knows at its last steps (`ReleasedWhenAcking`).
- `SlotCapHolds`: a script run takes a slot only below the cap, and nothing else
  adds a member or moves time backwards.
- `QuotaIsSound`: whatever fails, a counter is at most `DailyQuota`, and short of the
  requests that use it by at most `doubts`. A repeated refund gives a unit back
  twice, and a request whose XADD seems to have failed gives back the unit of an
  execution that runs (`Loose`); `QuotaInv` counts both, from the moment the doubt
  arises. `QuotaIsExact`: without lost replies and repeated commands no more than
  `DailyQuota` executions use a day's quota, whoever dies.
- `SettledForGood`: with distinct names, once its request is over and its messages are acknowledged, an
  execution stays settled, whatever fails; with `SettledIsFinished` (its row is
  completed, failed or gone) the safe half of `EventuallySettled`.
- `OutcomesAreFinal` and `InFlightCapHolds`, with distinct names and any faults. An execution is
  `Orderly` while it has one message (`OneMessage`), whoever works on it
  before its outcome is stored finds it unfinished (`FirstPass`), and, once finished,
  it is in the hands of the consumer that finished it, or acknowledged. Only a
  doubt can end that, for one execution (`NextOrderly`, `DisorderBounded`), so without doubts
  all are orderly and no outcome is overwritten. While no slot can have expired, an
  execution that is queued or running either is orderly and holds a slot, which
  `SlotCap` bounds, or is among the `doubts` that are `Amiss`. `InFlightWhileTimely` replaces
  the bound on time by a hypothesis on the behaviour: every execution is done
  before its slot expires (`SlotsOutlive`).

`GradingProofs`. For any faults and names:

- `TypesHold`, with what a consumer processes having been delivered
  (`HeldDelivered`) and what it saves being a verdict (`SavesAGrade`).

For any faults, repeated XADDs included, and distinct names, from `JudgingInv` (each
message is pending under one name and worked on by its own consumer, no row is
inserted after its message was published, an unjudged submission has a live
message):

- `NothingLeftUnjudged`: a published submission that is Pending or Judging has an
  unacknowledged message.
- `JudgedForGood`: once its request is over and its messages are acknowledged, a
  submission keeps its verdict, its result rows and its last update until it is
  deleted; the safe half of `EventuallyJudged`.

For any faults but a repeated XADD, and distinct names:

- `OneSetHolds` and `NothingForgotten`, from `GradingInv`: a submission has one message
  (`OneMessageEach`), pending under one name, so one consumer at a time works on it;
  then the snapshot of a DELETE still holds all rows when it commits
  (`SeesAllResults`). `TellsTheRow` says what a consumer knows of the row at each
  announcement and at its acknowledgement.
- `UpdatesTellTheRow`: `Grading` implements `SubmissionLifecycle` with `Verdicts` = `Int`; each
  step maps to one of its steps or a stutter, and `TellsTheRow` gives the guards.

`LiveUpdatesProofs`, for any submissions, pages and faults:

- `TypesHold`.
- `VerdictReplacedOnlyLate`: a page takes a verdict back only if it has a socket and
  polls, and then only for the answer of the poll under way or a frame of its
  open socket; the path that delivers the verdict is closed by it (`PathsClosed`).
  `VerdictStays` (`DoneIsKept` for pages that do not have both) follows.
- `ShownIsTrue`: a page shows a verdict only if its own submission has one, and without
  re-judging its row still says so or is gone. `NewsIsTrue` says the same of every copy
  on the way: in the channel, in frames, in the hub's snapshot, in a poll's answer.

`SandboxProofs`, for any number of tests, sessions, kills and faults:

- `SandboxInvariant`: `Spec => [](TypeOK /\ WaitInv)`. `WaitInv` is what the rest stands on: while
  the worker waits for a command, only that run has a process, every kill so
  far was of that run or survived, and `oomKillsSeen` is still 0. It is where the
  early stop of the grader enters: a run that was not accepted is the last one.
- `LaunchedInRunningBox`: whenever the next step may start a command, the container
  is up, from `WaitInv`: a command that ended well has left no process to kill.
- `GradesAreTrue` and `MemoryVerdictsHaveKills`, both from `WaitInv` and from the agreement of
  verdicts and truth of earlier runs (`AcceptedInv`).
- `NoBoxStays`, strengthened by: a container still up when it is to be removed has
  had a failed stop.

`SdkClientProofs`, for any number of clients, any limit, window and faults:

- `WindowHolds`: `LogInv` says that the log holds nothing but admitted requests and
  all that may still count, and that the key outlives them.
- `LogKeepsThePromise`: the refinement of `SlidingWindow`, from `LogInv`: what the script
  counts is what the whole history has in the window.
- `EveryAccountKeepsThePromise`, `LimitHolds`: the limiter alone (`LimitSpec`), with any number
  of accounts: each is served as the history of its own requests says, whatever
  the others do.
- `Types`: a waiter sends at most `Timeout + 2` requests (`PollInv`).
- `GivesUpInTime`: from `PollInv`, which bounds a `Retry-After` by the window and a second.
- `RetryAfterHolds`: `DecisionInv` says that a refusal was made with a full window whose
  oldest member determined `reset_at`; `ToldInv` follows that time through the header,
  the pause and the next request, which therefore finds room unless another
  request was admitted meanwhile.

`GatewayProofs`, for any keys, requests, sizes and faults:

- `CapHolds`: whoever has counted holds the row of its account, and no one
  else does (`LockInv`), so there still is room when the key is committed (`Counted`).
- `NoLockLeft`, the safe part of `EveryCreationAnswered`, and `RevokedForGood`: a key revoked or
  deleted is never active again, whatever a process that died had sent: a key
  has a row only once its creation is over (`EndedInv`).
- `TypesHold`: what waits, is being flushed or has rows are records.
- `DroppedIsCounted`, `WaitsInOrder`, `RollUpIsTrue`, from `LedgerInv`. Each operation on the buffer is
  first described by a lemma about sequences (what capping, appending, putting a batch
  back and taking it leave, in which order and how many). The invariant then
  says that batch and buffer together are in order, that the
  records in neither, nor stored nor lost, are no more than `dropped`, and that as long
  as nothing failed and nothing was dropped a record has one row, or waits and has
  none (`NothingAmiss`).

`BootProofs`: `ReadyWhenUp`. A process knows only what is applied (`SchemaInv`); a problem is
there whole or not at all, and the server is started only after all of them
(`SeedInv`).

`WebsiteProofs`: `SignupHasOneWinner`, by itself inductive with `AccountInv`; `SessionIsOfOneUser`, from what a
page will show once its check is back (`SessionInv`).

Only model-checked: the liveness properties (`EventuallySettled`, `EventuallyJudged`,
`EventuallyShown`, `SessionEnds`, `EventuallyReturns`, `EveryCreationAnswered`, `EventuallyStored`,
`OneGetsThrough`, `RestartsBringUp`, `EventuallyStopped`, `EventuallyKnown`), which TLAPS does not handle under fairness. Of some their safe half is proved:
that the state they lead to is final (`SettledForGood`, `JudgedForGood`) or what must
not stay does not (`NoLockLeft`). Every other property of a passing run is stated by
a theorem.

## Not modelled

`PROJECT.json` lists every component with its status. Left out, and why:

- Operations that only read and decide nothing: `GET /executions/:id` beyond its
  three answers, the lists of problems, submissions, keys and usage.
- The order of the answers to two reads of the same list
  (`ProblemSubmissions.tsx:19`, `ProblemDetail.tsx:67`): nothing depends on the
  lists; the same race on the results page is modelled and refuted (`live_both`).
- `last_used_at` of a key: a best-effort update that nothing reads but a list.
- The expiry of a quota key after two days: it outlives the day it counts.
- The in-memory limiters of the website (express-rate-limit): a fault class of `Website`.
- The length of backoffs and intervals, and that `stop()` waits for a backoff: only
  the order of steps is modelled.
- A request whose client is gone is not recorded, although `usage.ts:2` speaks of
  every request: modelled (`gone`), and not a property.
- The columns `message`, `passed_count` and `failed_test_ordinal` of a submission
  (`db.ts:372`): they describe a verdict and are never read back by the pipeline.
- The map of the hub that keeps a socket closed too early (`ws-hub.ts:69`): the
  step is modelled, but nothing in the repository states a bound.
- Hashes, signatures and tokens: taken for what they promise. Validation and the
  shape of answers; what a program prints and how it is capped; the second mount of
  effects in React's development mode.
- Contracts, generated code, problem data, images and scripts: no behaviour.

## What could come next

- The pages of problems and profile, with the order of their answers.
- More theorems about `Boot` and `Website` than the properties their runs check.
