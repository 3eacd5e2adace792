-------------------------------- MODULE Boot --------------------------------
(***************************************************************************)
(* Start and end of the processes.  The API's container runs the seed and  *)
(* then the server (docker-compose.yml), the worker's container runs       *)
(* main.ts; all three apply the migrations first (migrate.ts), without a   *)
(* lock between them, and each exits at the first error.  A worker that    *)
(* gets SIGTERM lets its loops (pool.ts) end before it exits.  Every       *)
(* container is started once; nothing starts again what has exited, unless *)
(* an operator does.                                                       *)
(*                                                                         *)
(* Which statement of a migration meets what another process has committed *)
(* meanwhile, the DDL or the INSERT into schema_migrations, makes no       *)
(* difference: it fails, and all is rolled back.  Jobs are those of        *)
(* Executions and Grading; here they only take time.  Faults:              *)
(*   "down"    a statement fails and has no effect                         *)
(*   "lost"    a COMMIT has its effect, its caller gets an error           *)
(*   "crash"   a process dies                                              *)
(*   "signal"  a process gets SIGTERM, and is not started again            *)
(***************************************************************************)
EXTENDS Integers, FiniteSets

CONSTANTS
    Apis,         \* API containers; compose has one, and only one may seed
    Workers,      \* worker containers
    Last,         \* migrations are numbered 1..Last, in filename order
    Problems,     \* the problems of db/seed/problems.json, by title
    TestCases,    \* how many test cases each of them has
    Loops,        \* consumer loops of all the workers
    WorkerOf,     \* WorkerOf[l]: the worker whose loop l is
    Faults,       \* the classes of faults that may happen
    MaxFaults     \* bound on how many do

Processes == Apis \union Workers

ASSUME BootAssumption ==
    /\ Apis \intersect Workers = {} /\ Cardinality(Apis) <= 1
    /\ Last \in Nat
    /\ TestCases \in Nat \ {0}
    /\ WorkerOf \in [Loops -> Workers]
    /\ MaxFaults \in Nat

VARIABLES
    table,      \* schema_migrations exists
    applied,    \* the migrations it records, whose objects exist
    copies,     \* copies[t]: how many problems have title t
    tests,      \* tests[t]: how many test cases they have in all
    at,         \* at[p]: what p does next
    program,    \* program[p]: which program of its container runs
    known,      \* known[p]: the set applied of runMigrations
    seeded,     \* seeded[p]: the problems seed() has gone through
    loop,       \* loop[l]: where runLoop is
    faults      \* faults so far

rowVars == <<table, applied, copies, tests>>
processVars == <<at, program, known, seeded, loop>>
vars == <<rowVars, processVars, faults>>

Migrations == 1..Last

\* Statements that runMigrations and seed() await.
Starting == {"prepare", "create", "read", "apply", "commit", "seed"}

TypeOK ==
    /\ table \in BOOLEAN
    /\ applied \subseteq Migrations
    /\ copies \in [Problems -> Nat] /\ tests \in [Problems -> Nat]
    /\ at \in [Processes -> Starting \union {"new", "down", "up", "stopping", "stopped"}]
    /\ program \in [Processes -> {"seed", "server", "worker"}]
    /\ known \in [Processes -> SUBSET Migrations]
    /\ seeded \in [Processes -> SUBSET Problems]
    /\ loop \in [Loops -> {"off", "head", "read", "job", "backoff", "ended"}]
    /\ faults \in 0..MaxFaults

FirstProgram(p) == IF p \in Apis THEN "seed" ELSE "worker"

Init ==
    /\ table = FALSE /\ applied = {}
    /\ copies = [t \in Problems |-> 0] /\ tests = [t \in Problems |-> 0]
    /\ at = [p \in Processes |-> "new"]
    /\ program = [p \in Processes |-> FirstProgram(p)]
    /\ known = [p \in Processes |-> {}]
    /\ seeded = [p \in Processes |-> {}]
    /\ loop = [l \in Loops |-> "off"]
    /\ faults = 0

Fault(class) ==
    /\ class \in Faults
    /\ faults < MaxFaults
    /\ faults' = faults + 1

Goto(p, next) == at' = [at EXCEPT ![p] = next]

SetLoops(p, next) ==
    loop' = [l \in Loops |-> IF WorkerOf[l] = p THEN next ELSE loop[l]]

\* The container of p ends, in a way or another.
Leave(p, next) ==
    /\ Goto(p, next)
    /\ program' = [program EXCEPT ![p] = FirstProgram(p)]
    /\ known' = [known EXCEPT ![p] = {}]
    /\ seeded' = [seeded EXCEPT ![p] = {}]
    /\ SetLoops(p, "off")

-----------------------------------------------------------------------------
(* runMigrations.                                                          *)

\* docker compose up starts the container.
Start(p) ==
    /\ at[p] = "new"
    /\ Goto(p, "prepare")
    /\ UNCHANGED <<rowVars, program, known, seeded, loop, faults>>

\* The operator starts again a container that has exited.
Restart(p) ==
    /\ at[p] = "down"
    /\ Goto(p, "prepare")
    /\ UNCHANGED <<rowVars, program, known, seeded, loop, faults>>

\* CREATE TABLE IF NOT EXISTS schema_migrations looks for the table, ...
Prepare(p) ==
    /\ at[p] = "prepare"
    /\ Goto(p, IF table THEN "read" ELSE "create")
    /\ UNCHANGED <<rowVars, program, known, seeded, loop, faults>>

\* ... and creates it; that fails if another process was faster.
CreateTable(p) ==
    /\ at[p] = "create"
    /\ table' = TRUE
    /\ IF table THEN Leave(p, "down")
       ELSE Goto(p, "read") /\ UNCHANGED <<program, known, seeded, loop>>
    /\ UNCHANGED <<applied, copies, tests, faults>>

\* What p does once it takes the migrations in done for applied: the next
\* one, or else what it was started for.
Migrate(p, done) ==
    IF Migrations \subseteq done
    THEN IF program[p] = "seed" THEN Goto(p, "seed") /\ UNCHANGED loop
         ELSE Goto(p, "up") /\ SetLoops(p, "head")
    ELSE Goto(p, "apply") /\ UNCHANGED loop

\* A slip: no look at what is applied.
ReadNothing(p) ==
    /\ at[p] = "read"
    /\ known' = [known EXCEPT ![p] = {}]
    /\ Migrate(p, {})
    /\ UNCHANGED <<rowVars, program, seeded, faults>>

\* SELECT version FROM schema_migrations.
Read(p) ==
    /\ at[p] = "read"
    /\ known' = [known EXCEPT ![p] = applied]
    /\ Migrate(p, applied)
    /\ UNCHANGED <<rowVars, program, seeded, faults>>

\* The first file that p has not found applied, as a singleton.
FirstLeft(p) ==
    {m \in Migrations \ known[p] : \A n \in Migrations \ known[p] : m <= n}

\* BEGIN, the file, INSERT.  They wait for a transaction that applies the same
\* file, and fail if it commits, or has.
Apply(p) ==
    /\ at[p] = "apply"
    /\ ~ \E q \in Processes : at[q] = "commit" /\ FirstLeft(q) = FirstLeft(p)
    /\ IF FirstLeft(p) \subseteq applied THEN Leave(p, "down")
       ELSE Goto(p, "commit") /\ UNCHANGED <<program, known, seeded, loop>>
    /\ UNCHANGED <<rowVars, faults>>

\* COMMIT.
Commit(p) ==
    /\ at[p] = "commit"
    /\ applied' = applied \union FirstLeft(p)
    /\ \/ /\ known' = [known EXCEPT ![p] = @ \union FirstLeft(p)]
          /\ Migrate(p, known[p] \union FirstLeft(p))
          /\ UNCHANGED <<program, seeded, faults>>
       \/ Leave(p, "down") /\ Fault("lost")
    /\ UNCHANGED <<table, copies, tests>>

-----------------------------------------------------------------------------
(* seed(): a problem whose title is missing is created, with its test cases *)
(* in one transaction; of another one only the statement is refreshed.     *)

\* A slip: no transaction.
CreateUnprotected(p, t) ==
    \/ /\ copies' = [copies EXCEPT ![t] = @ + 1]
       /\ tests' = [tests EXCEPT ![t] = @ + TestCases]
       /\ UNCHANGED <<at, program, known, loop, faults>>
       /\ seeded' = [seeded EXCEPT ![p] = @ \union {t}]
    \/ /\ copies' = [copies EXCEPT ![t] = @ + 1]
       /\ tests' = [tests EXCEPT ![t] = @ + TestCases - 1]
       /\ Leave(p, "down") /\ Fault("down")

\* createProblem.
Create(p, t) ==
    /\ copies' = [copies EXCEPT ![t] = @ + 1]
    /\ tests' = [tests EXCEPT ![t] = @ + TestCases]
    /\ \/ /\ seeded' = [seeded EXCEPT ![p] = @ \union {t}]
          /\ UNCHANGED <<at, program, known, loop, faults>>
       \/ Leave(p, "down") /\ Fault("lost")

Seed(p) ==
    /\ at[p] = "seed"
    /\ \E t \in Problems \ seeded[p] :
        IF copies[t] = 0 THEN Create(p, t)
        ELSE /\ seeded' = [seeded EXCEPT ![p] = @ \union {t}]
             /\ UNCHANGED <<copies, tests, at, program, known, loop, faults>>
    /\ UNCHANGED <<table, applied>>

\* The seed exits with 0, and the server is started.
Serve(p) ==
    /\ at[p] = "seed" /\ seeded[p] = Problems
    /\ Goto(p, "prepare")
    /\ program' = [program EXCEPT ![p] = "server"]
    /\ known' = [known EXCEPT ![p] = {}]
    /\ UNCHANGED <<rowVars, seeded, loop, faults>>

-----------------------------------------------------------------------------
(* The loops of a worker, and its end.                                     *)

Turn(l, next) == loop' = [loop EXCEPT ![l] = next]

\* A slip: while (true).
HeadOpen(l) == loop[l] = "head" /\ Turn(l, "read")

\* while (!shuttingDown).
Head(l) ==
    /\ loop[l] = "head"
    /\ Turn(l, IF at[WorkerOf[l]] = "stopping" THEN "ended" ELSE "read")

\* processOne, up to its first command: a job, no job in waitMs, or an error.
Take(l) == loop[l] = "read" /\ \E next \in {"job", "head", "backoff"} : Turn(l, next)

\* The job ends, is left for later by an error, or the backoff is over.
Work(l) ==
    \/ loop[l] = "job" /\ \E next \in {"head", "backoff"} : Turn(l, next)
    \/ loop[l] = "backoff" /\ Turn(l, "head")

LoopStep(l) ==
    /\ Head(l) \/ Take(l) \/ Work(l)
    /\ UNCHANGED <<rowVars, at, program, known, seeded, faults>>

\* stop() has all its loops ended: the connections are closed, exit 0.
Quit(p) ==
    /\ at[p] = "stopping"
    /\ \A l \in Loops : WorkerOf[l] = p => loop[l] = "ended"
    /\ Leave(p, "stopped")
    /\ UNCHANGED <<rowVars, faults>>

\* SIGTERM: only a worker that is up has a handler.  A second one is ignored.
Terminate(p) ==
    /\ at[p] \notin {"new", "down", "stopping", "stopped"}
    /\ Fault("signal")
    /\ IF p \in Workers /\ at[p] = "up"
       THEN Goto(p, "stopping") /\ UNCHANGED <<program, known, seeded, loop>>
       ELSE Leave(p, "stopped")
    /\ UNCHANGED rowVars

\* A statement fails, or the process dies: open transactions are rolled back.
Fail(p) ==
    /\ \/ at[p] \in Starting /\ Fault("down")
       \/ at[p] \notin {"new", "down", "stopped"} /\ Fault("crash")
    /\ Leave(p, "down")
    /\ UNCHANGED rowVars

BootStep(p) ==
    \/ Start(p) \/ Prepare(p) \/ CreateTable(p) \/ Read(p)
    \/ Apply(p) \/ Commit(p) \/ Seed(p) \/ Serve(p)

Next ==
    \/ \E p \in Processes : BootStep(p) \/ Restart(p) \/ Quit(p) \/ Terminate(p) \/ Fail(p)
    \/ \E l \in Loops : LoopStep(l)

\* Every container is started once, Postgres answers, jobs end and backoffs are
\* bounded.  No service of docker-compose.yml has a restart policy: nothing is
\* assumed of Restart.
Fairness ==
    /\ \A p \in Processes : WF_vars(BootStep(p)) /\ WF_vars(Quit(p))
    /\ \A l \in Loops : WF_vars(LoopStep(l))

Spec == Init /\ [][Next]_vars /\ Fairness

-----------------------------------------------------------------------------
\* A process serves or works only when every migration is applied, and the API
\* only when every seeded problem is there, once and with all its test cases,
\* however often and where earlier starts have ended (seed.ts: "Safe to run on
\* every boot").
UpMeansReady ==
    /\ \A p \in Processes : at[p] \in {"up", "stopping"} => applied = Migrations
    /\ \A t \in Problems :
        /\ copies[t] <= 1 /\ tests[t] = copies[t] * TestCases
        /\ (\E p \in Apis : at[p] = "up") => copies[t] = 1

Arrived(p) == at[p] \in {"up", "stopping", "stopped"}

\* "One command [...] brings up the entire real stack" (docker-compose.yml:1):
\* every container comes up and stays up, if nothing fails.
EventuallyUp == \A p \in Processes : <>[]Arrived(p)

\* The processes that migrate at once do not all fail because of each other:
\* if nothing else fails, one of them comes up, and nobody has to start anything
\* again for that.  (A statement of migrate.ts fails only when another process
\* has committed the same; that one goes on.)
OneGetsThrough == [](faults = 0) => <>(\E p \in Processes : at[p] = "up")

\* An operator who starts again whatever has exited, how often it may exit,
\* brings all up in the end, whatever failed and at whichever statement earlier
\* attempts ended (migrate.ts: "Re-running is a no-op").
RestartsBringUp ==
    (\A p \in Processes : at[p] = "down" ~> at[p] # "down")
        => \A p \in Processes : <>[]Arrived(p)

\* A worker told to stop does so, whatever work is left in the queues.
EventuallyStopped == \A p \in Workers : at[p] = "stopping" ~> at[p] # "stopping"
=============================================================================
