------------------------------ MODULE Sandbox ------------------------------
(***************************************************************************)
(* One consumer using the execution engine: the Docker container of a      *)
(* session (packages/engine/src/container.ts, session.ts), the commands    *)
(* run in it (exec.ts) against a timer (timeout.ts), and the two callers,  *)
(* gradeSubmission (apps/worker/src/grader.ts) and runOnce (run-once.ts).  *)
(*                                                                         *)
(* The worker, the timer, the program, the kernel and the Docker daemon    *)
(* are independent actors.  A worker's action is the code between two      *)
(* awaited Docker calls.  What a program prints is right or wrong.         *)
(***************************************************************************)
EXTENDS Integers, Sequences

CONSTANTS
    MaxTests,       \* bound on the test cases of a problem
    MaxSessions,    \* bound on the sessions of this behaviour
    MaxKills,       \* bound on the kernel's OOM kills in a container
    MaxFaults       \* bound on Docker errors and worker crashes

ASSUME SandboxAssumption ==
    /\ MaxTests \in Nat \ {0}
    /\ MaxSessions \in Nat
    /\ MaxKills \in Nat
    /\ MaxFaults \in Nat

VARIABLES
    n,          \* sessions so far; the current or last one is number n
    at,         \* the Docker call the worker awaits
    job,        \* what the session is for
    box,        \* box[s]: the container of session s
    exec,       \* how the command the worker waits for has ended, if it has
    procs,      \* the runs with a live process in the container; 0: compiler
    kills,      \* oom_kill in the container's memory.events
    seen,       \* oomKillsSeen
    flag,       \* State.OOMKilled, which Docker sets some time after a kill
    results,    \* the verdicts of the runs so far
    answer,     \* what the caller gets after close()
    faults,     \* Docker errors and crashes so far
    killed,     \* the runs that had a process killed (kept for properties)
    quiet,      \* those that went on after it (kept for properties)
    truth,      \* what each run really did (kept for properties)
    byFlag,     \* the flag decided a verdict (kept for properties)
    spoiled     \* sessions with an error in creation or removal, or a crash
                \* (kept for properties)

boxVars == <<box, spoiled>>
oomVars == <<kills, flag, killed, quiet>>
kernelVars == <<procs, oomVars>>
sessionVars == <<seen, results, truth, byFlag>>
vars == <<n, at, job, boxVars, exec, kernelVars, sessionVars, answer, faults>>

Sessions == 1..MaxSessions
Runs == 1..MaxTests

\* A grading compares test by test; an execution is a single run.  Python has
\* no compile step.
JobKinds ==
    {j \in [kind : {"grade", "execution"}, tests : Runs, compiled : BOOLEAN] :
        j.kind = "execution" => j.tests = 1}

RunVerdicts == {"ok", "wrong", "runtime_error", "out_of_memory", "timed_out"}

\* What the caller gets: the verdict, the runs passed before it and the one
\* that failed.
Answer(verdict, passed, failed) ==
    [verdict |-> verdict, passed |-> passed, failed |-> failed]
NoAnswer == Answer("none", 0, 0)
Thrown == Answer("thrown", 0, 0)

Calls == {"idle", "create", "start", "copy", "compile", "run", "check", "stop", "remove"}

TypeOK ==
    /\ n \in 0..MaxSessions
    /\ at \in Calls
    /\ job \in JobKinds
    /\ box \in [Sessions -> {"none", "created", "up", "down", "gone"}]
    /\ exec \in {"none", "running", "right", "wrong", "failed"}
    /\ procs \subseteq 0..MaxTests
    /\ kills \in 0..MaxKills
    /\ seen \in 0..MaxKills
    /\ flag \in BOOLEAN
    /\ results \in Seq(RunVerdicts)
    /\ answer \in [verdict : RunVerdicts \union {"none", "thrown", "compile_error"},
                   passed : Nat, failed : Nat]
    /\ faults \in 0..MaxFaults
    /\ killed \subseteq 0..MaxTests
    /\ quiet \subseteq 0..MaxTests
    /\ truth \in Seq(RunVerdicts)
    /\ byFlag \in BOOLEAN
    /\ spoiled \subseteq Sessions

Init ==
    /\ n = 0
    /\ at = "idle"
    /\ job \in JobKinds
    /\ box = [s \in Sessions |-> "none"]
    /\ exec = "none"
    /\ procs = {} /\ kills = 0 /\ flag = FALSE /\ killed = {} /\ quiet = {}
    /\ seen = 0 /\ results = <<>> /\ truth = <<>> /\ byFlag = FALSE
    /\ answer = NoAnswer
    /\ faults = 0
    /\ spoiled = {}

\* The run whose command the worker waits for; 0 is the compiler.
Current == IF at = "compile" THEN 0 ELSE Len(results) + 1

Fault ==
    /\ faults < MaxFaults
    /\ faults' = faults + 1

-----------------------------------------------------------------------------
(* createSession *)

TakeJob ==
    /\ at = "idle"
    /\ n < MaxSessions
    /\ n' = n + 1
    /\ job' \in JobKinds
    /\ at' = "create"
    /\ exec' = "none"
    /\ procs' = {} /\ kills' = 0 /\ flag' = FALSE /\ killed' = {} /\ quiet' = {}
    /\ seen' = 0 /\ results' = <<>> /\ truth' = <<>> /\ byFlag' = FALSE
    /\ answer' = NoAnswer
    /\ UNCHANGED <<boxVars, faults>>

CreateBox ==
    /\ at = "create"
    /\ box' = [box EXCEPT ![n] = "created"]
    /\ at' = "start"
    /\ UNCHANGED <<n, job, spoiled, exec, kernelVars, sessionVars, answer, faults>>

StartBox ==
    /\ at = "start"
    /\ box' = [box EXCEPT ![n] = "up"]
    /\ at' = "copy"
    /\ UNCHANGED <<n, job, spoiled, exec, kernelVars, sessionVars, answer, faults>>

\* createContainer or start rejects, possibly after its effect, and nobody
\* has a handle to remove the container with.
CreateThrows ==
    /\ at \in {"create", "start"}
    /\ Fault
    /\ \E state \in {box[n], IF at = "create" THEN "created" ELSE "up"} :
            box' = [box EXCEPT ![n] = state]
    /\ spoiled' = spoiled \union {n}
    /\ answer' = Thrown
    /\ at' = "idle"
    /\ UNCHANGED <<n, job, exec, kernelVars, sessionVars>>

\* exec() and start() of a command; its timer is armed as well.  The container
\* is up whenever this happens (LaunchedInRunningBox in SandboxProofs).
Launch(call, run) ==
    /\ at' = call
    /\ exec' = "running"
    /\ procs' = procs \union {run}

\* The source is in place: compile, or run at once if there is no compiler.
CopySource ==
    /\ at = "copy"
    /\ IF job.compiled THEN Launch("compile", 0) ELSE Launch("run", 1)
    /\ UNCHANGED <<n, job, boxVars, oomVars, sessionVars, answer, faults>>

-----------------------------------------------------------------------------
(* compile() and its callers *)

\* The caller's finally block: close() comes next, then the answer.
Return(result) ==
    /\ answer' = result
    /\ at' = "stop"

CompileSucceeds ==
    /\ at = "compile"
    /\ exec = "right"
    /\ Launch("run", 1)
    /\ UNCHANGED <<n, job, boxVars, oomVars, sessionVars, answer, faults>>

\* A slip: the compile step reports a word of its own that no caller knows.
CompileTimesOut ==
    /\ at = "compile"
    /\ exec \in {"running", "right", "failed"}
    /\ Return(Answer("compile_timed_out", 0, 1))
    /\ exec' = "none"
    /\ UNCHANGED <<n, job, boxVars, kernelVars, sessionVars, faults>>

\* A non-zero exit, or the timer was first: the compiler may still be running.
CompileFails ==
    /\ at = "compile"
    /\ exec \in {"running", "right", "failed"}
    /\ Return(Answer("compile_error", 0, 1))
    /\ exec' = "none"
    /\ UNCHANGED <<n, job, boxVars, kernelVars, sessionVars, faults>>

-----------------------------------------------------------------------------
(* run() and its callers *)

\* What gradeSubmission and toResultRecord make of an outcome: an execution
\* compares nothing.
VerdictOf(outcome) ==
    IF outcome = "wrong" /\ job.kind = "execution" THEN "ok" ELSE outcome

\* What the current run really did, once its command has ended.
Happened ==
    CASE exec = "right"  -> "ok"
      [] exec = "wrong"  -> IF job.kind = "grade" THEN "wrong" ELSE "ok"
      [] exec = "failed" -> IF Current \in killed THEN "out_of_memory" ELSE "runtime_error"

\* A slip: grading goes on after a test that was not accepted.
SettleAll(outcome, did) ==
    LET run == Len(results) + 1
        verdict == VerdictOf(outcome)
    IN  /\ results' = Append(results, verdict)
        /\ truth' = Append(truth, did)
        /\ IF run < job.tests
              THEN /\ Launch("run", run + 1)
                   /\ UNCHANGED answer
              ELSE /\ Return(IF verdict = "ok" THEN Answer("ok", run, 0)
                                               ELSE Answer(verdict, run - 1, run))
                   /\ exec' = "none"
                   /\ UNCHANGED procs

\* run() resolves: the grader goes on to the next test only if this one is
\* accepted and was not the last.
Settle(outcome, did) ==
    LET run == Len(results) + 1
        verdict == VerdictOf(outcome)
    IN  /\ results' = Append(results, verdict)
        /\ truth' = Append(truth, did)
        /\ IF verdict = "ok" /\ run < job.tests
              THEN /\ Launch("run", run + 1)
                   /\ UNCHANGED answer
              ELSE /\ Return(IF verdict = "ok" THEN Answer("ok", run, 0)
                                               ELSE Answer(verdict, run - 1, run))
                   /\ exec' = "none"
                   /\ UNCHANGED procs

\* The command ended with exit code 0 before the timer.
RunExitsZero ==
    /\ at = "run"
    /\ exec \in {"right", "wrong"}
    /\ Settle(IF exec = "right" THEN "ok" ELSE "wrong", Happened)
    /\ UNCHANGED <<n, job, boxVars, oomVars, seen, byFlag, faults>>

\* Any other exit code: ask the kernel why.  The timer is off now.
RunExitsNonZero ==
    /\ at = "run"
    /\ exec = "failed"
    /\ at' = "check"
    /\ UNCHANGED <<n, job, boxVars, exec, kernelVars, sessionVars, answer, faults>>

\* A slip: the timer covers starting a command but not its output.
TimesOutAtStart ==
    /\ at = "run"
    /\ exec = "failed"
    /\ Settle("timed_out", "timed_out")
    /\ UNCHANGED <<n, job, boxVars, oomVars, seen, byFlag, faults>>

\* The timer is first, whether the program still runs or its end is on the way.
RunTimesOut ==
    /\ at = "run"
    /\ exec # "none"
    /\ Settle("timed_out", "timed_out")
    /\ UNCHANGED <<n, job, boxVars, oomVars, seen, byFlag, faults>>

\* A slip: Docker's flag is taken for the kernel's counter.
CheckDocker ==
    /\ at = "check"
    /\ box[n] = "up"
    /\ Settle(IF flag THEN "out_of_memory" ELSE "runtime_error", Happened)
    /\ seen' = kills
    /\ UNCHANGED <<n, job, boxVars, oomVars, byFlag, faults>>

\* cat memory.events succeeds.
CheckCounter ==
    /\ at = "check"
    /\ box[n] = "up"
    /\ Settle(IF kills > seen THEN "out_of_memory" ELSE "runtime_error", Happened)
    /\ seen' = kills
    /\ UNCHANGED <<n, job, boxVars, oomVars, byFlag, faults>>

\* There is no counter to read, because the container is down or cat fails
\* (as always under cgroup v1): Docker's flag decides.
CheckFlag ==
    /\ at = "check"
    /\ \/ box[n] = "down" /\ UNCHANGED faults
       \/ box[n] = "up" /\ Fault
    /\ Settle(IF flag THEN "out_of_memory" ELSE "runtime_error", Happened)
    /\ byFlag' = TRUE
    /\ UNCHANGED <<n, job, boxVars, oomVars, seen>>

\* A slip: an error leaves the session without the finally block.
SessionThrowsOpen ==
    /\ at \in {"copy", "compile", "run", "check"}
    /\ Fault
    /\ answer' = Thrown
    /\ at' = "idle"
    /\ exec' = "none"
    /\ UNCHANGED <<n, job, boxVars, kernelVars, sessionVars>>

\* A Docker error within the session: close() all the same, then rethrow.
SessionThrows ==
    /\ at \in {"copy", "compile", "run", "check"}
    /\ Fault
    /\ Return(Thrown)
    /\ exec' = "none"
    /\ UNCHANGED <<n, job, boxVars, kernelVars, sessionVars>>

-----------------------------------------------------------------------------
(* close(): both calls swallow their errors *)

StopBox ==
    /\ at = "stop"
    /\ box' = [box EXCEPT ![n] = "down"]
    /\ procs' = {}
    /\ at' = "remove"
    /\ UNCHANGED <<n, job, spoiled, exec, oomVars, sessionVars, answer, faults>>

StopFails ==
    /\ at = "stop"
    /\ Fault
    /\ spoiled' = spoiled \union {n}
    /\ at' = "remove"
    /\ UNCHANGED <<n, job, box, exec, kernelVars, sessionVars, answer>>

\* Docker refuses to remove a running container.
RemoveBox ==
    /\ at = "remove"
    /\ box' = [box EXCEPT ![n] = IF @ = "up" THEN "up" ELSE "gone"]
    /\ at' = "idle"
    /\ UNCHANGED <<n, job, spoiled, exec, kernelVars, sessionVars, answer, faults>>

RemoveFails ==
    /\ at = "remove"
    /\ Fault
    /\ spoiled' = spoiled \union {n}
    /\ at' = "idle"
    /\ UNCHANGED <<n, job, box, exec, kernelVars, sessionVars, answer>>

\* The worker process dies; nothing in the code finds the container again.
WorkerCrash ==
    /\ at # "idle"
    /\ Fault
    /\ at' = "idle"
    /\ exec' = "none"
    /\ answer' = NoAnswer
    /\ spoiled' = spoiled \union {n}
    /\ UNCHANGED <<n, job, box, kernelVars, sessionVars>>

-----------------------------------------------------------------------------
(* The program, the kernel and the Docker daemon *)

\* The worker is waiting for this run's command.
Awaited(run) == at \in {"compile", "run"} /\ exec = "running" /\ run = Current

\* A process ends by itself; one that timed out may do so much later.
ProcessExits ==
    \E run \in procs :
        /\ at # "idle"
        /\ procs' = procs \ {run}
        /\ IF Awaited(run)
              THEN exec' \in IF run = 0 THEN {"right", "failed"}
                                        ELSE {"right", "wrong", "failed"}
              ELSE UNCHANGED exec
        /\ UNCHANGED <<n, at, job, boxVars, oomVars, sessionVars, answer, faults>>

\* A program closes its output and runs on: its exit code is null, not 0.
OutputCloses ==
    /\ at \in {"compile", "run"}
    /\ exec = "running"
    /\ exec' = "failed"
    /\ UNCHANGED <<n, at, job, boxVars, kernelVars, sessionVars, answer, faults>>

\* The kernel kills the process of a run: its exit code is not 0.
KernelKills ==
    \E run \in procs :
        /\ at # "idle"
        /\ kills < MaxKills
        /\ kills' = kills + 1
        /\ killed' = killed \union {run}
        /\ procs' = procs \ {run}
        /\ exec' = IF Awaited(run) THEN "failed" ELSE exec
        /\ UNCHANGED <<n, at, job, boxVars, flag, quiet, sessionVars, answer, faults>>

\* The kernel kills a child process of a program, which goes on.  (A compiler
\* does not: g++ fails when cc1plus is killed, javac is one process.)
KernelKillsChild ==
    \E run \in procs \ {0} :
        /\ at # "idle"
        /\ kills < MaxKills
        /\ kills' = kills + 1
        /\ killed' = killed \union {run}
        /\ quiet' = quiet \union {run}
        /\ UNCHANGED <<n, at, job, boxVars, exec, procs, flag, sessionVars, answer, faults>>

\* The kernel kills the container's first process, and so the container.
KernelKillsInit ==
    \E run \in procs :
        /\ at # "idle"
        /\ box[n] = "up"
        /\ kills < MaxKills
        /\ kills' = kills + 1
        /\ killed' = killed \union {run}
        /\ procs' = {}
        /\ exec' = IF exec = "running" THEN "failed" ELSE exec
        /\ box' = [box EXCEPT ![n] = "down"]
        /\ UNCHANGED <<n, at, job, spoiled, flag, quiet, sessionVars, answer, faults>>

\* Docker's event stream catches up with a kill.
FlagCatchesUp ==
    /\ at # "idle"
    /\ kills > 0
    /\ ~flag
    /\ flag' = TRUE
    /\ UNCHANGED <<n, at, job, boxVars, exec, procs, kills, killed, quiet, sessionVars, answer, faults>>

-----------------------------------------------------------------------------
Worker ==
    \/ CreateBox \/ StartBox \/ CreateThrows \/ CopySource
    \/ CompileSucceeds \/ CompileFails
    \/ RunExitsZero \/ RunExitsNonZero \/ RunTimesOut
    \/ CheckCounter \/ CheckFlag \/ SessionThrows
    \/ StopBox \/ StopFails \/ RemoveBox \/ RemoveFails

Environment ==
    \/ ProcessExits \/ OutputCloses \/ KernelKills \/ KernelKillsChild \/ KernelKillsInit
    \/ FlagCatchesUp \/ WorkerCrash

Next == TakeJob \/ Worker \/ Environment

\* Docker answers every call and timers fire; programs need never end.
Spec == Init /\ [][Next]_vars /\ WF_vars(Worker)

-----------------------------------------------------------------------------
(* Properties *)

\* When no program survived an OOM kill, a verdict reached with the kernel's
\* counter is that of the first run that was not right, whatever order of
\* exits, kills and timers led to it: its verdict, the number of runs passed
\* and the run that failed (grader.ts:44-100).
JudgedAsItRan ==
    answer.verdict \in RunVerdicts /\ ~byFlag /\ quiet = {} =>
        LET bad == {i \in 1..Len(truth) : truth[i] # "ok"}
        IN  IF bad = {}
              THEN answer = Answer("ok", job.tests, 0) /\ Len(truth) = job.tests
              ELSE \E i \in bad :
                     /\ \A j \in bad : i <= j
                     /\ answer = Answer(truth[i], i - 1, i)
                     /\ i = Len(truth)

\* A run judged out of memory by the counter had a process killed itself, or
\* an earlier run did and survived it; never is it charged with the kill of a
\* process that was abandoned by the timer (session.ts:97-104, 114-132).
MemoryVerdictHasKill ==
    ~byFlag => \A i \in 1..Len(results) : results[i] = "out_of_memory" =>
        i \in killed \/ \E j \in quiet : j < i

\* "Comparing it per run attributes each kill to the run that caused it"
\* (README.md:139).
OwnKills ==
    ~byFlag => \A i \in 1..Len(results) : results[i] = "out_of_memory" => i \in killed

\* A container is there only during its session, unless creating or removing
\* it failed or the worker died: close() is on every path (run-once.ts:29,
\* grader.ts:101), also after a timeout and after an error.
NoBoxLeftBehind ==
    \A s \in Sessions :
        box[s] \in {"created", "up", "down"} => s \in spoiled \/ (s = n /\ at # "idle")

\* Whatever the program does, its session ends (timeout.ts:3-7: a timed-out
\* command is not waited for any longer).
SessionEnds == (at # "idle") ~> (at = "idle")
=============================================================================
