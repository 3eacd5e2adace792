--------------------------- MODULE SandboxProofs ---------------------------
(***************************************************************************)
(* Theorems about Sandbox, for any number of test cases, sessions, kills   *)
(* and faults: no container is left behind without an error to blame, and  *)
(* every verdict reached with the kernel's counter is that of the run.     *)
(*                                                                         *)
(* WaitInv is what the properties rest on: while the worker waits for a    *)
(* command, only that command's run has a process, every kill so far was   *)
(* of that run or was survived, and all earlier runs were accepted.        *)
(***************************************************************************)
EXTENDS Sandbox, TLAPS

\* Before its first command a session has seen nothing.
Preparing == at \in {"create", "start", "copy"}

FreshInv ==
    /\ at # "idle" => n >= 1
    /\ Preparing => /\ procs = {} /\ killed = {} /\ quiet = {} /\ kills = 0 /\ seen = 0
                    /\ results = <<>> /\ truth = <<>>

Waiting == at \in {"compile", "run", "check"}

\* What holds while the worker waits for a command or asks about its end.
WaitInv ==
    Waiting =>
        /\ seen = 0
        /\ exec # "none"
        /\ Current <= job.tests
        /\ at = "compile" => results = <<>>
        /\ at = "check" => exec = "failed"
        /\ procs \subseteq {Current}
        /\ exec \in {"right", "wrong"} => procs = {}
        /\ killed \subseteq quiet \union {Current}
        /\ Current \in killed \ quiet => exec = "failed"
        /\ \A run \in quiet : run <= Current
        /\ kills > 0 <=> killed # {}

\* Every run so far did what it was judged to have done, and was accepted.
AcceptedInv ==
    Preparing \/ Waiting =>
        /\ answer = NoAnswer
        /\ ~byFlag
        /\ Len(truth) = Len(results)
        /\ \A i \in 1..Len(results) : results[i] = "ok" /\ truth[i] = "ok"

\* A container that could not be stopped was noted as an error.
BoxInv ==
    /\ at = "remove" /\ box[n] = "up" => n \in spoiled
    /\ NoBoxLeftBehind

SandboxInv == TypeOK /\ FreshInv /\ WaitInv /\ AcceptedInv

-----------------------------------------------------------------------------
(* The invariant *)

LEMMA InitSandboxInv == Init => SandboxInv
<1> SUFFICES ASSUME Init PROVE SandboxInv
    OBVIOUS
<1>1. answer \in [verdict : RunVerdicts \union {"none", "thrown", "compile_error"},
                  passed : Nat, failed : Nat]
    BY DEF Init, NoAnswer, Answer
<1>2. results \in Seq(RunVerdicts) /\ truth \in Seq(RunVerdicts)
    BY DEF Init
<1>3. TypeOK
    <2>1. /\ n \in 0..MaxSessions /\ kills \in 0..MaxKills /\ seen \in 0..MaxKills
          /\ faults \in 0..MaxFaults
        BY SandboxAssumption DEF Init
    <2>2. box \in [Sessions -> {"none", "created", "up", "down", "gone"}]
        BY DEF Init
    <2> QED BY <1>1, <1>2, <2>1, <2>2 DEF Init, TypeOK, Calls
<1> QED BY <1>3 DEF Init, SandboxInv, FreshInv, WaitInv, AcceptedInv, Preparing, Waiting

\* The steps that settle a run: an accepted one ended in time, with exit code
\* 0, and left no process behind.
LEMMA SettleSandboxInv ==
    ASSUME SandboxInv,
           at = "run" \/ at = "check",
           NEW outcome \in RunVerdicts, NEW did \in RunVerdicts,
           Settle(outcome, did),
           VerdictOf(outcome) = "ok" =>
               /\ at = "run" /\ exec \in {"right", "wrong"} /\ did = "ok"
               /\ UNCHANGED <<seen, byFlag>>,
           UNCHANGED <<n, job, boxVars, oomVars>>,
           faults' \in 0..MaxFaults, seen' \in 0..MaxKills, byFlag' \in BOOLEAN
    PROVE  SandboxInv'
<1> DEFINE run == Len(results) + 1
           verdict == VerdictOf(outcome)
<1>1. /\ verdict \in RunVerdicts
      /\ run = Current /\ run <= job.tests /\ run \in Nat /\ run >= 1
      /\ job.tests \in Runs
      /\ results' = Append(results, verdict) /\ truth' = Append(truth, did)
    BY DEF SandboxInv, TypeOK, WaitInv, Waiting, Settle, VerdictOf, RunVerdicts, Current,
           JobKinds, Runs
<1>2. /\ results' \in Seq(RunVerdicts) /\ truth' \in Seq(RunVerdicts)
      /\ Len(results') = run /\ Len(truth') = run
      /\ \A i \in 1..Len(results) : results'[i] = results[i] /\ truth'[i] = truth[i]
      /\ results'[run] = verdict /\ truth'[run] = did
    BY <1>1 DEF SandboxInv, TypeOK, AcceptedInv, Waiting
<1>3. CASE verdict = "ok" /\ run < job.tests
    <2>1. /\ at' = "run" /\ exec' = "running" /\ procs' = procs \union {run + 1}
          /\ answer' = answer
        BY <1>3 DEF Settle, Launch
    <2>2. procs' \subseteq 0..MaxTests
        <3>1. job.tests \in 1..MaxTests /\ run \in Nat /\ run < job.tests
            BY <1>1, <1>3 DEF Runs
        <3>2. procs \subseteq 0..MaxTests
            BY DEF SandboxInv, TypeOK
        <3> HIDE DEF run
        <3>3. run + 1 \in 0..MaxTests
            BY <3>1, SandboxAssumption
        <3> QED BY <2>1, <3>2, <3>3
    <2>3. TypeOK'
        <3>1. results' \in Seq(RunVerdicts) /\ truth' \in Seq(RunVerdicts)
            BY <1>2
        <3> HIDE DEF run, verdict
        <3> QED BY <2>1, <2>2, <3>1 DEF SandboxInv, TypeOK, Calls, oomVars, boxVars
    <2>4. WaitInv'
        <3>1. /\ Current = run /\ Current' = run + 1 /\ run + 1 <= job.tests
              /\ job.tests \in Nat
            BY <1>1, <1>2, <1>3, <2>1 DEF Current, Runs
        <3>2. exec \in {"right", "wrong"} /\ seen' = seen /\ at = "run"
            BY <1>3
        <3> HIDE DEF run, verdict
        <3>3. /\ procs = {} /\ killed \subseteq quiet /\ seen = 0
              /\ \A r \in quiet : r <= run
              /\ kills > 0 <=> killed # {}
            BY <3>1, <3>2 DEF SandboxInv, WaitInv, Waiting
        <3>4. \A r \in quiet : r <= run + 1
            BY <1>1, <3>3, SandboxAssumption DEF SandboxInv, TypeOK
        <3> QED BY <1>1, <2>1, <3>1, <3>2, <3>3, <3>4 DEF WaitInv, oomVars
    <2>5. AcceptedInv'
        BY <1>1, <1>2, <1>3, <2>1
           DEF SandboxInv, TypeOK, AcceptedInv, Waiting, Preparing
    <2> QED BY <2>1, <2>3, <2>4, <2>5 DEF SandboxInv, FreshInv, Preparing
<1>4. CASE ~(verdict = "ok" /\ run < job.tests)
    <2>1. /\ at' = "stop" /\ exec' = "none" /\ procs' = procs
          /\ answer' = IF verdict = "ok" THEN Answer("ok", run, 0)
                                        ELSE Answer(verdict, run - 1, run)
        BY <1>1, <1>4 DEF Settle, Return
    <2>2. answer' \in [verdict : RunVerdicts \union {"none", "thrown", "compile_error"},
                       passed : Nat, failed : Nat]
        BY <1>1, <2>1 DEF Answer
    <2>3. TypeOK'
        BY <1>1, <1>2, <2>1, <2>2 DEF SandboxInv, TypeOK, Calls, oomVars, boxVars
    <2> QED BY <2>1, <2>3 DEF SandboxInv, FreshInv, WaitInv, AcceptedInv, Preparing, Waiting
<1> QED BY <1>3, <1>4

LEMMA PrepareSandboxInv ==
    ASSUME SandboxInv, TakeJob \/ CreateBox \/ StartBox \/ CreateThrows \/ CopySource
    PROVE  SandboxInv'
<1>1. CASE TakeJob
    <2>1. TypeOK'
        <3>1. results' \in Seq(RunVerdicts) /\ truth' \in Seq(RunVerdicts)
            BY <1>1 DEF TakeJob
        <3>2. n' \in 0..MaxSessions /\ kills' \in 0..MaxKills /\ seen' \in 0..MaxKills
            BY <1>1, SandboxAssumption DEF TakeJob, SandboxInv, TypeOK
        <3>3. answer' \in [verdict : RunVerdicts \union {"none", "thrown", "compile_error"},
                           passed : Nat, failed : Nat]
            BY <1>1 DEF TakeJob, NoAnswer, Answer
        <3> QED BY <1>1, <3>1, <3>2, <3>3 DEF TakeJob, SandboxInv, TypeOK, Calls, boxVars
    <2> QED BY <1>1, <2>1
            DEF TakeJob, SandboxInv, TypeOK, FreshInv, WaitInv, AcceptedInv, Preparing, Waiting
<1>2. CASE CreateBox \/ StartBox
    <2>1. TypeOK'
        BY <1>2 DEF CreateBox, StartBox, SandboxInv, TypeOK, Calls, kernelVars, oomVars, sessionVars
    <2> QED BY <1>2, <2>1
            DEF CreateBox, StartBox, SandboxInv, FreshInv, WaitInv, AcceptedInv, Preparing,
                Waiting, kernelVars, oomVars, sessionVars
<1>3. CASE CreateThrows
    <2>1. answer' \in [verdict : RunVerdicts \union {"none", "thrown", "compile_error"},
                       passed : Nat, failed : Nat]
        BY <1>3 DEF CreateThrows, Thrown, Answer
    <2>2. /\ faults' \in 0..MaxFaults
          /\ spoiled' \subseteq Sessions
          /\ box' \in [Sessions -> {"none", "created", "up", "down", "gone"}]
        <3>1. n \in Sessions
            BY <1>3, SandboxAssumption
               DEF CreateThrows, SandboxInv, TypeOK, FreshInv, Sessions
        <3>2. faults' \in 0..MaxFaults
            BY <1>3, SandboxAssumption DEF CreateThrows, Fault, SandboxInv, TypeOK
        <3> QED BY <1>3, <3>1, <3>2 DEF CreateThrows, SandboxInv, TypeOK
    <2>3. TypeOK'
        BY <1>3, <2>1, <2>2
           DEF CreateThrows, SandboxInv, TypeOK, Calls, kernelVars, oomVars, sessionVars
    <2> QED BY <1>3, <2>3
            DEF CreateThrows, SandboxInv, FreshInv, WaitInv, AcceptedInv, Preparing, Waiting
<1>4. CASE CopySource
    <2>1. procs = {} /\ killed = {} /\ quiet = {} /\ kills = 0 /\ seen = 0 /\ results = <<>>
        BY <1>4 DEF CopySource, SandboxInv, FreshInv, Preparing
    <2>2. /\ exec' = "running"
          /\ \/ at' = "compile" /\ procs' = {0}
             \/ at' = "run" /\ procs' = {1}
          /\ UNCHANGED <<n, job, boxVars, oomVars, sessionVars, answer, faults>>
        BY <1>4, <2>1 DEF CopySource, Launch
    <2>3. job.tests \in Nat /\ job.tests >= 1 /\ MaxTests \in Nat \ {0}
        BY SandboxAssumption DEF SandboxInv, TypeOK, JobKinds, Runs
    <2>4. TypeOK'
        BY <2>2, <2>3 DEF SandboxInv, TypeOK, Calls, boxVars, oomVars, sessionVars
    <2>5. WaitInv'
        BY <2>1, <2>2, <2>3 DEF WaitInv, Waiting, Current, oomVars, sessionVars
    <2> QED BY <1>4, <2>2, <2>4, <2>5
            DEF CopySource, SandboxInv, FreshInv, AcceptedInv, Preparing, Waiting, sessionVars
<1> QED BY <1>1, <1>2, <1>3, <1>4

LEMMA CompileSandboxInv ==
    ASSUME SandboxInv, CompileSucceeds \/ CompileFails
    PROVE  SandboxInv'
<1>1. CASE CompileSucceeds
    <2>1. /\ at = "compile" /\ exec = "right" /\ at' = "run" /\ exec' = "running"
          /\ procs' = procs \union {1}
          /\ UNCHANGED <<n, job, boxVars, oomVars, sessionVars, answer, faults>>
        BY <1>1 DEF CompileSucceeds, Launch
    <2>2. /\ Current = 0 /\ results = <<>> /\ procs = {} /\ killed \subseteq quiet
          /\ seen = 0 /\ (kills > 0 <=> killed # {})
          /\ \A r \in quiet : r <= 0
        BY <2>1 DEF SandboxInv, WaitInv, Waiting, Current
    <2>3. job.tests \in Nat /\ job.tests >= 1 /\ MaxTests \in Nat \ {0}
        BY SandboxAssumption DEF SandboxInv, TypeOK, JobKinds, Runs
    <2>4. TypeOK'
        BY <2>1, <2>2, <2>3 DEF SandboxInv, TypeOK, Calls, boxVars, oomVars, sessionVars
    <2>5. \A r \in quiet : r <= 1
        BY <2>2, SandboxAssumption DEF SandboxInv, TypeOK
    <2>6. Current' = 1
        BY <2>1, <2>2 DEF Current, sessionVars
    <2>7. WaitInv'
        BY <2>1, <2>2, <2>3, <2>5, <2>6 DEF WaitInv, oomVars, sessionVars
    <2> QED BY <2>1, <2>4, <2>7
            DEF SandboxInv, FreshInv, AcceptedInv, Preparing, Waiting, sessionVars
<1>2. CASE CompileFails
    <2>1. answer' \in [verdict : RunVerdicts \union {"none", "thrown", "compile_error"},
                       passed : Nat, failed : Nat]
        BY <1>2 DEF CompileFails, Return, Answer
    <2>2. TypeOK'
        BY <1>2, <2>1
           DEF CompileFails, Return, SandboxInv, TypeOK, Calls, boxVars, kernelVars, oomVars, sessionVars
    <2> QED BY <1>2, <2>2
            DEF CompileFails, Return, SandboxInv, FreshInv, WaitInv, AcceptedInv, Preparing, Waiting
<1> QED BY <1>1, <1>2

\* The steps of run() that settle it.
LEMMA RunSandboxInv ==
    ASSUME SandboxInv, RunExitsZero \/ RunTimesOut \/ CheckCounter \/ CheckFlag
    PROVE  SandboxInv'
<1>1. CASE RunExitsZero
    <2> DEFINE outcome == IF exec = "right" THEN "ok" ELSE "wrong"
    <2>1. /\ at = "run" /\ exec \in {"right", "wrong"} /\ Settle(outcome, Happened)
          /\ UNCHANGED <<n, job, boxVars, oomVars, seen, byFlag, faults>>
        BY <1>1 DEF RunExitsZero
    <2>2. outcome \in RunVerdicts /\ Happened \in RunVerdicts
        BY <2>1 DEF Happened, RunVerdicts
    <2>3. job.kind \in {"grade", "execution"}
        BY DEF SandboxInv, TypeOK, JobKinds
    <2>4. VerdictOf(outcome) = "ok" => Happened = "ok"
        BY <2>1, <2>3 DEF VerdictOf, Happened
    <2> HIDE DEF outcome
    <2>5. faults' \in 0..MaxFaults /\ seen' \in 0..MaxKills /\ byFlag' \in BOOLEAN
        BY <2>1 DEF SandboxInv, TypeOK
    <2> QED BY <2>1, <2>2, <2>4, <2>5, SettleSandboxInv
<1>2. CASE RunTimesOut
    <2>1. /\ at = "run" /\ Settle("timed_out", "timed_out")
          /\ UNCHANGED <<n, job, boxVars, oomVars, seen, byFlag, faults>>
        BY <1>2 DEF RunTimesOut
    <2>2. "timed_out" \in RunVerdicts /\ VerdictOf("timed_out") # "ok"
        BY DEF RunVerdicts, VerdictOf
    <2>3. faults' \in 0..MaxFaults /\ seen' \in 0..MaxKills /\ byFlag' \in BOOLEAN
        BY <2>1 DEF SandboxInv, TypeOK
    <2> QED BY <2>1, <2>2, <2>3, SettleSandboxInv
<1>3. CASE CheckCounter \/ CheckFlag
    <2>1. PICK outcome \in {"out_of_memory", "runtime_error"} : Settle(outcome, Happened)
        BY <1>3 DEF CheckCounter, CheckFlag
    <2>2. /\ at = "check"
          /\ UNCHANGED <<n, job, boxVars, oomVars>>
          /\ seen' \in {seen, kills} /\ byFlag' \in {byFlag, TRUE}
          /\ faults' = faults \/ Fault
        BY <1>3 DEF CheckCounter, CheckFlag, Fault
    <2>3. outcome \in RunVerdicts /\ VerdictOf(outcome) # "ok"
        BY DEF RunVerdicts, VerdictOf
    <2>4. Happened \in RunVerdicts
        BY <2>2 DEF SandboxInv, WaitInv, Waiting, Happened, RunVerdicts
    <2>5. faults' \in 0..MaxFaults /\ seen' \in 0..MaxKills
        BY <2>2, SandboxAssumption DEF SandboxInv, TypeOK, Fault
    <2>6. byFlag' \in BOOLEAN
        BY <2>2 DEF SandboxInv, TypeOK
    <2> QED BY <2>1, <2>2, <2>3, <2>4, <2>5, <2>6, SettleSandboxInv
<1> QED BY <1>1, <1>2, <1>3

LEMMA CloseSandboxInv ==
    ASSUME SandboxInv,
           \/ RunExitsNonZero \/ SessionThrows \/ WorkerCrash
           \/ StopBox \/ StopFails \/ RemoveBox \/ RemoveFails
    PROVE  SandboxInv'
<1>1. CASE RunExitsNonZero
    <2>1. TypeOK'
        BY <1>1 DEF RunExitsNonZero, SandboxInv, TypeOK, Calls, boxVars, kernelVars, oomVars, sessionVars
    <2>2. Current' = Current
        BY <1>1 DEF RunExitsNonZero, Current, sessionVars
    <2>3. WaitInv'
        BY <1>1, <2>2
           DEF RunExitsNonZero, SandboxInv, WaitInv, Waiting, kernelVars, oomVars, sessionVars
    <2> QED BY <1>1, <2>1, <2>3
            DEF RunExitsNonZero, SandboxInv, FreshInv, AcceptedInv, Preparing, Waiting, sessionVars
<1>2. CASE ~RunExitsNonZero
    <2>1. /\ at # "idle" /\ at' \in {"stop", "remove", "idle"}
          /\ UNCHANGED <<n, job, sessionVars, oomVars>>
        BY <1>2 DEF SessionThrows, WorkerCrash, StopBox, StopFails, RemoveBox, RemoveFails,
                    Return, kernelVars
    <2>2. n \in Sessions
        BY <2>1, SandboxAssumption DEF SandboxInv, TypeOK, FreshInv, Sessions
    <2>3. answer' \in [verdict : RunVerdicts \union {"none", "thrown", "compile_error"},
                       passed : Nat, failed : Nat]
        BY <1>2 DEF SessionThrows, WorkerCrash, StopBox, StopFails, RemoveBox, RemoveFails,
                    Return, SandboxInv, TypeOK, Thrown, NoAnswer, Answer
    <2>4. faults' \in 0..MaxFaults
        BY <1>2, SandboxAssumption
           DEF SessionThrows, WorkerCrash, StopBox, StopFails, RemoveBox, RemoveFails,
               SandboxInv, TypeOK, Fault
    <2>5. /\ box' \in [Sessions -> {"none", "created", "up", "down", "gone"}]
          /\ spoiled' \subseteq Sessions
          /\ exec' \in {exec, "none"}
          /\ procs' \subseteq procs
        BY <1>2, <2>2
           DEF SessionThrows, WorkerCrash, StopBox, StopFails, RemoveBox, RemoveFails,
               SandboxInv, TypeOK, boxVars, kernelVars
    <2>6. TypeOK'
        BY <2>1, <2>3, <2>4, <2>5 DEF SandboxInv, TypeOK, Calls, oomVars, sessionVars
    <2> QED BY <2>1, <2>2, <2>6
            DEF SandboxInv, TypeOK, FreshInv, WaitInv, AcceptedInv, Preparing, Waiting
<1> QED BY <1>1, <1>2

\* Steps of programs, kernel and daemon: they leave the session's own state
\* alone, and a kill or an end of the awaited run shows in exec.
LEMMA EnvironmentSandboxInv ==
    ASSUME SandboxInv,
           \/ ProcessExits \/ OutputCloses \/ KernelKills \/ KernelKillsChild
           \/ KernelKillsInit \/ FlagCatchesUp
    PROVE  SandboxInv'
<1>1. /\ at # "idle"
      /\ UNCHANGED <<n, at, job, spoiled, sessionVars, answer, faults>>
      /\ procs' \subseteq procs
      /\ exec' \in {exec, "right", "wrong", "failed"}
      /\ kills' = kills \/ (kills' = kills + 1 /\ kills < MaxKills)
      /\ flag' \in {flag, TRUE}
      /\ killed' \subseteq killed \union procs
      /\ quiet' \subseteq quiet \union procs
    BY DEF ProcessExits, OutputCloses, KernelKills, KernelKillsChild, KernelKillsInit,
           FlagCatchesUp, kernelVars, oomVars, boxVars
<1>2. n \in Sessions
    BY <1>1, SandboxAssumption DEF SandboxInv, TypeOK, FreshInv, Sessions
<1>3. box' \in [Sessions -> {"none", "created", "up", "down", "gone"}]
    <2>1. box' = box \/ box' = [box EXCEPT ![n] = "down"]
        BY DEF ProcessExits, OutputCloses, KernelKills, KernelKillsChild, KernelKillsInit,
               FlagCatchesUp, boxVars
    <2> QED BY <1>2, <2>1 DEF SandboxInv, TypeOK
<1>4. kills' \in 0..MaxKills
    BY <1>1, SandboxAssumption DEF SandboxInv, TypeOK
<1>5. flag' \in BOOLEAN
    BY <1>1 DEF SandboxInv, TypeOK
<1>6. TypeOK'
    BY <1>1, <1>3, <1>4, <1>5 DEF SandboxInv, TypeOK, sessionVars
<1>7. Current' = Current
    BY <1>1 DEF Current, sessionVars
<1>8. WaitInv'
    <2> SUFFICES ASSUME Waiting PROVE WaitInv'
        BY <1>1 DEF WaitInv, Waiting
    <2>1. /\ kills \in Nat /\ procs \subseteq {Current} /\ at \in {"compile", "run", "check"}
          /\ \A run \in procs : run = Current /\ run <= Current
          /\ kills > 0 <=> killed # {}
        <3>1. procs \subseteq {Current} /\ kills \in Nat
            BY DEF SandboxInv, TypeOK, WaitInv
        <3>2. Current \in Int
            BY DEF Current, SandboxInv, TypeOK
        <3> QED BY <3>1, <3>2 DEF SandboxInv, WaitInv, Waiting
    <2>2. CASE ProcessExits
        <3>1. PICK run \in procs :
                  /\ procs' = procs \ {run}
                  /\ IF Awaited(run) THEN exec' \in {"right", "wrong", "failed"}
                                     ELSE exec' = exec
                  /\ UNCHANGED <<job, oomVars, sessionVars>>
            BY <2>2 DEF ProcessExits
        <3>2. procs' = {}
            BY <2>1, <3>1
        <3>3. /\ exec' # "none"
              /\ exec = "failed" => exec' = "failed"
            BY <2>1, <3>1 DEF Awaited, SandboxInv, WaitInv
        <3> QED BY <1>1, <1>7, <2>1, <3>1, <3>2, <3>3
                DEF SandboxInv, WaitInv, Waiting, oomVars, sessionVars
    <2>5. CASE OutputCloses \/ FlagCatchesUp
        BY <1>1, <1>7, <2>1, <2>5
           DEF OutputCloses, FlagCatchesUp, SandboxInv, WaitInv,
               Waiting, kernelVars, oomVars, sessionVars
    <2>3. CASE KernelKills \/ KernelKillsInit
        <3>1. /\ procs # {} /\ Current \in procs /\ procs' = {}
              /\ kills' = kills + 1 /\ killed' = killed \union {Current}
              /\ quiet' = quiet
            BY <2>1, <2>3 DEF KernelKills, KernelKillsInit
        <3>2. exec \in {"running", "failed"}
            BY <3>1 DEF SandboxInv, TypeOK, WaitInv
        <3>3. at = "check" => exec = "failed"
            BY DEF SandboxInv, WaitInv
        <3>4. exec' = "failed"
            BY <2>1, <2>3, <3>2, <3>3 DEF KernelKills, KernelKillsInit, Awaited
        <3>5. kills' > 0
            BY <2>1, <3>1
        <3> QED BY <1>1, <1>7, <2>1, <3>1, <3>3, <3>4, <3>5
                DEF SandboxInv, WaitInv, Waiting, sessionVars
    <2>4. CASE KernelKillsChild
        BY <1>1, <1>7, <2>1, <2>4
           DEF KernelKillsChild, SandboxInv, WaitInv, Waiting, sessionVars
    <2> QED BY <2>2, <2>3, <2>4, <2>5
<1>9. FreshInv'
    <2>1. Preparing => procs = {}
        BY DEF SandboxInv, FreshInv
    <2> QED BY <1>1, <2>1
            DEF ProcessExits, OutputCloses, KernelKills, KernelKillsChild, KernelKillsInit,
                FlagCatchesUp, SandboxInv, FreshInv, Preparing, sessionVars
<1>10. AcceptedInv'
    BY <1>1 DEF SandboxInv, AcceptedInv, Preparing, Waiting, sessionVars
<1> QED BY <1>6, <1>8, <1>9, <1>10 DEF SandboxInv

LEMMA NextSandboxInv == SandboxInv /\ [Next]_vars => SandboxInv'
<1> SUFFICES ASSUME SandboxInv, [Next]_vars PROVE SandboxInv'
    OBVIOUS
<1>1. CASE UNCHANGED vars
    BY <1>1 DEF SandboxInv, TypeOK, FreshInv, WaitInv, AcceptedInv, Preparing, Waiting, Current,
                vars, boxVars, kernelVars, oomVars, sessionVars
<1>2. CASE Next
    BY <1>2, PrepareSandboxInv, CompileSandboxInv, RunSandboxInv, CloseSandboxInv,
       EnvironmentSandboxInv DEF Next, Worker, Environment
<1> QED BY <1>1, <1>2

\* Every state is of its type, and WaitInv holds (session.ts, grader.ts).
THEOREM SandboxInvariant == Spec => [](TypeOK /\ WaitInv)
<1>1. SandboxInv => TypeOK /\ WaitInv
    BY DEF SandboxInv
<1> QED BY <1>1, InitSandboxInv, NextSandboxInv, PTL DEF Spec

-----------------------------------------------------------------------------
(* Containers *)

LEMMA NextBoxInv == SandboxInv /\ BoxInv /\ [Next]_vars => BoxInv'
<1> SUFFICES ASSUME SandboxInv, BoxInv, [Next]_vars PROVE BoxInv'
    OBVIOUS
<1>1. /\ box \in [Sessions -> {"none", "created", "up", "down", "gone"}]
      /\ at # "idle" => n \in Sessions
    BY SandboxAssumption DEF SandboxInv, TypeOK, FreshInv, Sessions
<1>2. CASE UNCHANGED vars
    BY <1>2 DEF BoxInv, NoBoxLeftBehind, vars, boxVars
<1>3. CASE TakeJob
    BY <1>3 DEF TakeJob, BoxInv, NoBoxLeftBehind, boxVars
<1>4. CASE CreateBox \/ StartBox \/ CreateThrows
    BY <1>1, <1>4 DEF CreateBox, StartBox, CreateThrows, BoxInv, NoBoxLeftBehind
<1>5. CASE StopBox \/ StopFails \/ RemoveBox \/ RemoveFails
    BY <1>1, <1>5 DEF StopBox, StopFails, RemoveBox, RemoveFails, BoxInv, NoBoxLeftBehind
<1>6. CASE WorkerCrash
    BY <1>1, <1>6 DEF WorkerCrash, BoxInv, NoBoxLeftBehind
<1>7. CASE KernelKillsInit
    BY <1>1, <1>7 DEF KernelKillsInit, BoxInv, NoBoxLeftBehind
<1>8. ASSUME \/ CopySource \/ CompileSucceeds \/ CompileFails \/ RunExitsZero
             \/ RunExitsNonZero \/ RunTimesOut \/ CheckCounter \/ CheckFlag
             \/ SessionThrows \/ ProcessExits \/ OutputCloses \/ KernelKills
             \/ KernelKillsChild \/ FlagCatchesUp
      PROVE  BoxInv'
    <2>1. UNCHANGED <<n, boxVars>> /\ at # "idle" /\ (at' = at \/ at' \notin {"idle", "remove"})
        BY <1>8 DEF CopySource, CompileSucceeds, CompileFails, RunExitsZero, RunExitsNonZero,
                    RunTimesOut, CheckCounter, CheckFlag, SessionThrows, ProcessExits,
                    OutputCloses, KernelKills, KernelKillsChild, FlagCatchesUp, Settle,
                    Launch, Return
    <2> QED BY <2>1 DEF BoxInv, NoBoxLeftBehind, boxVars
<1> QED BY <1>2, <1>3, <1>4, <1>5, <1>6, <1>7, <1>8 DEF Next, Worker, Environment

\* A container outlives its session only when creating or removing it failed
\* or the worker died: close() is reached on every path (session.ts:134-137).
THEOREM NoBoxStays == Spec => []NoBoxLeftBehind
<1>1. Init => BoxInv
    BY DEF Init, BoxInv, NoBoxLeftBehind
<1>2. BoxInv => NoBoxLeftBehind
    BY DEF BoxInv
<1> QED BY <1>1, <1>2, InitSandboxInv, NextSandboxInv, NextBoxInv, PTL DEF Spec

\* The next step may start a command only when the container runs: the one
\* kill that takes the container down also fails the command in progress.
Launchable == at = "copy" \/ (Waiting /\ exec # "failed")

UpInv == Launchable => box[n] = "up"

LEMMA NextUpInv == SandboxInv /\ UpInv /\ [Next]_vars => UpInv'
<1> SUFFICES ASSUME SandboxInv, UpInv, [Next]_vars PROVE UpInv'
    OBVIOUS
<1>1. /\ box \in [Sessions -> {"none", "created", "up", "down", "gone"}]
      /\ at # "idle" => n \in Sessions
    BY SandboxAssumption DEF SandboxInv, TypeOK, FreshInv, Sessions
<1>2. CASE UNCHANGED vars
    BY <1>2 DEF UpInv, Launchable, Waiting, vars, boxVars
<1>3. CASE StartBox
    BY <1>1, <1>3 DEF StartBox, UpInv
<1>4. ASSUME \/ TakeJob \/ CreateBox \/ CreateThrows \/ CompileFails \/ SessionThrows
             \/ StopBox \/ StopFails \/ RemoveBox \/ RemoveFails \/ WorkerCrash
      PROVE  UpInv'
    BY <1>4 DEF TakeJob, CreateBox, CreateThrows, CompileFails, SessionThrows, StopBox, StopFails,
                RemoveBox, RemoveFails, WorkerCrash, Return, UpInv, Launchable, Waiting
<1>5. CASE CopySource \/ CompileSucceeds
    BY <1>5 DEF CopySource, CompileSucceeds, UpInv, Launchable, Waiting, boxVars
<1>6. CASE RunExitsZero
    BY <1>6 DEF RunExitsZero, Settle, Launch, Return, UpInv, Launchable, Waiting, boxVars
<1>7. CASE RunTimesOut
    BY <1>7 DEF RunTimesOut, Settle, VerdictOf, Return, UpInv, Launchable, Waiting
<1>8. CASE CheckCounter \/ CheckFlag
    <2>1. PICK outcome \in {"out_of_memory", "runtime_error"} : Settle(outcome, Happened)
        BY <1>8 DEF CheckCounter, CheckFlag
    <2> QED BY <2>1 DEF Settle, VerdictOf, Return, UpInv, Launchable, Waiting
<1>9. CASE KernelKillsInit
    <2>1. Waiting => exec # "none" /\ (exec \in {"right", "wrong"} => procs = {})
        BY DEF SandboxInv, WaitInv
    <2>2. at # "copy" /\ procs # {}
        BY <1>9 DEF KernelKillsInit, SandboxInv, FreshInv, Preparing
    <2>3. exec \in {"none", "running", "right", "wrong", "failed"}
        BY DEF SandboxInv, TypeOK
    <2> QED BY <1>9, <2>1, <2>2, <2>3 DEF KernelKillsInit, UpInv, Launchable, Waiting
<1>10. ASSUME RunExitsNonZero \/ OutputCloses \/ KernelKills \/ KernelKillsChild \/ ProcessExits
              \/ FlagCatchesUp
       PROVE  UpInv'
    <2>1. UNCHANGED <<n, box>> /\ (Launchable' => Launchable)
        BY <1>10 DEF RunExitsNonZero, OutputCloses, KernelKills, KernelKillsChild, ProcessExits,
                     FlagCatchesUp, Awaited, Launchable, Waiting, boxVars
    <2> QED BY <2>1 DEF UpInv
<1> QED BY <1>2, <1>3, <1>4, <1>5, <1>6, <1>7, <1>8, <1>9, <1>10 DEF Next, Worker, Environment

\* A command is only ever started in a running container: whenever CopySource,
\* CompileSucceeds or Settle could launch one, the container is up, although
\* the kernel may take it down at any moment (exec.ts:54-64, session.ts:121).
THEOREM LaunchedInRunningBox == Spec => [](Launchable => box[n] = "up")
<1>1. Init => UpInv
    BY DEF Init, UpInv, Launchable, Waiting
<1>2. UpInv => (Launchable => box[n] = "up")
    BY DEF UpInv
<1> QED BY <1>1, <1>2, InitSandboxInv, NextSandboxInv, NextUpInv, PTL DEF Spec

-----------------------------------------------------------------------------
(* Verdicts *)

\* What the counter says: it is above what was seen exactly when a process was
\* killed, of this run or of an earlier one that survived it.
LEMMA CounterTellsKills ==
    ASSUME SandboxInv, at = "check"
    PROVE  /\ kills > seen => Current \in killed \/ \E j \in quiet : j < Current
           /\ quiet = {} => (kills > seen <=> Current \in killed)
<1>1. /\ seen = 0 /\ killed \subseteq quiet \union {Current}
      /\ \A run \in quiet : run <= Current
      /\ kills > 0 <=> killed # {}
    BY DEF SandboxInv, WaitInv, Waiting
<1>2. Current \in Int /\ quiet \subseteq Int
    BY SandboxAssumption DEF SandboxInv, TypeOK, Current
<1>3. kills > seen => Current \in killed \/ \E j \in quiet : j < Current
    <2> SUFFICES ASSUME kills > seen, Current \notin killed
                 PROVE  \E j \in quiet : j < Current
        OBVIOUS
    <2>1. PICK run \in killed : run \in quiet /\ run # Current
        BY <1>1
    <2>2. run < Current
        BY <1>1, <1>2, <2>1
    <2> QED BY <2>1, <2>2
<1> QED BY <1>1, <1>3

\* The new entry of results and truth when a run settles.
LEMMA SettleAppends ==
    ASSUME SandboxInv, at = "run" \/ at = "check",
           NEW outcome \in RunVerdicts, NEW did \in RunVerdicts, Settle(outcome, did)
    PROVE  /\ Current = Len(results) + 1 /\ Current <= job.tests /\ job.tests \in Nat
           /\ Len(results') = Current /\ Len(truth') = Current
           /\ results'[Current] = VerdictOf(outcome) /\ truth'[Current] = did
           /\ \A i \in 1..Len(results) :
                 results'[i] = results[i] /\ results[i] = "ok" /\ truth'[i] = "ok"
<1>1. /\ results \in Seq(RunVerdicts) /\ truth \in Seq(RunVerdicts)
      /\ Len(truth) = Len(results)
      /\ \A i \in 1..Len(results) : results[i] = "ok" /\ truth[i] = "ok"
      /\ Current = Len(results) + 1 /\ Current <= job.tests /\ job.tests \in Nat
    BY DEF SandboxInv, TypeOK, WaitInv, AcceptedInv, Waiting, Current, JobKinds, Runs
<1>2. VerdictOf(outcome) \in RunVerdicts
    BY DEF VerdictOf, RunVerdicts
<1>3. results' = Append(results, VerdictOf(outcome)) /\ truth' = Append(truth, did)
    BY DEF Settle
<1> QED BY <1>1, <1>2, <1>3

\* The steps that settle a run, with what the property needs of each.
LEMMA SettleSteps ==
    ASSUME SandboxInv, RunExitsZero \/ RunTimesOut \/ CheckCounter \/ CheckFlag
    PROVE  \E outcome, did \in RunVerdicts :
              /\ at = "run" \/ at = "check"
              /\ Settle(outcome, did)
              /\ UNCHANGED <<job, oomVars>>
              /\ ~byFlag' /\ VerdictOf(outcome) = "out_of_memory" =>
                    Current \in killed \/ \E j \in quiet : j < Current
              /\ ~byFlag' /\ quiet = {} => VerdictOf(outcome) = did
<1>1. CASE RunExitsZero
    <2> DEFINE outcome == IF exec = "right" THEN "ok" ELSE "wrong"
    <2>1. /\ at = "run" /\ exec \in {"right", "wrong"} /\ Settle(outcome, Happened)
          /\ UNCHANGED <<job, oomVars>>
        BY <1>1 DEF RunExitsZero
    <2>2. outcome \in RunVerdicts /\ Happened \in RunVerdicts
        BY <2>1 DEF Happened, RunVerdicts
    <2>3. job.kind \in {"grade", "execution"}
        BY DEF SandboxInv, TypeOK, JobKinds
    <2>4. VerdictOf(outcome) = Happened /\ Happened # "out_of_memory"
        BY <2>1, <2>3 DEF VerdictOf, Happened
    <2> HIDE DEF outcome
    <2> QED BY <2>1, <2>2, <2>4
<1>2. CASE RunTimesOut
    <2>1. /\ at = "run" /\ Settle("timed_out", "timed_out")
          /\ UNCHANGED <<job, oomVars>>
        BY <1>2 DEF RunTimesOut
    <2>2. "timed_out" \in RunVerdicts /\ VerdictOf("timed_out") = "timed_out"
        BY DEF RunVerdicts, VerdictOf
    <2> QED BY <2>1, <2>2
<1>3. CASE CheckCounter
    <2> DEFINE outcome == IF kills > seen THEN "out_of_memory" ELSE "runtime_error"
    <2>1. at = "check" /\ Settle(outcome, Happened) /\ UNCHANGED <<job, oomVars>>
        BY <1>3 DEF CheckCounter
    <2>2. exec = "failed"
        BY <2>1 DEF SandboxInv, WaitInv, Waiting
    <2>3. Happened = IF Current \in killed THEN "out_of_memory" ELSE "runtime_error"
        BY <2>2 DEF Happened
    <2>4. outcome \in RunVerdicts /\ Happened \in RunVerdicts /\ VerdictOf(outcome) = outcome
        BY <2>3 DEF RunVerdicts, VerdictOf
    <2>5. /\ outcome = "out_of_memory" => kills > seen
          /\ quiet = {} => outcome = Happened
        BY <2>1, <2>3, CounterTellsKills
    <2> HIDE DEF outcome
    <2> QED BY <2>1, <2>4, <2>5, CounterTellsKills
<1>4. CASE CheckFlag
    <2> DEFINE outcome == IF flag THEN "out_of_memory" ELSE "runtime_error"
    <2>1. /\ at = "check" /\ Settle(outcome, Happened) /\ UNCHANGED <<job, oomVars>>
          /\ byFlag' = TRUE
        BY <1>4 DEF CheckFlag
    <2>2. exec = "failed"
        BY <2>1 DEF SandboxInv, WaitInv, Waiting
    <2>3. outcome \in RunVerdicts /\ Happened \in RunVerdicts
        BY <2>2 DEF Happened, RunVerdicts
    <2> HIDE DEF outcome
    <2> QED BY <2>1, <2>3
<1> QED BY <1>1, <1>2, <1>3, <1>4

\* All other steps start a session, give no answer or leave the verdicts alone.
LEMMA OtherSteps ==
    ASSUME SandboxInv, [Next]_vars, ~(RunExitsZero \/ RunTimesOut \/ CheckCounter \/ CheckFlag)
    PROVE  /\ \/ results' = <<>>
              \/ UNCHANGED <<results, byFlag>> /\ killed \subseteq killed' /\ quiet \subseteq quiet'
           /\ \/ answer'.verdict \notin RunVerdicts
              \/ UNCHANGED <<job, answer, truth, byFlag>> /\ quiet \subseteq quiet'
<1>1. CASE UNCHANGED vars
    BY <1>1 DEF vars, kernelVars, oomVars, sessionVars
<1>2. CASE TakeJob
    BY <1>2 DEF TakeJob, NoAnswer, Answer, RunVerdicts
<1>3. CASE CreateThrows \/ SessionThrows \/ WorkerCrash \/ CompileFails
    BY <1>3 DEF CreateThrows, SessionThrows, WorkerCrash, CompileFails, Return, Thrown, NoAnswer,
                Answer, RunVerdicts, kernelVars, oomVars, sessionVars
<1>4. CASE \/ CreateBox \/ StartBox \/ CopySource \/ CompileSucceeds \/ RunExitsNonZero
           \/ StopBox \/ StopFails \/ RemoveBox \/ RemoveFails
    BY <1>4 DEF CreateBox, StartBox, CopySource, CompileSucceeds, RunExitsNonZero, StopBox,
                StopFails, RemoveBox, RemoveFails, kernelVars, oomVars, sessionVars
<1>5. CASE \/ ProcessExits \/ OutputCloses \/ KernelKills \/ KernelKillsChild
           \/ KernelKillsInit \/ FlagCatchesUp
    BY <1>5 DEF ProcessExits, OutputCloses, KernelKills, KernelKillsChild, KernelKillsInit,
                FlagCatchesUp, kernelVars, oomVars, sessionVars
<1> QED BY <1>1, <1>2, <1>3, <1>4, <1>5 DEF Next, Worker, Environment

LEMMA NextMemoryVerdict ==
    ASSUME SandboxInv, MemoryVerdictHasKill, [Next]_vars
    PROVE  MemoryVerdictHasKill'
<1>1. CASE RunExitsZero \/ RunTimesOut \/ CheckCounter \/ CheckFlag
    <2>1. PICK outcome, did \in RunVerdicts :
              /\ at = "run" \/ at = "check"
              /\ Settle(outcome, did)
              /\ UNCHANGED <<job, oomVars>>
              /\ ~byFlag' /\ VerdictOf(outcome) = "out_of_memory" =>
                    Current \in killed \/ \E j \in quiet : j < Current
        BY <1>1, SettleSteps
    <2>2. /\ Current = Len(results) + 1 /\ Len(results') = Current
          /\ results'[Current] = VerdictOf(outcome)
          /\ \A i \in 1..Len(results) : results'[i] = "ok"
        BY <2>1, SettleAppends
    <2>3. Len(results) \in Nat
        BY DEF SandboxInv, TypeOK
    <2>4. \A i \in 1..Len(results') : i = Current \/ i \in 1..Len(results)
        BY <2>2, <2>3
    <2> QED BY <2>1, <2>2, <2>4 DEF MemoryVerdictHasKill, oomVars
<1>2. CASE ~(RunExitsZero \/ RunTimesOut \/ CheckCounter \/ CheckFlag)
    BY <1>2, OtherSteps DEF MemoryVerdictHasKill
<1> QED BY <1>1, <1>2

\* A run judged out of memory by the counter had a process killed itself, or
\* an earlier run did and survived it (session.ts:114-132).
THEOREM MemoryVerdictsHaveKills == Spec => []MemoryVerdictHasKill
<1>1. Init => MemoryVerdictHasKill
    BY DEF Init, MemoryVerdictHasKill
<1> QED BY <1>1, InitSandboxInv, NextSandboxInv, NextMemoryVerdict, PTL DEF Spec

LEMMA NextJudged ==
    ASSUME SandboxInv, JudgedAsItRan, [Next]_vars
    PROVE  JudgedAsItRan'
<1>1. CASE RunExitsZero \/ RunTimesOut \/ CheckCounter \/ CheckFlag
    <2>1. PICK outcome, did \in RunVerdicts :
              /\ at = "run" \/ at = "check"
              /\ Settle(outcome, did)
              /\ UNCHANGED <<job, oomVars>>
              /\ ~byFlag' /\ quiet = {} => VerdictOf(outcome) = did
        BY <1>1, SettleSteps
    <2> SUFFICES ASSUME answer'.verdict \in RunVerdicts, ~byFlag', quiet' = {}
                 PROVE  LET bad == {i \in 1..Len(truth') : truth'[i] # "ok"}
                        IN  IF bad = {}
                              THEN answer' = Answer("ok", job'.tests, 0) /\ Len(truth') = job'.tests
                              ELSE \E i \in bad :
                                     /\ \A j \in bad : i <= j
                                     /\ answer' = Answer(truth'[i], i - 1, i)
                                     /\ i = Len(truth')
        BY DEF JudgedAsItRan
    <2> DEFINE run == Len(results) + 1
               bad == {i \in 1..Len(truth') : truth'[i] # "ok"}
    <2>2. VerdictOf(outcome) = did /\ job' = job
        BY <2>1 DEF oomVars
    <2>3. /\ run = Current /\ run <= job.tests /\ job.tests \in Nat /\ run \in Nat /\ run >= 1
          /\ Len(truth') = run /\ truth'[run] = did
          /\ \A i \in 1..Len(results) : truth'[i] = "ok"
        BY <2>1, SettleAppends DEF SandboxInv, TypeOK
    <2>4. \A i \in 1..run : i = run \/ i \in 1..Len(results)
        BY DEF SandboxInv, TypeOK
    <2>5. ~(did = "ok" /\ run < job.tests)
        <3> SUFFICES ASSUME did = "ok", run < job.tests PROVE FALSE
            OBVIOUS
        <3>1. answer' = answer
            BY <2>1, <2>2 DEF Settle
        <3>2. answer = NoAnswer
            BY <2>1 DEF SandboxInv, AcceptedInv, Waiting
        <3> QED BY <3>1, <3>2 DEF NoAnswer, Answer, RunVerdicts
    <2>6. answer' = IF did = "ok" THEN Answer("ok", run, 0) ELSE Answer(did, run - 1, run)
        BY <2>1, <2>2, <2>5 DEF Settle, Return
    <2> HIDE DEF run
    <2>7. CASE did = "ok"
        <3>1. bad = {}
            BY <2>3, <2>4, <2>7
        <3>2. run = job.tests
            BY <2>3, <2>5, <2>7
        <3> QED BY <2>2, <2>3, <2>6, <2>7, <3>1, <3>2
    <2>8. CASE did # "ok"
        <3>1. bad = {run}
            BY <2>3, <2>4, <2>8
        <3> QED BY <2>3, <2>6, <2>8, <3>1
    <2> QED BY <2>7, <2>8
<1>2. CASE ~(RunExitsZero \/ RunTimesOut \/ CheckCounter \/ CheckFlag)
    <2>1. \/ answer'.verdict \notin RunVerdicts
          \/ UNCHANGED <<job, answer, truth, byFlag>> /\ quiet \subseteq quiet'
        BY <1>2, OtherSteps
    <2> QED BY <2>1 DEF JudgedAsItRan
<1> QED BY <1>1, <1>2

\* A verdict reached with the counter, while no program survived a kill, is
\* that of the first run that was not right (grader.ts:44-100).
THEOREM GradesAreTrue == Spec => []JudgedAsItRan
<1>1. Init => JudgedAsItRan
    BY DEF Init, JudgedAsItRan, NoAnswer, Answer, RunVerdicts
<1> QED BY <1>1, InitSandboxInv, NextSandboxInv, NextJudged, PTL DEF Spec
=============================================================================
