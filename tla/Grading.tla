------------------------------ MODULE Grading ------------------------------
(***************************************************************************)
(* The life of judged submissions: POST /submissions in the API process    *)
(* (routes/app/index.ts), the rows of submissions and submission_results   *)
(* in Postgres (packages/infra/src/db.ts), the submissions stream          *)
(* (StreamQueue), the consumers that grade (apps/worker/src/consume.ts     *)
(* under the loop of pool.ts), and the updates they publish.               *)
(*                                                                         *)
(* One action per awaited command.  What grading finds is abstracted to    *)
(* which grading it is: the k-th grading of a submission stores verdict k  *)
(* and writes result rows marked k.  Faults are classes, as in Executions; *)
(* at most MaxFaults of them happen in a behaviour:                        *)
(*   "down"     an API command fails and has no effect                     *)
(*   "lost"     an API command has its effect, its caller gets an error    *)
(*   "resent"   an XADD has its effect, and is sent again                  *)
(*   "reread"   so is an XREADGROUP                                        *)
(*   "apiCrash" the API process dies between INSERT and XADD               *)
(*   "engine"   the sandbox cannot be reached (isRetryable in retry.ts)    *)
(*   "worker"   a consumer's attempt ends early, by an error or a crash    *)
(*   "delete"   an operator deletes the row                                *)
(***************************************************************************)
EXTENDS Integers, StreamQueue, FiniteSets

CONSTANTS
    Submissions,    \* submission ids; each is posted at most once
    Unsupported,    \* submissions whose row names no known language
    Demo,           \* submissions posted to an API in DEMO_MODE
    Workers,        \* consumers: the loops of a WorkerPool
    NameOf,         \* the consumer name each loop reads under
    Verdicts,       \* a bound on the verdicts of this behaviour
    Faults,         \* the classes of faults that may happen
    MaxFaults       \* bound on how many do

FaultClasses == {"down", "lost", "resent", "reread", "apiCrash", "engine", "worker", "delete"}

\* The verdicts of a submission that could not be graded, and of one that was
\* not to be ("Not Run (demo)").
InternalError == -1
NotRun == -2

ASSUME GradingAssumption ==
    /\ Jobs = Submissions
    /\ Unsupported \subseteq Submissions
    /\ Demo \subseteq Submissions \ Unsupported
    /\ NameOf \in [Workers -> Names]
    /\ Verdicts \subseteq Int
    /\ Faults \subseteq FaultClasses
    /\ MaxFaults \in Nat

VARIABLES
    request,    \* request[s]: where the POST that creates s stands
    status,     \* status[s]: the row's status, "none" while there is no row
    verdict,    \* verdict[s]: the row's verdict
    results,    \* results[s]: the gradings whose rows submission_results holds
    said,       \* said[s]: the last update published about s since a worker
                \* wrote its row (kept for the properties)
    graded,     \* graded[s]: how often s was graded
    step,       \* step[w]: the command consumer w executes next
    held,       \* held[w]: the message w is processing, 0 if none
    grade,      \* grade[w]: the verdict w has reached
    seen,       \* seen[w]: the result rows that w's DELETE found
    faults      \* faults so far

rowVars == <<status, verdict, results>>
workerVars == <<step, held, grade, seen>>
vars == <<queueVars, request, rowVars, said, graded, workerVars, faults>>

\* The abstract life of a submission this module implements.
Lifecycle == INSTANCE SubmissionLifecycle WITH
    status <- status, verdict <- verdict, said <- said

NoVerdict == 0

RequestStates ==
    {"new",        \* not posted yet
     "inserted",   \* enqueueSubmission or markSubmissionDemoDisabled is next
     "accepted",   \* answered 201
     "errored",    \* answered 500
     "crashed",    \* the API died: no answer
     "external"}   \* not posted: the row was written by something else

Steps ==
    {"pending", "next",             \* readOwnPending, readNextSubmission
     "load",                        \* getSubmissionForGrading
     "mark", "sayJudging",          \* updateSubmissionStatus, publish
     "grade",                       \* gradeSubmission
     "save",                        \* saveGradeResult: DELETE is sent
     "delete",                      \* its snapshot is taken, it may wait
     "update",                      \* UPDATE submissions, it may wait
     "commit",                      \* INSERTs and COMMIT; holds the row lock
     "fail",                        \* failSubmissionInternal
     "sayDone",                     \* publishSubmissionUpdate
     "ack"}                         \* acknowledgeSubmission

TypeOK ==
    /\ QueueTypeOK
    /\ request \in [Submissions -> RequestStates]
    /\ status \in [Submissions -> {"none", "Pending", "Judging", "Done"}]
    /\ verdict \in [Submissions -> Int]
    /\ results \in [Submissions -> SUBSET Nat]
    /\ said \in [Submissions ->
                    [status : {"none", "Judging", "Done"}, verdict : Int]]
    /\ graded \in [Submissions -> Nat]
    /\ step \in [Workers -> Steps]
    /\ held \in [Workers -> Nat]
    /\ grade \in [Workers -> Int]
    /\ seen \in [Workers -> SUBSET Nat]
    /\ faults \in Nat

Init ==
    /\ QueueInit
    /\ request = [s \in Submissions |-> "new"]
    /\ Lifecycle!LifecycleInit
    /\ results = [s \in Submissions |-> {}]
    /\ graded = [s \in Submissions |-> 0]
    /\ step = [w \in Workers |-> "pending"]
    /\ held = [w \in Workers |-> 0]
    /\ grade = [w \in Workers |-> NoVerdict]
    /\ seen = [w \in Workers |-> {}]
    /\ faults = 0

\* A fault of this class happens in this step.
Fault(class) ==
    /\ class \in Faults
    /\ faults < MaxFaults
    /\ faults' = faults + 1

\* UPDATE submissions SET status ... WHERE id = s: no row, no effect.
SetStatus(s, state) ==
    status' = [status EXCEPT ![s] = IF @ = "none" THEN @ ELSE state]

SetVerdict(s, v) ==
    verdict' = [verdict EXCEPT ![s] = IF status[s] = "none" THEN @ ELSE v]

\* The row was written: what was said of it is out of date.
Unsay(s) ==
    said' = [said EXCEPT ![s] = IF status[s] = "none" THEN @ ELSE Lifecycle!Nothing]

-----------------------------------------------------------------------------
(* The API: POST /submissions.                                             *)

Goto(s, state) == request' = [request EXCEPT ![s] = state]

\* createSubmission: INSERT with the column default 'Pending'.
Insert(s) ==
    /\ request[s] = "new" /\ s \notin Unsupported
    /\ \/ /\ status' = [status EXCEPT ![s] = "Pending"]
          /\ \/ Goto(s, "inserted") /\ UNCHANGED faults
             \/ Goto(s, "errored") /\ Fault("lost")
       \/ UNCHANGED status /\ Goto(s, "errored") /\ Fault("down")
    /\ UNCHANGED <<queueVars, verdict, results, said, graded, workerVars>>

\* enqueueSubmission: XADD, then the 201 answer.  An error leaves the row as
\* it is: nothing undoes the INSERT.
Publish(s) ==
    /\ request[s] = "inserted" /\ s \notin Demo
    /\ \/ Enqueue(s) /\ Goto(s, "accepted") /\ UNCHANGED faults
       \/ Enqueue(s) /\ UNCHANGED request /\ Fault("resent")
       \/ Enqueue(s) /\ Goto(s, "errored") /\ Fault("lost")
       \/ UNCHANGED stream /\ Goto(s, "errored") /\ Fault("down")
    /\ UNCHANGED <<cursor, pel, rowVars, said, graded, workerVars>>

\* markSubmissionDemoDisabled: the row is finished and nothing is queued.
MarkDemo(s) ==
    /\ request[s] = "inserted" /\ s \in Demo
    /\ \/ /\ SetStatus(s, "Done") /\ SetVerdict(s, NotRun) /\ Unsay(s)
          /\ \/ Goto(s, "accepted") /\ UNCHANGED faults
             \/ Goto(s, "errored") /\ Fault("lost")
       \/ UNCHANGED <<status, verdict, said>> /\ Goto(s, "errored") /\ Fault("down")
    /\ UNCHANGED <<queueVars, results, graded, workerVars>>

\* The API process dies between the two.
ApiCrash(s) ==
    /\ request[s] = "inserted"
    /\ Fault("apiCrash")
    /\ Goto(s, "crashed")
    /\ UNCHANGED <<queueVars, rowVars, said, graded, workerVars>>

\* A row with an unknown language, written and published by something else.
WriteUnsupported(s) ==
    /\ request[s] = "new" /\ s \in Unsupported
    /\ Goto(s, "external")
    /\ status' = [status EXCEPT ![s] = "Pending"]
    /\ Enqueue(s)
    /\ UNCHANGED <<cursor, pel, verdict, results, said, graded, workerVars, faults>>

ApiNext ==
    \E s \in Submissions :
        Insert(s) \/ Publish(s) \/ MarkDemo(s) \/ ApiCrash(s) \/ WriteUnsupported(s)

-----------------------------------------------------------------------------
(* The consumers: processOneSubmission under WorkerPool.runLoop.           *)

\* The submission named by the message w is processing.
JobOf(w) == stream[held[w]]

Proceed(w, next) ==
    step' = [step EXCEPT ![w] = next] /\ UNCHANGED <<held, grade, seen>>

Take(w, m) ==
    /\ step' = [step EXCEPT ![w] = "load"]
    /\ held' = [held EXCEPT ![w] = m]
    /\ UNCHANGED <<grade, seen>>

Finish(w) ==
    /\ step' = [step EXCEPT ![w] = "pending"]
    /\ held' = [held EXCEPT ![w] = 0]
    /\ grade' = [grade EXCEPT ![w] = NoVerdict]
    /\ seen' = [seen EXCEPT ![w] = {}]

\* A transaction that updated the row of s is open: it holds the row lock.
RowLocked(s) == \E w \in Workers : step[w] = "commit" /\ JobOf(w) = s

\* Transactions whose DELETE has removed rows of s but has not committed.
Deleting(s) == {w \in Workers : step[w] \in {"update", "commit"} /\ JobOf(w) = s}

\* readOwnPending: the oldest unacknowledged message of this name, if any.
ReadOwnPending(w) ==
    /\ step[w] = "pending"
    /\ \/ \E m \in Messages : OldestPending(NameOf[w], m) /\ Take(w, m)
       \/ NothingPending(NameOf[w]) /\ Proceed(w, "next")
    /\ UNCHANGED <<queueVars, request, rowVars, said, graded, faults>>

\* readNextSubmission: a new message, or null when none arrives in waitMs.
ReadNext(w) ==
    /\ step[w] = "next"
    /\ IF cursor < Len(stream)
       THEN DeliverNext(NameOf[w]) /\ Take(w, cursor + 1) /\ UNCHANGED stream
       ELSE Finish(w) /\ UNCHANGED queueVars
    /\ UNCHANGED <<request, rowVars, said, graded, faults>>

\* The reply of the read is lost, and the command is sent again.
ReadNextResent(w) ==
    /\ step[w] = "next"
    /\ DeliverNext(NameOf[w])
    /\ Fault("reread")
    /\ UNCHANGED <<stream, request, rowVars, said, graded, workerVars>>

\* getSubmissionForGrading, and the check of the row's language.
Load(w) ==
    /\ step[w] = "load"
    /\ Proceed(w, IF status[JobOf(w)] = "none" THEN "ack"
                  ELSE IF JobOf(w) \in Unsupported THEN "fail"
                  ELSE "mark")
    /\ UNCHANGED <<queueVars, request, rowVars, said, graded, faults>>

\* updateSubmissionStatus(s, "Judging"): whatever the status was.
MarkJudging(w) ==
    /\ step[w] = "mark"
    /\ ~RowLocked(JobOf(w))
    /\ SetStatus(JobOf(w), "Judging")
    /\ Unsay(JobOf(w))
    /\ Proceed(w, "sayJudging")
    /\ UNCHANGED <<queueVars, request, verdict, results, graded, faults>>

\* publishSubmissionUpdate with status Judging.
SayJudging(w) ==
    /\ step[w] = "sayJudging"
    /\ said' = [said EXCEPT ![JobOf(w)] = Lifecycle!Update("Judging", NoVerdict)]
    /\ Proceed(w, "grade")
    /\ UNCHANGED <<queueVars, request, rowVars, graded, faults>>

\* Slip: an error that a retry would not cure is acknowledged, not stored.
GradeErrorDropped(w) ==
    LET s == JobOf(w) IN
    /\ step[w] = "grade"
    /\ \/ /\ graded' = [graded EXCEPT ![s] = @ + 1]
          /\ grade' = [grade EXCEPT ![w] = graded[s] + 1]
          /\ step' = [step EXCEPT ![w] = "save"]
          /\ UNCHANGED <<held, seen>>
       \/ Proceed(w, "ack") /\ UNCHANGED graded
    /\ UNCHANGED <<queueVars, request, rowVars, said, faults>>

\* gradeSubmission: a verdict, or an error that a retry would not cure.
Grade(w) ==
    LET s == JobOf(w) IN
    /\ step[w] = "grade"
    /\ \/ /\ graded' = [graded EXCEPT ![s] = @ + 1]
          /\ grade' = [grade EXCEPT ![w] = graded[s] + 1]
          /\ step' = [step EXCEPT ![w] = "save"]
          /\ UNCHANGED <<held, seen>>
       \/ Proceed(w, "fail") /\ UNCHANGED graded
    /\ UNCHANGED <<queueVars, request, rowVars, said, faults>>

\* gradeSubmission throws a retryable error: the message stays pending.
EngineUnavailable(w) ==
    /\ step[w] = "grade"
    /\ Fault("engine")
    /\ Finish(w)
    /\ UNCHANGED <<queueVars, request, rowVars, said, graded>>

\* Slip: the old rows are not looked for.
DeleteNothing(w) ==
    /\ step[w] = "save"
    /\ Proceed(w, "delete")
    /\ UNCHANGED <<queueVars, request, rowVars, said, graded, faults>>

\* saveGradeResult: BEGIN, and the DELETE takes its snapshot of the old rows.
BeginSave(w) ==
    /\ step[w] = "save"
    /\ seen' = [seen EXCEPT ![w] = results[JobOf(w)]]
    /\ step' = [step EXCEPT ![w] = "delete"]
    /\ UNCHANGED <<held, grade>>
    /\ UNCHANGED <<queueVars, request, rowVars, said, graded, faults>>

\* The DELETE returns once no other transaction is deleting the same rows.
DeleteResults(w) ==
    /\ step[w] = "delete"
    /\ \A v \in Deleting(JobOf(w)) : seen[v] \cap seen[w] = {}
    /\ Proceed(w, "update")
    /\ UNCHANGED <<queueVars, request, rowVars, said, graded, faults>>

\* The UPDATE takes the row lock; its effect is seen at COMMIT.
UpdateRow(w) ==
    /\ step[w] = "update"
    /\ ~RowLocked(JobOf(w))
    /\ Proceed(w, "commit")
    /\ UNCHANGED <<queueVars, request, rowVars, said, graded, faults>>

\* The INSERTs and COMMIT.  A grading that ran no test (Compile Error) has no
\* rows; rows of a deleted submission break the foreign key and roll back.
Commit(w) ==
    LET s == JobOf(w) IN
    /\ step[w] = "commit"
    /\ \E rows \in {{}, {grade[w]}} :
        IF rows # {} /\ status[s] = "none"
        THEN Finish(w) /\ UNCHANGED <<rowVars, said>>
        ELSE /\ SetStatus(s, "Done")
             /\ SetVerdict(s, grade[w])
             /\ Unsay(s)
             /\ results' = [results EXCEPT ![s] = (@ \ seen[w]) \cup rows]
             /\ Proceed(w, "sayDone")
    /\ UNCHANGED <<queueVars, request, graded, faults>>

\* failSubmissionInternal: result rows of an earlier grading stay.
FailRow(w) ==
    /\ step[w] = "fail"
    /\ ~RowLocked(JobOf(w))
    /\ SetStatus(JobOf(w), "Done")
    /\ SetVerdict(JobOf(w), InternalError)
    /\ Unsay(JobOf(w))
    /\ grade' = [grade EXCEPT ![w] = InternalError]
    /\ step' = [step EXCEPT ![w] = "sayDone"]
    /\ UNCHANGED <<held, seen>>
    /\ UNCHANGED <<queueVars, request, results, graded, faults>>

\* Slip: Done is published before the verdict is stored.
SayDoneEarly(w) ==
    /\ step[w] \in {"save", "sayDone"}
    /\ said' = [said EXCEPT ![JobOf(w)] = Lifecycle!Update("Done", grade[w])]
    /\ IF step[w] = "save" THEN UNCHANGED workerVars ELSE Proceed(w, "ack")
    /\ UNCHANGED <<queueVars, request, rowVars, graded, faults>>

\* publishSubmissionUpdate with status Done and the verdict.
SayDone(w) ==
    /\ step[w] = "sayDone"
    /\ said' = [said EXCEPT ![JobOf(w)] = Lifecycle!Update("Done", grade[w])]
    /\ Proceed(w, "ack")
    /\ UNCHANGED <<queueVars, request, rowVars, graded, faults>>

\* acknowledgeSubmission.
AckMessage(w) ==
    /\ step[w] = "ack"
    /\ Ack(held[w])
    /\ Finish(w)
    /\ UNCHANGED <<stream, cursor, request, rowVars, said, graded, faults>>

\* Slip: an attempt that ends early has already acknowledged its message.
ThrowAcked(w) ==
    /\ step[w] \notin {"pending", "next"}
    /\ Fault("worker")
    /\ Ack(held[w])
    /\ Finish(w)
    /\ UNCHANGED <<stream, cursor, request, rowVars, said, graded>>

\* The attempt ends anywhere: a command throws (after its effect or without
\* it) or the process dies.  An open transaction is rolled back.
Throw(w) ==
    /\ step[w] # "pending"
    /\ Fault("worker")
    /\ Finish(w)
    /\ UNCHANGED <<queueVars, request, rowVars, said, graded>>

WorkerStep(w) ==
    \/ ReadOwnPending(w) \/ ReadNext(w) \/ Load(w) \/ MarkJudging(w)
    \/ SayJudging(w) \/ Grade(w) \/ BeginSave(w) \/ DeleteResults(w)
    \/ UpdateRow(w) \/ Commit(w) \/ FailRow(w) \/ SayDone(w) \/ AckMessage(w)

WorkerNext ==
    \E w \in Workers :
        WorkerStep(w) \/ ReadNextResent(w) \/ EngineUnavailable(w) \/ Throw(w)

-----------------------------------------------------------------------------
(* The environment.                                                        *)

\* The row is deleted; ON DELETE CASCADE takes its result rows.
DeleteRow(s) ==
    /\ status[s] # "none"
    /\ ~RowLocked(s)
    /\ Fault("delete")
    /\ status' = [status EXCEPT ![s] = "none"]
    /\ results' = [results EXCEPT ![s] = {}]
    /\ UNCHANGED <<queueVars, request, verdict, said, graded, workerVars>>

Next == ApiNext \/ WorkerNext \/ \E s \in Submissions : DeleteRow(s)

\* Every consumer loop keeps running and is restarted after a crash.
Fairness == \A w \in Workers : WF_vars(WorkerStep(w))

Spec == Init /\ [][Next]_vars /\ Fairness
-----------------------------------------------------------------------------
(* What the component promises.                                            *)

\* Re-grading does not duplicate result rows (db.ts, saveGradeResult): the
\* rows of a submission with a verdict are those of the grading that gave it.
OneSetOfResults ==
    \A s \in Submissions :
        status[s] = "Done" /\ verdict[s] > 0 => results[s] \subseteq {verdict[s]}

\* Nothing is silently lost (README, the design table): a published
\* submission that is not finished, or whose last word was not said, has a
\* message still to be delivered or still pending.
StillToJudge ==
    \A s \in Submissions :
        Published(s) /\ status[s] # "none"
            /\ (status[s] # "Done"
                \/ said[s] # Lifecycle!Update("Done", verdict[s]))
        => \E m \in MessagesOf(s) : ~Acked(m)

\* The updates published about a submission tell what its row says when they
\* are published (SubmissionLifecycle), so those who hear the last one know
\* the stored verdict.
ImplementsLifecycle == Lifecycle!LifecycleSpec

\* Every submission that was accepted, or published with another answer, is
\* finished for good and announced as such (in demo mode without announcement),
\* or was deleted.  (An XADD that failed leaves the row Pending for ever; its
\* client was told of an error.)
EventuallyJudged ==
    \A s \in Submissions :
        (request[s] = "accepted" \/ Published(s)) ~>
            [](\/ status[s] = "none"
               \/ /\ status[s] = "Done"
                  /\ s \in Demo \/ said[s] = Lifecycle!Update("Done", verdict[s]))
=============================================================================
