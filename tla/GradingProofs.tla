--------------------------- MODULE GradingProofs ---------------------------
(***************************************************************************)
(* Theorems about Grading, for every number of submissions and consumers,  *)
(* every verdict and every set of faults the statement allows.  Types hold *)
(* always.  With distinct names a message is pending under one name and in *)
(* one consumer's hands: no submission is left unjudged, and one that is   *)
(* closed stays so.  If no XADD is repeated either, a submission has one   *)
(* message and one consumer at a time works on it: hence its result rows,  *)
(* its last update and the refinement of SubmissionLifecycle.              *)
(***************************************************************************)
EXTENDS Grading, TLAPS

UniqueNames == \A v, w \in Workers : NameOf[v] = NameOf[w] => v = w

\* The consumer is processing a message.
Busy(w) == step[w] \notin {"pending", "next"}

-----------------------------------------------------------------------------
(* The inductive invariant.                                                *)

\* What is processed was delivered.
HeldDelivered == \A w \in Workers : Busy(w) => held[w] \in 1..cursor

\* What is saved is the verdict of a grading.
SavesAGrade ==
    \A w \in Workers :
        step[w] \in {"save", "delete", "update", "commit"} => grade[w] \in Nat \ {0}

TypeInv == TypeOK /\ HeldDelivered /\ SavesAGrade

\* A delivered message is pending under one name.
PendingUnderOneName ==
    \A n1, n2 \in Names : n1 # n2 => pel[n1] \cap pel[n2] = {}

\* A consumer works on a message that is pending under its own name.
HoldsItsOwn == \A w \in Workers : Busy(w) => held[w] \in pel[NameOf[w]]

\* A request publishes last.
PublishedLast ==
    \A s \in Submissions :
        request[s] \in {"new", "inserted"} => \A m \in Messages : stream[m] # s

OneMessageEach ==
    \A m1, m2 \in Messages : stream[m1] = stream[m2] => m1 = m2

QueueInv == PendingUnderOneName /\ HoldsItsOwn /\ PublishedLast /\ OneMessageEach

\* Nobody deletes a row that was not inserted.
NoRowYet == \A s \in Submissions : request[s] = "new" => status[s] = "none"

\* The snapshot of a DELETE still holds all result rows when it commits.
SeesAllResults ==
    \A w \in Workers :
        step[w] \in {"delete", "update", "commit"} => results[JobOf(w)] \subseteq seen[w]

\* What a consumer is about to say, or has said, is what the row says.
TellsTheRow ==
    \A w \in Workers :
        /\ step[w] = "sayJudging" => status[JobOf(w)] \in {"none", "Judging"}
        /\ step[w] = "sayDone" =>
               \/ status[JobOf(w)] = "none"
               \/ status[JobOf(w)] = "Done" /\ verdict[JobOf(w)] = grade[w]
        /\ step[w] = "ack" =>
               \/ status[JobOf(w)] = "none"
               \/ /\ status[JobOf(w)] = "Done"
                  /\ said[JobOf(w)] = Lifecycle!Update("Done", verdict[JobOf(w)])

GradingInv ==
    /\ TypeInv /\ QueueInv
    /\ NoRowYet /\ SeesAllResults /\ TellsTheRow
    /\ OneSetOfResults /\ StillToJudge

-----------------------------------------------------------------------------
(* Types.                                                                  *)

LEMMA InitTypes == Init => TypeInv
BY GradingAssumption
   DEF Init, TypeInv, TypeOK, HeldDelivered, SavesAGrade, Busy, QueueInit, QueueTypeOK, RequestStates,
       Steps, NoVerdict, Lifecycle!LifecycleInit, Lifecycle!Nothing, Lifecycle!Update,
       Lifecycle!NoVerdict

\* The message a busy consumer holds names a submission.
LEMMA JobIsSubmission ==
    ASSUME TypeInv, NEW w \in Workers, Busy(w)
    PROVE  held[w] \in 1..cursor /\ held[w] \in Messages /\ JobOf(w) \in Submissions
BY GradingAssumption
   DEF TypeInv, TypeOK, QueueTypeOK, HeldDelivered, JobOf, Messages

LEMMA ApiTypes ==
    ASSUME TypeInv, NEW s \in Submissions,
           Insert(s) \/ Publish(s) \/ MarkDemo(s) \/ ApiCrash(s) \/ WriteUnsupported(s)
    PROVE  TypeInv'
<1> DEFINE Updates == [status : {"none", "Judging", "Done"}, verdict : Int]
<1>1. UNCHANGED <<cursor, pel, results, graded, step, held, grade, seen>>
    BY DEF Insert, Publish, MarkDemo, ApiCrash, WriteUnsupported, queueVars, rowVars,
           workerVars
<1>2. stream' \in Seq(Jobs) /\ cursor' \in 0..Len(stream')
    <2>1. stream \in Seq(Jobs) /\ cursor \in 0..Len(stream) /\ s \in Jobs
        BY GradingAssumption DEF TypeInv, TypeOK, QueueTypeOK
    <2>2. Enqueue(s) \/ stream' = stream
        BY DEF Insert, Publish, MarkDemo, ApiCrash, WriteUnsupported, queueVars
    <2>3. CASE stream' = Append(stream, s)
        BY <1>1, <2>1, <2>3
    <2> QED BY <1>1, <2>1, <2>2, <2>3 DEF Enqueue
<1>3. /\ request' \in [Submissions -> RequestStates]
      /\ status' \in [Submissions -> {"none", "Pending", "Judging", "Done"}]
    <2>1. /\ request \in [Submissions -> RequestStates]
          /\ status \in [Submissions -> {"none", "Pending", "Judging", "Done"}]
        BY DEF TypeInv, TypeOK
    <2> QED
        BY <2>1 DEF Insert, Publish, MarkDemo, ApiCrash, WriteUnsupported, rowVars, Goto,
                    SetStatus, RequestStates
<1>4. verdict' \in [Submissions -> Int] /\ said' \in [Submissions -> Updates]
    <2>1. verdict \in [Submissions -> Int] /\ said \in [Submissions -> Updates]
        BY DEF TypeInv, TypeOK
    <2>2. NotRun \in Int /\ Lifecycle!Nothing \in Updates
        BY DEF NotRun, Lifecycle!Nothing, Lifecycle!Update, Lifecycle!NoVerdict
    <2>3. \/ UNCHANGED <<verdict, said>>
          \/ SetVerdict(s, NotRun) /\ Unsay(s)
        BY DEF Insert, Publish, MarkDemo, ApiCrash, WriteUnsupported, rowVars
    <2> HIDE DEF Updates
    <2> QED BY <2>1, <2>2, <2>3 DEF SetVerdict, Unsay
<1>5. faults' \in Nat
    <2>1. faults \in Nat
        BY DEF TypeInv, TypeOK
    <2> QED BY <2>1 DEF Insert, Publish, MarkDemo, ApiCrash, WriteUnsupported, Fault
<1>6. HeldDelivered'
    BY <1>1 DEF HeldDelivered, Busy, TypeInv
<1>7. SavesAGrade'
    BY <1>1 DEF SavesAGrade, TypeInv
<1> QED
    BY <1>1, <1>2, <1>3, <1>4, <1>5, <1>6, <1>7 DEF TypeInv, TypeOK, QueueTypeOK

\* What a consumer's step does to the queue, and to what it processes.
LEMMA WorkerMoves ==
    ASSUME TypeInv, NEW w \in Workers,
           WorkerStep(w) \/ ReadNextResent(w) \/ EngineUnavailable(w) \/ Throw(w)
    PROVE  /\ UNCHANGED <<stream, request>>
           /\ cursor' \in 0..Len(stream) /\ cursor <= cursor'
           /\ pel' \in [Names -> SUBSET (1..cursor')]
           /\ step' \in [Workers -> Steps] /\ held' \in [Workers -> Nat]
           /\ Busy(w)' => held'[w] \in 1..cursor'
           /\ \A v \in Workers \ {w} : step'[v] = step[v] /\ held'[v] = held[v]
<1>1. UNCHANGED <<stream, request>>
    BY DEF WorkerStep, ReadOwnPending, ReadNext, ReadNextResent, Load, MarkJudging, SayJudging,
           Grade, BeginSave, DeleteResults, UpdateRow, Commit, FailRow, SayDone, AckMessage,
           EngineUnavailable, Throw, queueVars
<1>2. /\ stream \in Seq(Jobs) /\ cursor \in 0..Len(stream) /\ cursor \in Nat
      /\ pel \in [Names -> SUBSET (1..cursor)]
      /\ step \in [Workers -> Steps] /\ held \in [Workers -> Nat]
      /\ NameOf[w] \in Names
    BY GradingAssumption DEF TypeInv, TypeOK, QueueTypeOK
<1>3. /\ cursor' \in 0..Len(stream) /\ cursor <= cursor'
      /\ pel' \in [Names -> SUBSET (1..cursor')]
    <2>1. CASE DeliverNext(NameOf[w])
        <3>1. cursor' = cursor + 1 /\ cursor' \in 0..Len(stream) /\ 1..cursor \subseteq 1..cursor'
            BY <1>2, <2>1 DEF DeliverNext
        <3>2. \A n \in Names : pel'[n] \in SUBSET (1..cursor')
            BY <1>2, <2>1, <3>1 DEF DeliverNext
        <3> QED BY <1>2, <2>1, <3>1, <3>2 DEF DeliverNext
    <2>2. CASE UNCHANGED cursor /\ Ack(held[w])
        BY <1>2, <2>2 DEF Ack
    <2>3. CASE UNCHANGED <<cursor, pel>>
        BY <1>2, <2>3
    <2> QED
        BY <2>1, <2>2, <2>3
           DEF WorkerStep, ReadOwnPending, ReadNext, ReadNextResent, Load, MarkJudging,
               SayJudging, Grade, BeginSave, DeleteResults, UpdateRow, Commit, FailRow,
               SayDone, AckMessage, EngineUnavailable, Throw, queueVars
<1> DEFINE Moves == /\ step' \in [Workers -> Steps] /\ held' \in [Workers -> Nat]
                    /\ step'[w] \in {"pending", "next"} \/ held'[w] \in 1..cursor'
                    /\ \A v \in Workers \ {w} : step'[v] = step[v] /\ held'[v] = held[v]
<1>4. ASSUME Finish(w) PROVE Moves
    BY <1>2, <1>4 DEF Finish, Steps
<1>5. ASSUME NEW m \in 1..cursor', Take(w, m) PROVE Moves
    <2>1. m \in Nat
        BY <1>2, <1>3
    <2> QED BY <1>2, <1>5, <2>1 DEF Take, Steps
<1>6. ASSUME NEW next \in Steps, step' = [step EXCEPT ![w] = next], UNCHANGED held,
             held[w] \in 1..cursor' \/ next = "next"
      PROVE  Moves
    BY <1>2, <1>6 DEF Steps
<1>7. ASSUME ReadOwnPending(w) PROVE Moves
    <2>1. \/ \E m \in pel[NameOf[w]] : Take(w, m)
          \/ step' = [step EXCEPT ![w] = "next"] /\ UNCHANGED held
        BY <1>7 DEF ReadOwnPending, OldestPending, Proceed
    <2>2. \A m \in pel[NameOf[w]] : m \in 1..cursor'
        BY <1>2, <1>3
    <2>3. "next" \in Steps
        BY DEF Steps
    <2> HIDE DEF Moves
    <2> QED BY <1>5, <1>6, <2>1, <2>2, <2>3
<1>8. ASSUME ReadNext(w) PROVE Moves
    <2>1. \/ Take(w, cursor + 1) /\ cursor' = cursor + 1
          \/ Finish(w)
        BY <1>8 DEF ReadNext, DeliverNext
    <2>2. cursor' = cursor + 1 => cursor + 1 \in 1..cursor'
        BY <1>2
    <2> HIDE DEF Moves
    <2> QED BY <1>4, <1>5, <2>1, <2>2
<1>9. ASSUME EngineUnavailable(w) \/ Throw(w) \/ AckMessage(w) PROVE Moves
    BY <1>4, <1>9 DEF EngineUnavailable, Throw, AckMessage
<1>10. ASSUME ReadNextResent(w) PROVE Moves
    BY <1>2, <1>10 DEF ReadNextResent, workerVars
<1>11. ASSUME \/ Load(w) \/ MarkJudging(w) \/ SayJudging(w) \/ Grade(w) \/ BeginSave(w)
              \/ DeleteResults(w) \/ UpdateRow(w) \/ Commit(w) \/ FailRow(w) \/ SayDone(w)
       PROVE  Moves
    <2>1. Busy(w)
        BY <1>11 DEF Busy, Load, MarkJudging, SayJudging, Grade, BeginSave, DeleteResults,
                     UpdateRow, Commit, FailRow, SayDone
    <2>2. held[w] \in 1..cursor'
        BY <1>2, <1>3, <2>1 DEF TypeInv, HeldDelivered
    <2>3. \/ \E next \in Steps : step' = [step EXCEPT ![w] = next] /\ UNCHANGED held
          \/ Finish(w)
        BY <1>11 DEF Steps, Load, MarkJudging, SayJudging, Grade, BeginSave, DeleteResults,
                     UpdateRow, Commit, FailRow, SayDone, Proceed
    <2> HIDE DEF Moves
    <2> QED BY <1>4, <1>6, <2>2, <2>3
<1>12. Moves
    BY <1>7, <1>8, <1>9, <1>10, <1>11 DEF WorkerStep
<1> QED BY <1>1, <1>3, <1>12 DEF Busy

LEMMA WorkerTypes ==
    ASSUME TypeInv, NEW w \in Workers,
           WorkerStep(w) \/ ReadNextResent(w) \/ EngineUnavailable(w) \/ Throw(w)
    PROVE  TypeInv'
<1> DEFINE Updates == [status : {"none", "Judging", "Done"}, verdict : Int]
<1>1. status' \in [Submissions -> {"none", "Pending", "Judging", "Done"}]
    <2>1. status \in [Submissions -> {"none", "Pending", "Judging", "Done"}]
        BY DEF TypeInv, TypeOK
    <2>2. \/ UNCHANGED status
          \/ SetStatus(JobOf(w), "Judging") \/ SetStatus(JobOf(w), "Done")
        BY DEF WorkerStep, ReadOwnPending, ReadNext, ReadNextResent, Load, MarkJudging,
               SayJudging, Grade, BeginSave, DeleteResults, UpdateRow, Commit, FailRow,
               SayDone, AckMessage, EngineUnavailable, Throw, rowVars
    <2> QED BY <2>1, <2>2 DEF SetStatus
<1>2. verdict' \in [Submissions -> Int]
    <2>1. verdict \in [Submissions -> Int] /\ InternalError \in Int /\ grade[w] \in Int
        BY DEF TypeInv, TypeOK, InternalError
    <2>2. \/ UNCHANGED verdict
          \/ SetVerdict(JobOf(w), InternalError) \/ SetVerdict(JobOf(w), grade[w])
        BY DEF WorkerStep, ReadOwnPending, ReadNext, ReadNextResent, Load, MarkJudging,
               SayJudging, Grade, BeginSave, DeleteResults, UpdateRow, Commit, FailRow,
               SayDone, AckMessage, EngineUnavailable, Throw, rowVars
    <2> QED BY <2>1, <2>2 DEF SetVerdict
<1>3. said' \in [Submissions -> Updates]
    <2>1. said \in [Submissions -> Updates] /\ grade[w] \in Int
        BY DEF TypeInv, TypeOK
    <2>2. /\ Lifecycle!Nothing \in Updates
          /\ Lifecycle!Update("Judging", NoVerdict) \in Updates
          /\ Lifecycle!Update("Done", grade[w]) \in Updates
        BY <2>1 DEF Lifecycle!Nothing, Lifecycle!Update, Lifecycle!NoVerdict, NoVerdict
    <2>3. \/ UNCHANGED said \/ Unsay(JobOf(w))
          \/ said' = [said EXCEPT ![JobOf(w)] = Lifecycle!Update("Judging", NoVerdict)]
          \/ said' = [said EXCEPT ![JobOf(w)] = Lifecycle!Update("Done", grade[w])]
        BY DEF WorkerStep, ReadOwnPending, ReadNext, ReadNextResent, Load, MarkJudging,
               SayJudging, Grade, BeginSave, DeleteResults, UpdateRow, Commit, FailRow,
               SayDone, AckMessage, EngineUnavailable, Throw
    <2> HIDE DEF Updates
    <2> QED BY <2>1, <2>2, <2>3 DEF Unsay
<1>4. /\ graded' \in [Submissions -> Nat] /\ grade' \in [Workers -> Int]
      /\ results' \in [Submissions -> SUBSET Nat] /\ seen' \in [Workers -> SUBSET Nat]
    <2>1. /\ graded \in [Submissions -> Nat] /\ grade \in [Workers -> Int]
          /\ results \in [Submissions -> SUBSET Nat] /\ seen \in [Workers -> SUBSET Nat]
        BY DEF TypeInv, TypeOK
    <2>2. CASE Grade(w)
        <3>1. JobOf(w) \in Submissions
            BY <2>2, JobIsSubmission DEF Grade, Busy
        <3>2. graded[JobOf(w)] + 1 \in Nat
            BY <2>1, <3>1
        <3> QED BY <2>1, <2>2, <3>2 DEF Grade, Proceed, rowVars
    <2>3. CASE BeginSave(w)
        <3>1. JobOf(w) \in Submissions
            BY <2>3, JobIsSubmission DEF BeginSave, Busy
        <3> QED BY <2>1, <2>3, <3>1 DEF BeginSave, rowVars
    <2>4. CASE Commit(w)
        <3>1. UNCHANGED graded /\ (Finish(w) \/ Proceed(w, "sayDone"))
            BY <2>4 DEF Commit
        <3>2. grade' \in [Workers -> Int] /\ seen' \in [Workers -> SUBSET Nat]
            BY <2>1, <3>1 DEF Finish, Proceed, NoVerdict
        <3>3. \/ UNCHANGED results
              \/ \E rows \in {{}, {grade[w]}} :
                    results' = [results EXCEPT ![JobOf(w)] = (@ \ seen[w]) \cup rows]
            BY <2>4 DEF Commit, rowVars
        <3>4. grade[w] \in Nat
            BY <2>4 DEF Commit, TypeInv, SavesAGrade
        <3> QED BY <2>1, <3>1, <3>2, <3>3, <3>4
    <2>5. CASE ~Grade(w) /\ ~BeginSave(w) /\ ~Commit(w)
        <3>1. /\ UNCHANGED <<graded, results>>
              /\ \/ UNCHANGED <<grade, seen>> \/ Finish(w)
                 \/ UNCHANGED seen /\ grade' = [grade EXCEPT ![w] = InternalError]
            BY <2>5
               DEF WorkerStep, ReadOwnPending, ReadNext, ReadNextResent, Load, MarkJudging,
                   SayJudging, DeleteResults, UpdateRow, FailRow, SayDone, AckMessage,
                   EngineUnavailable, Throw, workerVars, Proceed, Take, rowVars
        <3> QED BY <2>1, <3>1 DEF Finish, InternalError, NoVerdict
    <2> QED BY <2>2, <2>3, <2>4, <2>5
<1>5. faults' \in Nat
    <2>1. faults \in Nat
        BY DEF TypeInv, TypeOK
    <2> QED
        BY <2>1
           DEF WorkerStep, ReadOwnPending, ReadNext, ReadNextResent, Load, MarkJudging,
               SayJudging, Grade, BeginSave, DeleteResults, UpdateRow, Commit, FailRow,
               SayDone, AckMessage, EngineUnavailable, Throw, Fault
<1>6. HeldDelivered'
    <2>1. cursor \in Nat /\ cursor' \in Nat /\ cursor <= cursor'
        BY WorkerMoves DEF TypeInv, TypeOK, QueueTypeOK
    <2>2. ASSUME NEW v \in Workers \ {w}, Busy(v)' PROVE held'[v] \in 1..cursor'
        <3>1. Busy(v) /\ held'[v] = held[v]
            BY <2>2, WorkerMoves DEF Busy
        <3>2. held[v] \in 1..cursor
            BY <3>1 DEF TypeInv, HeldDelivered
        <3> QED BY <2>1, <3>1, <3>2
    <2>3. Busy(w)' => held'[w] \in 1..cursor'
        BY WorkerMoves
    <2> QED BY <2>2, <2>3 DEF HeldDelivered
<1>9. SavesAGrade'
    <2>1. ASSUME NEW v \in Workers \ {w}
          PROVE  step'[v] = step[v] /\ grade'[v] = grade[v]
        <3>1. \/ grade' = grade
              \/ \E g : grade' = [grade EXCEPT ![w] = g]
            BY DEF WorkerStep, ReadOwnPending, ReadNext, ReadNextResent, Load, MarkJudging,
                   SayJudging, Grade, BeginSave, DeleteResults, UpdateRow, Commit, FailRow,
                   SayDone, AckMessage, EngineUnavailable, Throw, workerVars, Proceed, Take,
                   Finish
        <3> QED BY <3>1, WorkerMoves DEF TypeInv, TypeOK
    <2>2. ASSUME step'[w] \in {"save", "delete", "update", "commit"}
          PROVE  grade'[w] \in Nat \ {0}
        <3>0. step \in [Workers -> Steps] /\ grade \in [Workers -> Int]
            BY DEF TypeInv, TypeOK
        <3>1. CASE Grade(w) /\ step' = [step EXCEPT ![w] = "save"]
            <4>1. JobOf(w) \in Submissions
                BY <3>1, JobIsSubmission DEF Grade, Busy
            <4>2. graded[JobOf(w)] + 1 \in Nat \ {0}
                BY <4>1 DEF TypeInv, TypeOK
            <4>3. grade' = [grade EXCEPT ![w] = graded[JobOf(w)] + 1]
                BY <3>0, <3>1 DEF Grade, Proceed
            <4> QED BY <3>0, <4>2, <4>3
        <3>2. CASE ~(Grade(w) /\ step' = [step EXCEPT ![w] = "save"])
            <4>1. /\ step[w] \in {"save", "delete", "update", "commit"}
                  /\ grade'[w] = grade[w]
                BY <2>2, <3>0, <3>2
                   DEF WorkerStep, ReadOwnPending, ReadNext, ReadNextResent, Load,
                       MarkJudging, SayJudging, Grade, BeginSave, DeleteResults, UpdateRow,
                       Commit, FailRow, SayDone, AckMessage, EngineUnavailable, Throw,
                       workerVars, Proceed, Take, Finish
            <4> QED BY <4>1 DEF TypeInv, SavesAGrade
        <3> QED BY <3>1, <3>2
    <2> QED BY <2>1, <2>2 DEF SavesAGrade, TypeInv
<1>7. QueueTypeOK'
    BY WorkerMoves DEF QueueTypeOK, TypeInv, TypeOK
<1>8. /\ request' \in [Submissions -> RequestStates]
      /\ step' \in [Workers -> Steps] /\ held' \in [Workers -> Nat]
    BY WorkerMoves DEF TypeInv, TypeOK
<1> QED
    BY <1>1, <1>2, <1>3, <1>4, <1>5, <1>6, <1>7, <1>8, <1>9 DEF TypeInv, TypeOK

LEMMA NextTypes == TypeInv /\ [Next]_vars => TypeInv'
<1> SUFFICES ASSUME TypeInv, [Next]_vars PROVE TypeInv'
    OBVIOUS
<1>1. CASE ApiNext
    BY <1>1, ApiTypes DEF ApiNext
<1>2. CASE WorkerNext
    BY <1>2, WorkerTypes DEF WorkerNext
<1>3. ASSUME NEW s \in Submissions, DeleteRow(s) PROVE TypeInv'
    BY <1>3 DEF DeleteRow, Fault, TypeInv, TypeOK, QueueTypeOK, HeldDelivered,
                SavesAGrade, Busy, workerVars, queueVars
<1>4. CASE UNCHANGED vars
    BY <1>4 DEF vars, TypeInv, TypeOK, QueueTypeOK, HeldDelivered, SavesAGrade, Busy,
                workerVars, queueVars, rowVars
<1> QED BY <1>1, <1>2, <1>3, <1>4 DEF Next

\* Every variable keeps its type; a consumer that processes a message holds
\* one that was delivered.
THEOREM TypesHold == Spec => []TypeOK
<1>1. TypeInv => TypeOK
    BY DEF TypeInv
<1> QED BY <1>1, InitTypes, NextTypes, PTL DEF Spec

-----------------------------------------------------------------------------
(* One message each, pending under one name, in one consumer's hands.      *)

\* XADD puts one message at the end.
LEMMA EnqueueAppends ==
    ASSUME TypeInv, NEW s \in Submissions, Enqueue(s)
    PROVE  /\ Len(stream') = Len(stream) + 1
           /\ Messages' = Messages \cup {Len(stream) + 1}
           /\ \A m \in Messages : stream'[m] = stream[m]
           /\ stream'[Len(stream) + 1] = s
           /\ Len(stream) + 1 > cursor
           /\ 1..cursor \subseteq Messages
<1>1. /\ stream \in Seq(Jobs) /\ s \in Jobs /\ Len(stream) \in Nat
      /\ cursor \in 0..Len(stream)
    BY GradingAssumption DEF TypeInv, TypeOK, QueueTypeOK
<1> QED BY <1>1 DEF Enqueue, Messages

\* What a request does to the stream.
LEMMA ApiPublishes ==
    ASSUME "resent" \notin Faults, TypeInv, NEW s \in Submissions,
           Insert(s) \/ Publish(s) \/ MarkDemo(s) \/ ApiCrash(s) \/ WriteUnsupported(s)
    PROVE  /\ request[s] \in {"new", "inserted"}
           /\ \A k \in Submissions \ {s} : request'[k] = request[k]
           /\ \/ UNCHANGED stream
              \/ Enqueue(s) /\ request'[s] \notin {"new", "inserted"}
           /\ UNCHANGED <<cursor, pel, results, step, held, grade, seen>>
<1>1. request \in [Submissions -> RequestStates]
    BY DEF TypeInv, TypeOK
<1> QED
    BY <1>1 DEF Insert, Publish, MarkDemo, ApiCrash, WriteUnsupported, Goto, Fault,
                queueVars, rowVars, workerVars

LEMMA ApiQueue ==
    ASSUME "resent" \notin Faults, TypeInv, QueueInv, NEW s \in Submissions,
           Insert(s) \/ Publish(s) \/ MarkDemo(s) \/ ApiCrash(s) \/ WriteUnsupported(s)
    PROVE  QueueInv'
<1>1. PendingUnderOneName' /\ HoldsItsOwn'
    BY ApiPublishes DEF QueueInv, PendingUnderOneName, HoldsItsOwn, Busy
<1>2. CASE UNCHANGED stream
    <2>1. \A m \in Messages : stream[m] # s
        BY ApiPublishes DEF QueueInv, PublishedLast
    <2> QED
        BY <1>1, <1>2, <2>1, ApiPublishes
           DEF QueueInv, PublishedLast, OneMessageEach, Messages
<1>3. CASE Enqueue(s) /\ request'[s] \notin {"new", "inserted"}
    <2>1. \A m \in Messages : stream[m] # s
        BY ApiPublishes DEF QueueInv, PublishedLast
    <2>2. OneMessageEach'
        BY <1>3, <2>1, EnqueueAppends DEF QueueInv, OneMessageEach
    <2>3. PublishedLast'
        BY <1>3, EnqueueAppends, ApiPublishes DEF QueueInv, PublishedLast
    <2> QED BY <1>1, <2>2, <2>3 DEF QueueInv
<1> QED BY <1>2, <1>3, ApiPublishes

\* Two consumers never work on the same message.
LEMMA OwnMessage ==
    ASSUME UniqueNames, PendingUnderOneName, HoldsItsOwn,
           NEW v \in Workers, NEW w \in Workers, Busy(v), Busy(w), v # w
    PROVE  held[v] # held[w]
<1>1. held[v] \in pel[NameOf[v]] /\ held[w] \in pel[NameOf[w]]
    BY DEF HoldsItsOwn
<1>2. NameOf[v] \in Names /\ NameOf[w] \in Names /\ NameOf[v] # NameOf[w]
    BY GradingAssumption DEF UniqueNames
<1> QED BY <1>1, <1>2 DEF PendingUnderOneName

\* With one message each, two consumers never work on the same submission.
LEMMA Alone ==
    ASSUME UniqueNames, TypeInv, QueueInv, NEW v \in Workers, NEW w \in Workers,
           Busy(v), Busy(w), v # w
    PROVE  held[v] # held[w] /\ JobOf(v) # JobOf(w)
<1>1. held[v] \in Messages /\ held[w] \in Messages
    BY JobIsSubmission
<1>2. held[v] # held[w]
    BY OwnMessage DEF QueueInv
<1> QED BY <1>1, <1>2 DEF QueueInv, OneMessageEach, JobOf

\* What a consumer's step does to the pending lists.
LEMMA WorkerPending ==
    ASSUME TypeInv, NEW w \in Workers,
           WorkerStep(w) \/ ReadNextResent(w) \/ EngineUnavailable(w) \/ Throw(w)
    PROVE  \/ DeliverNext(NameOf[w]) /\ ~Busy(w)
           \/ AckMessage(w) /\ UNCHANGED cursor
           \/ UNCHANGED <<cursor, pel>>
BY DEF WorkerStep, ReadOwnPending, ReadNext, ReadNextResent, Load, MarkJudging, SayJudging,
       Grade, BeginSave, DeleteResults, UpdateRow, Commit, FailRow, SayDone, AckMessage,
       EngineUnavailable, Throw, queueVars, Busy

\* What it holds when it is busy afterwards.
LEMMA WorkerHolds ==
    ASSUME TypeInv, NEW w \in Workers, Busy(w)',
           WorkerStep(w) \/ ReadNextResent(w) \/ EngineUnavailable(w) \/ Throw(w)
    PROVE  \/ Busy(w) /\ held'[w] = held[w] /\ pel' = pel
           \/ step'[w] = "load" /\ held'[w] \in pel'[NameOf[w]]
<1>1. /\ step \in [Workers -> Steps] /\ held \in [Workers -> Nat]
      /\ pel \in [Names -> SUBSET (1..cursor)] /\ NameOf[w] \in Names
    BY GradingAssumption DEF TypeInv, TypeOK, QueueTypeOK
<1>2. CASE ReadOwnPending(w)
    BY <1>1, <1>2 DEF ReadOwnPending, OldestPending, Take, Proceed, queueVars, Busy
<1>3. CASE ReadNext(w)
    BY <1>1, <1>3 DEF ReadNext, DeliverNext, Take, Finish, Busy
<1>4. CASE ReadNextResent(w)
    BY <1>1, <1>4 DEF ReadNextResent, workerVars, Busy
<1>5. CASE EngineUnavailable(w) \/ Throw(w) \/ AckMessage(w)
    BY <1>1, <1>5 DEF EngineUnavailable, Throw, AckMessage, Finish, Busy
<1>6. CASE \/ Load(w) \/ MarkJudging(w) \/ SayJudging(w) \/ Grade(w) \/ BeginSave(w)
           \/ DeleteResults(w) \/ UpdateRow(w) \/ Commit(w) \/ FailRow(w) \/ SayDone(w)
    BY <1>1, <1>6 DEF Busy, Load, MarkJudging, SayJudging, Grade, BeginSave, DeleteResults,
           UpdateRow, Commit, FailRow, SayDone, Proceed, Finish, queueVars
<1> QED BY <1>2, <1>3, <1>4, <1>5, <1>6 DEF WorkerStep

\* A consumer's step keeps the pending lists in order.
LEMMA WorkerKeepsOwn ==
    ASSUME UniqueNames, TypeInv, PendingUnderOneName, HoldsItsOwn, NEW w \in Workers,
           WorkerStep(w) \/ ReadNextResent(w) \/ EngineUnavailable(w) \/ Throw(w)
    PROVE  PendingUnderOneName' /\ HoldsItsOwn'
<1>2. /\ cursor \in Nat /\ pel \in [Names -> SUBSET (1..cursor)]
      /\ NameOf \in [Workers -> Names]
    BY GradingAssumption DEF TypeInv, TypeOK, QueueTypeOK
<1>3. PendingUnderOneName'
    <2>1. CASE DeliverNext(NameOf[w])
        <3>1. \A n \in Names : cursor + 1 \notin pel[n]
            BY <1>2
        <3> QED
            BY <1>2, <2>1, <3>1 DEF DeliverNext, PendingUnderOneName
    <2>2. CASE AckMessage(w)
        BY <1>2, <2>2 DEF AckMessage, Ack, PendingUnderOneName
    <2>3. CASE UNCHANGED pel
        BY <2>3 DEF PendingUnderOneName
    <2> QED BY <2>1, <2>2, <2>3, WorkerPending
<1>4. ASSUME NEW v \in Workers \ {w}, Busy(v)' PROVE held'[v] \in pel'[NameOf[v]]
    <2>1. Busy(v) /\ held'[v] = held[v]
        BY <1>4, WorkerMoves DEF Busy
    <2>2. held[v] \in pel[NameOf[v]] /\ NameOf[v] \in Names
        BY <1>2, <2>1 DEF HoldsItsOwn
    <2>3. CASE DeliverNext(NameOf[w])
        BY <1>2, <2>1, <2>2, <2>3 DEF DeliverNext
    <2>4. CASE AckMessage(w)
        <3>1. Busy(w)
            BY <2>4 DEF AckMessage, Busy
        <3>2. held[v] # held[w]
            BY <2>1, <3>1, OwnMessage
        <3> QED BY <2>1, <2>2, <2>4, <3>2 DEF AckMessage, Ack
    <2>5. CASE UNCHANGED pel
        BY <2>1, <2>2, <2>5
    <2> QED BY <2>3, <2>4, <2>5, WorkerPending
<1>5. ASSUME Busy(w)' PROVE held'[w] \in pel'[NameOf[w]]
    BY <1>5, WorkerHolds DEF HoldsItsOwn
<1> QED BY <1>3, <1>4, <1>5 DEF HoldsItsOwn

LEMMA WorkerQueue ==
    ASSUME UniqueNames, TypeInv, QueueInv, NEW w \in Workers,
           WorkerStep(w) \/ ReadNextResent(w) \/ EngineUnavailable(w) \/ Throw(w)
    PROVE  QueueInv'
<1>1. PublishedLast' /\ OneMessageEach'
    BY WorkerMoves DEF QueueInv, PublishedLast, OneMessageEach, Messages
<1>2. PendingUnderOneName' /\ HoldsItsOwn'
    BY WorkerKeepsOwn DEF QueueInv
<1> QED BY <1>1, <1>2 DEF QueueInv

LEMMA NextQueue ==
    "resent" \notin Faults /\ UniqueNames /\ TypeInv /\ QueueInv /\ [Next]_vars => QueueInv'
<1> SUFFICES ASSUME "resent" \notin Faults, UniqueNames, TypeInv, QueueInv, [Next]_vars
             PROVE  QueueInv'
    OBVIOUS
<1>1. CASE ApiNext
    BY <1>1, ApiQueue DEF ApiNext
<1>2. CASE WorkerNext
    BY <1>2, WorkerQueue DEF WorkerNext
<1>3. CASE (\E s \in Submissions : DeleteRow(s)) \/ UNCHANGED vars
    <2>1. UNCHANGED <<stream, pel, request, step, held>>
        BY <1>3 DEF DeleteRow, vars, workerVars, queueVars
    <2> QED
        BY <2>1 DEF QueueInv, PendingUnderOneName, HoldsItsOwn, PublishedLast,
                    OneMessageEach, Messages, Busy
<1> QED BY <1>1, <1>2, <1>3 DEF Next

-----------------------------------------------------------------------------
(* What the rows say.                                                      *)

RowInv == NoRowYet /\ SeesAllResults /\ TellsTheRow /\ OneSetOfResults /\ StillToJudge

\* A message not yet acknowledged.
Unacked(s) == \E m \in MessagesOf(s) : ~Acked(m)

\* A submission needs no more judging: its row is gone, or its verdict is
\* stored and was said.
Settled(s) ==
    \/ status[s] = "none"
    \/ status[s] = "Done" /\ said[s] = Lifecycle!Update("Done", verdict[s])

\* StillToJudge, submission by submission.
LEMMA StillMeans ==
    StillToJudge <=> \A s \in Submissions : Published(s) => Settled(s) \/ Unacked(s)
BY DEF StillToJudge, Settled, Unacked

\* What a consumer works on is not acknowledged.
LEMMA BusyUnacked ==
    ASSUME TypeInv, QueueInv, NEW w \in Workers, Busy(w)
    PROVE  Unacked(JobOf(w))
<1>1. held[w] \in MessagesOf(JobOf(w))
    BY JobIsSubmission DEF MessagesOf, JobOf
<1>2. NameOf[w] \in Names /\ held[w] \in pel[NameOf[w]]
    BY GradingAssumption DEF QueueInv, HoldsItsOwn
<1> QED BY <1>1, <1>2 DEF Unacked, Acked

\* Only acknowledging acknowledges.
LEMMA StaysUnacked ==
    ASSUME TypeInv, UNCHANGED stream, NEW s \in Submissions, Unacked(s),
           \/ \E n \in Names : DeliverNext(n)
           \/ UNCHANGED <<cursor, pel>>
    PROVE  Unacked(s)'
<1>1. PICK m \in MessagesOf(s) : ~Acked(m)
    BY DEF Unacked
<1>2. /\ cursor \in Nat /\ pel \in [Names -> SUBSET (1..cursor)] /\ m \in Nat
      /\ Len(stream) \in Nat
    BY DEF TypeInv, TypeOK, QueueTypeOK, MessagesOf, Messages
<1>3. ~Acked(m)'
    <2>1. ASSUME NEW n \in Names, DeliverNext(n) PROVE ~Acked(m)'
        <3>1. CASE m = cursor + 1
            <4>1. m \in pel'[n]
                BY <1>2, <2>1, <3>1 DEF DeliverNext
            <4> QED BY <4>1 DEF Acked
        <3>2. CASE m \in pel[n]
            <4>1. m \in pel'[n]
                BY <1>2, <2>1, <3>2 DEF DeliverNext
            <4> QED BY <4>1 DEF Acked
        <3>3. CASE m # cursor + 1 /\ m \notin pel[n]
            BY <1>1, <1>2, <2>1, <3>3 DEF DeliverNext, Acked
        <3> QED BY <3>1, <3>2, <3>3
    <2>2. CASE UNCHANGED <<cursor, pel>>
        BY <1>1, <2>2 DEF Acked
    <2> QED BY <2>1, <2>2
<1>4. m \in MessagesOf(s)'
    BY <1>1 DEF MessagesOf, Messages
<1> QED BY <1>3, <1>4 DEF Unacked

LEMMA ApiRows ==
    ASSUME "resent" \notin Faults, TypeInv, QueueInv, RowInv, NEW s \in Submissions,
           Insert(s) \/ Publish(s) \/ MarkDemo(s) \/ ApiCrash(s) \/ WriteUnsupported(s)
    PROVE  RowInv'
<1>0. /\ status \in [Submissions -> {"none", "Pending", "Judging", "Done"}]
      /\ verdict \in [Submissions -> Int]
      /\ request \in [Submissions -> RequestStates]
      /\ said \in [Submissions -> [status : {"none", "Judging", "Done"}, verdict : Int]]
    BY DEF TypeInv, TypeOK
<1>1. \A m \in Messages : stream[m] # s
    BY ApiPublishes DEF QueueInv, PublishedLast
<1>2. \A k \in Submissions \ {s} :
          status'[k] = status[k] /\ verdict'[k] = verdict[k] /\ said'[k] = said[k]
    BY <1>0 DEF Insert, Publish, MarkDemo, ApiCrash, WriteUnsupported, rowVars, SetStatus,
                SetVerdict, Unsay
<1>3. status'[s] = "Done" => status[s] = "Done" \/ verdict'[s] = NotRun
    BY <1>0 DEF Insert, Publish, MarkDemo, ApiCrash, WriteUnsupported, rowVars, SetStatus,
                SetVerdict
<1>4. NoRowYet'
    <2>1. request'[s] # "new" \/ UNCHANGED <<request, status>>
        BY <1>0 DEF Insert, Publish, MarkDemo, ApiCrash, WriteUnsupported, Goto, Fault
    <2> QED BY <1>2, <2>1, ApiPublishes DEF RowInv, NoRowYet
\* Nobody works on s, and for the others nothing changes.
<1>5. ASSUME NEW w \in Workers, Busy(w)
      PROVE  JobOf(w) \in Submissions \ {s} /\ JobOf(w)' = JobOf(w)
    <2>1. held[w] \in Messages /\ JobOf(w) \in Submissions
        BY <1>5, JobIsSubmission
    <2>2. stream'[held[w]] = stream[held[w]] /\ held' = held
        BY <2>1, ApiPublishes, EnqueueAppends
    <2> QED BY <1>1, <2>1, <2>2 DEF JobOf
<1>6. SeesAllResults'
    BY <1>5, ApiPublishes DEF RowInv, SeesAllResults, Busy
<1>7. TellsTheRow'
    BY <1>2, <1>5, ApiPublishes DEF RowInv, TellsTheRow, Busy
<1>8. OneSetOfResults'
    <2>1. ASSUME status'[s] = "Done", verdict'[s] > 0 PROVE results'[s] \subseteq {verdict'[s]}
        <3>1. status[s] = "Done" /\ verdict'[s] # NotRun
            BY <1>3, <2>1 DEF NotRun
        <3>2. verdict'[s] = verdict[s]
            BY <1>0, <3>1 DEF Insert, Publish, MarkDemo, ApiCrash, WriteUnsupported, rowVars,
                              SetVerdict
        <3> QED BY <2>1, <3>1, <3>2, ApiPublishes DEF RowInv, OneSetOfResults
    <2> QED BY <1>2, <2>1, ApiPublishes DEF RowInv, OneSetOfResults
<1>9. StillToJudge'
    <2>1. CASE UNCHANGED stream
        <3>1. ~Published(s)'
            BY <1>1, <2>1 DEF Published, MessagesOf, Messages
        <3>2. \A k : (Published(k)' <=> Published(k)) /\ (Unacked(k)' <=> Unacked(k))
            BY <2>1, ApiPublishes DEF Published, Unacked, MessagesOf, Messages, Acked
        <3>3. \A k \in Submissions \ {s} : Settled(k)' <=> Settled(k)
            BY <1>2 DEF Settled, Lifecycle!Update
        <3>4. \A k \in Submissions : Published(k)' => Settled(k)' \/ Unacked(k)'
            BY <3>1, <3>2, <3>3, StillMeans DEF RowInv
        <3> QED BY <3>4 DEF StillToJudge, Settled, Unacked
    <2>2. CASE Enqueue(s)
        <3>1. Unacked(s)'
            <4>0. PICK m : m = Len(stream) + 1
                OBVIOUS
            <4>1. m \in MessagesOf(s)'
                BY <2>2, <4>0, EnqueueAppends DEF MessagesOf
            <4>2. m \notin 1..cursor
                BY <2>2, <4>0, EnqueueAppends DEF TypeInv, TypeOK, QueueTypeOK
            <4>3. ~Acked(m)'
                BY <4>2, ApiPublishes DEF Acked
            <4> QED BY <4>1, <4>3 DEF Unacked
        <3>2. \A k \in Submissions \ {s} : MessagesOf(k)' = MessagesOf(k)
            BY <2>2, EnqueueAppends DEF MessagesOf
        <3>3. \A k \in Submissions \ {s} : Unacked(k)' <=> Unacked(k)
            BY <3>2, ApiPublishes DEF Unacked, Acked
        <3>4. \A k \in Submissions \ {s} : Settled(k)' <=> Settled(k)
            BY <1>2 DEF Settled, Lifecycle!Update
        <3>5. \A k \in Submissions : Published(k)' => Settled(k)' \/ Unacked(k)'
            BY <3>1, <3>2, <3>3, <3>4, StillMeans DEF RowInv, Published
        <3> QED BY <3>5 DEF StillToJudge, Settled, Unacked
    <2> QED BY <2>1, <2>2, ApiPublishes
<1> QED BY <1>4, <1>6, <1>7, <1>8, <1>9 DEF RowInv

\* The steps of a consumer that leave the rows alone.
LEMMA QuietRows ==
    ASSUME TypeInv, QueueInv, RowInv, NEW w \in Workers,
           \/ ReadOwnPending(w) \/ ReadNext(w) \/ ReadNextResent(w) \/ Load(w) \/ Grade(w)
           \/ BeginSave(w) \/ DeleteResults(w) \/ UpdateRow(w) \/ EngineUnavailable(w)
           \/ Throw(w)
    PROVE  RowInv'
<1> USE DEF Busy
<1>1. UNCHANGED <<stream, request, status, verdict, results, said>>
    BY DEF ReadOwnPending, ReadNext, ReadNextResent, Load, Grade, BeginSave, DeleteResults,
           UpdateRow, EngineUnavailable, Throw, rowVars, queueVars
<1>2. (\E n \in Names : DeliverNext(n)) \/ UNCHANGED <<cursor, pel>>
    BY GradingAssumption
       DEF ReadOwnPending, ReadNext, ReadNextResent, Load, Grade, BeginSave, DeleteResults,
           UpdateRow, EngineUnavailable, Throw, queueVars
<1>3. /\ step \in [Workers -> Steps] /\ held \in [Workers -> Nat]
      /\ seen \in [Workers -> SUBSET Nat] /\ grade \in [Workers -> Int]
    BY DEF TypeInv, TypeOK
<1>4. \A v \in Workers \ {w} : /\ step'[v] = step[v] /\ held'[v] = held[v]
                               /\ seen'[v] = seen[v] /\ grade'[v] = grade[v]
    BY <1>3 DEF ReadOwnPending, ReadNext, ReadNextResent, Load, Grade, BeginSave,
                DeleteResults, UpdateRow, EngineUnavailable, Throw, workerVars, Take,
                Proceed, Finish
<1>5. /\ step'[w] \in {"delete", "update", "commit"} =>
             held'[w] = held[w] /\ results[JobOf(w)] \subseteq seen'[w]
      /\ step'[w] \notin {"sayJudging", "sayDone"}
      /\ step'[w] = "ack" => held'[w] = held[w] /\ status[JobOf(w)] = "none"
    BY <1>3 DEF ReadOwnPending, ReadNext, ReadNextResent, Load, Grade, BeginSave,
                DeleteResults, UpdateRow, EngineUnavailable, Throw, workerVars, Take,
                Proceed, Finish, RowInv, SeesAllResults
<1>6. NoRowYet' /\ OneSetOfResults'
    BY <1>1 DEF RowInv, NoRowYet, OneSetOfResults
<1>7. SeesAllResults'
    BY <1>1, <1>4, <1>5 DEF RowInv, SeesAllResults, JobOf
<1>8. TellsTheRow'
    BY <1>1, <1>4, <1>5 DEF RowInv, TellsTheRow, JobOf
<1>9. StillToJudge'
    <2>1. \A s \in Submissions : Published(s) /\ ~Settled(s) => Unacked(s)'
        BY <1>1, <1>2, StillMeans, StaysUnacked DEF RowInv
    <2>2. \A s \in Submissions : (Published(s)' <=> Published(s)) /\ (Settled(s)' <=> Settled(s))
        BY <1>1 DEF Published, MessagesOf, Messages, Settled, Lifecycle!Update
    <2>3. \A s \in Submissions : Published(s)' => Settled(s)' \/ Unacked(s)'
        BY <2>1, <2>2
    <2> QED BY <2>3 DEF StillToJudge, Settled, Unacked
<1> QED BY <1>6, <1>7, <1>8, <1>9 DEF RowInv

\* The steps that write the row of what the consumer holds, or speak of it.
LEMMA WritingRows ==
    ASSUME UniqueNames, TypeInv, QueueInv, RowInv, NEW w \in Workers,
           \/ MarkJudging(w) \/ SayJudging(w) \/ Commit(w) \/ FailRow(w) \/ SayDone(w)
    PROVE  RowInv'
<1> USE DEF Busy
<1> DEFINE s == JobOf(w)
<1>1. Busy(w) /\ s \in Submissions
    <2>1. Busy(w)
        BY DEF MarkJudging, SayJudging, Commit, FailRow, SayDone
    <2> QED BY <2>1, JobIsSubmission
<1>2. UNCHANGED <<queueVars, request>>
    BY DEF MarkJudging, SayJudging, Commit, FailRow, SayDone
<1>3. /\ step \in [Workers -> Steps] /\ held \in [Workers -> Nat]
      /\ seen \in [Workers -> SUBSET Nat] /\ grade \in [Workers -> Int]
      /\ status \in [Submissions -> {"none", "Pending", "Judging", "Done"}]
      /\ verdict \in [Submissions -> Int] /\ results \in [Submissions -> SUBSET Nat]
      /\ said \in [Submissions -> [status : {"none", "Judging", "Done"}, verdict : Int]]
    BY DEF TypeInv, TypeOK
<1>4. \A k \in Submissions \ {s} :
          /\ status'[k] = status[k] /\ verdict'[k] = verdict[k]
          /\ results'[k] = results[k] /\ said'[k] = said[k]
    BY <1>3 DEF MarkJudging, SayJudging, Commit, FailRow, SayDone, rowVars, SetStatus,
                SetVerdict, Unsay
<1>5. \A v \in Workers \ {w} : /\ step'[v] = step[v] /\ held'[v] = held[v]
                               /\ seen'[v] = seen[v] /\ grade'[v] = grade[v]
    BY <1>3 DEF MarkJudging, SayJudging, Commit, FailRow, SayDone, Proceed, Finish
<1>6. \A v \in Workers : JobOf(v)' = stream[held'[v]]
    BY <1>2 DEF JobOf, queueVars
<1>7. \A v \in Workers \ {w} : Busy(v) => JobOf(v) \in Submissions \ {s} /\ JobOf(v)' = JobOf(v)
    BY <1>1, <1>5, <1>6, Alone, JobIsSubmission DEF JobOf
\* What w itself leaves behind.
<1>8. /\ step'[w] \notin {"delete", "update", "commit"}
      /\ step'[w] = "sayJudging" => held'[w] = held[w] /\ status'[s] \in {"none", "Judging"}
      /\ step'[w] = "sayDone" =>
             /\ held'[w] = held[w]
             /\ \/ status'[s] = "none"
                \/ status'[s] = "Done" /\ verdict'[s] = grade'[w]
      /\ step'[w] = "ack" =>
             /\ held'[w] = held[w]
             /\ \/ status'[s] = "none"
                \/ /\ status'[s] = "Done"
                   /\ said'[s] = Lifecycle!Update("Done", verdict'[s])
    <2> HIDE DEF s
    <2>1. CASE MarkJudging(w)
        BY <1>1, <1>3, <2>1 DEF MarkJudging, SetStatus, Proceed, s
    <2>2. CASE SayJudging(w)
        BY <1>1, <1>3, <2>2 DEF SayJudging, Proceed, s
    <2>3. CASE Commit(w)
        BY <1>1, <1>3, <2>3 DEF Commit, SetStatus, SetVerdict, Proceed, Finish, s
    <2>4. CASE FailRow(w)
        BY <1>1, <1>3, <2>4 DEF FailRow, SetStatus, SetVerdict, s
    <2>5. CASE SayDone(w)
        <3>1. \/ status[s] = "none"
              \/ status[s] = "Done" /\ verdict[s] = grade[w]
            BY <2>5 DEF SayDone, RowInv, TellsTheRow, s
        <3>2. /\ status' = status /\ verdict' = verdict
              /\ said'[s] = Lifecycle!Update("Done", grade[w])
              /\ step'[w] = "ack" /\ held' = held
            BY <1>1, <1>3, <2>5 DEF SayDone, Proceed, rowVars, s
        <3> QED BY <3>1, <3>2
    <2> QED BY <2>1, <2>2, <2>3, <2>4, <2>5
<1>9. NoRowYet'
    <2>1. request[s] # "new"
        BY <1>1, JobIsSubmission DEF QueueInv, PublishedLast, JobOf
    <2> QED BY <1>2, <1>4, <2>1 DEF RowInv, NoRowYet
<1>10. SeesAllResults'
    BY <1>4, <1>5, <1>7, <1>8 DEF RowInv, SeesAllResults
<1>11. TellsTheRow'
    <2>1. step'[w] \in {"sayJudging", "sayDone", "ack"} => JobOf(w)' = s
        BY <1>6, <1>8 DEF JobOf
    <2>2. ASSUME NEW v \in Workers \ {w}, step[v] \in {"sayJudging", "sayDone", "ack"}
          PROVE  /\ JobOf(v)' = JobOf(v) /\ step'[v] = step[v] /\ grade'[v] = grade[v]
                 /\ status'[JobOf(v)] = status[JobOf(v)]
                 /\ verdict'[JobOf(v)] = verdict[JobOf(v)]
                 /\ said'[JobOf(v)] = said[JobOf(v)]
        BY <1>4, <1>5, <1>7, <2>2
    <2> HIDE DEF s
    <2> QED BY <1>5, <1>8, <2>1, <2>2 DEF RowInv, TellsTheRow, Lifecycle!Update
<1>12. OneSetOfResults'
    <2>1. ASSUME status'[s] = "Done", verdict'[s] > 0 PROVE results'[s] \subseteq {verdict'[s]}
        <3>1. CASE MarkJudging(w)
            BY <1>1, <1>3, <2>1, <3>1 DEF MarkJudging, SetStatus
        <3>2. CASE SayJudging(w) \/ SayDone(w)
            BY <1>1, <2>1, <3>2 DEF SayJudging, SayDone, rowVars, RowInv, OneSetOfResults
        <3>3. CASE Commit(w)
            <4>1. results[s] \subseteq seen[w]
                BY <3>3 DEF Commit, RowInv, SeesAllResults
            <4>2. CASE UNCHANGED rowVars
                BY <1>1, <2>1, <4>2 DEF rowVars, RowInv, OneSetOfResults
            <4>3. ASSUME NEW rows \in {{}, {grade[w]}},
                         SetStatus(s, "Done"), SetVerdict(s, grade[w]),
                         results' = [results EXCEPT ![s] = (@ \ seen[w]) \cup rows]
                  PROVE  results'[s] \subseteq {verdict'[s]}
                <5>1. results'[s] \subseteq {grade[w]}
                    BY <1>1, <1>3, <4>1, <4>3
                <5>2. status[s] # "none"
                    BY <1>1, <1>3, <2>1, <4>3 DEF SetStatus
                <5>3. verdict'[s] = grade[w]
                    BY <1>1, <1>3, <4>3, <5>2 DEF SetVerdict
                <5> QED BY <5>1, <5>3
            <4> QED BY <3>3, <4>2, <4>3 DEF Commit
        <3>4. CASE FailRow(w)
            <4>1. verdict'[s] = InternalError
                BY <1>1, <1>3, <2>1, <3>4 DEF FailRow, SetStatus, SetVerdict
            <4> QED BY <2>1, <4>1 DEF InternalError
        <3> QED BY <3>1, <3>2, <3>3, <3>4
    <2> QED BY <1>4, <2>1 DEF RowInv, OneSetOfResults
<1>13. StillToJudge'
    <2>1. \A k : (Published(k)' <=> Published(k)) /\ (Unacked(k)' <=> Unacked(k))
        BY <1>2 DEF Published, Unacked, MessagesOf, Messages, Acked, queueVars
    <2>2. Unacked(s)
        BY <1>1, BusyUnacked
    <2>3. \A k \in Submissions \ {s} : Settled(k)' <=> Settled(k)
        BY <1>4 DEF Settled, Lifecycle!Update
    <2>4. \A k \in Submissions : Published(k)' => Settled(k)' \/ Unacked(k)'
        BY <2>1, <2>2, <2>3, StillMeans DEF RowInv
    <2> QED BY <2>4 DEF StillToJudge, Settled, Unacked
<1> QED BY <1>9, <1>10, <1>11, <1>12, <1>13 DEF RowInv

\* What is acknowledged is settled.
LEMMA AckRows ==
    ASSUME UniqueNames, TypeInv, QueueInv, RowInv, NEW w \in Workers, AckMessage(w)
    PROVE  RowInv'
<1> USE DEF Busy
<1>1. Busy(w)
    BY DEF AckMessage
<1>2. UNCHANGED <<stream, cursor, request, status, verdict, results, said>>
    BY DEF AckMessage, rowVars
<1>3. /\ step \in [Workers -> Steps] /\ held \in [Workers -> Nat]
      /\ seen \in [Workers -> SUBSET Nat] /\ grade \in [Workers -> Int]
    BY DEF TypeInv, TypeOK
<1>4. /\ step'[w] = "pending"
      /\ \A v \in Workers \ {w} : /\ step'[v] = step[v] /\ held'[v] = held[v]
                                  /\ seen'[v] = seen[v] /\ grade'[v] = grade[v]
    BY <1>3 DEF AckMessage, Finish
<1>5. NoRowYet' /\ OneSetOfResults'
    BY <1>2 DEF RowInv, NoRowYet, OneSetOfResults
<1>6. SeesAllResults' /\ TellsTheRow'
    BY <1>2, <1>4 DEF RowInv, SeesAllResults, TellsTheRow, JobOf, Lifecycle!Update
<1>7. StillToJudge'
    <2>1. Settled(JobOf(w))
        BY DEF AckMessage, RowInv, TellsTheRow, Settled
    <2>2. ASSUME NEW k \in Submissions, k # JobOf(w), Unacked(k) PROVE Unacked(k)'
        <3>1. PICK m \in MessagesOf(k) : ~Acked(m)
            BY <2>2 DEF Unacked
        <3>2. m # held[w]
            BY <2>2 DEF MessagesOf, JobOf
        <3>3. ~Acked(m)'
            BY <1>2, <3>1, <3>2 DEF Acked, AckMessage, Ack
        <3> QED BY <1>2, <3>1, <3>3 DEF Unacked, MessagesOf, Messages
    <2>3. \A k : (Published(k)' <=> Published(k)) /\ (Settled(k)' <=> Settled(k))
        BY <1>2 DEF Published, MessagesOf, Messages, Settled, Lifecycle!Update
    <2>4. \A k \in Submissions : Published(k)' => Settled(k)' \/ Unacked(k)'
        BY <2>1, <2>2, <2>3, StillMeans DEF RowInv
    <2> QED BY <2>4 DEF StillToJudge, Settled, Unacked
<1> QED BY <1>5, <1>6, <1>7 DEF RowInv

LEMMA DeleteRows ==
    ASSUME TypeInv, QueueInv, RowInv, NEW s \in Submissions, DeleteRow(s)
    PROVE  RowInv'
<1>1. /\ status \in [Submissions -> {"none", "Pending", "Judging", "Done"}]
      /\ results \in [Submissions -> SUBSET Nat]
    BY DEF TypeInv, TypeOK
<1>2. /\ UNCHANGED <<stream, cursor, pel, request, verdict, said, step, held, grade, seen>>
      /\ status' = [status EXCEPT ![s] = "none"]
      /\ results' = [results EXCEPT ![s] = {}]
    BY DEF DeleteRow, queueVars, workerVars
<1>3. \A k : results'[k] \subseteq results[k] \/ k \notin Submissions
    BY <1>1, <1>2
<1>4. \A w \in Workers : Busy(w) => JobOf(w) \in Submissions /\ JobOf(w)' = JobOf(w)
    BY <1>2, JobIsSubmission DEF JobOf
<1>5. NoRowYet' /\ OneSetOfResults'
    BY <1>1, <1>2 DEF RowInv, NoRowYet, OneSetOfResults
<1>6. SeesAllResults'
    BY <1>2, <1>3, <1>4 DEF RowInv, SeesAllResults, Busy
<1>7. TellsTheRow'
    BY <1>1, <1>2, <1>4 DEF RowInv, TellsTheRow, Busy, Lifecycle!Update
<1>8. StillToJudge'
    <2>1. \A k : (Published(k)' <=> Published(k)) /\ (Unacked(k)' <=> Unacked(k))
        BY <1>2 DEF Published, Unacked, MessagesOf, Messages, Acked
    <2>2. \A k \in Submissions : Settled(k) => Settled(k)'
        BY <1>1, <1>2 DEF Settled, Lifecycle!Update
    <2>3. \A k \in Submissions : Published(k)' => Settled(k)' \/ Unacked(k)'
        BY <2>1, <2>2, StillMeans DEF RowInv
    <2> QED BY <2>3 DEF StillToJudge, Settled, Unacked
<1> QED BY <1>5, <1>6, <1>7, <1>8 DEF RowInv

LEMMA InitGrading == Init => GradingInv
<1> SUFFICES ASSUME Init PROVE GradingInv
    OBVIOUS
<1>1. Messages = {}
    BY DEF Init, QueueInit, Messages
<1>2. QueueInv
    BY <1>1 DEF Init, QueueInit, QueueInv, PendingUnderOneName, HoldsItsOwn, PublishedLast,
                OneMessageEach, Busy
<1>3. \A s \in Submissions : status[s] = "none" /\ ~Published(s)
    BY <1>1 DEF Init, Lifecycle!LifecycleInit, Published, MessagesOf
<1>4. RowInv
    BY <1>3 DEF Init, RowInv, NoRowYet, SeesAllResults, TellsTheRow, OneSetOfResults,
                StillToJudge
<1> QED BY <1>2, <1>4, InitTypes DEF GradingInv, RowInv

LEMMA NextGrading ==
    "resent" \notin Faults /\ UniqueNames /\ GradingInv /\ [Next]_vars => GradingInv'
<1> SUFFICES ASSUME "resent" \notin Faults, UniqueNames, GradingInv, [Next]_vars
             PROVE  GradingInv'
    OBVIOUS
<1>1. TypeInv /\ QueueInv /\ RowInv
    BY DEF GradingInv, RowInv
<1>2. TypeInv' /\ QueueInv'
    BY <1>1, NextTypes, NextQueue
<1>3. ASSUME NEW s \in Submissions,
             Insert(s) \/ Publish(s) \/ MarkDemo(s) \/ ApiCrash(s) \/ WriteUnsupported(s)
      PROVE  RowInv'
    BY <1>1, <1>3, ApiRows
<1>4. ASSUME NEW w \in Workers,
             WorkerStep(w) \/ ReadNextResent(w) \/ EngineUnavailable(w) \/ Throw(w)
      PROVE  RowInv'
    BY <1>1, <1>4, QuietRows, WritingRows, AckRows DEF WorkerStep
<1>5. ASSUME NEW s \in Submissions, DeleteRow(s) PROVE RowInv'
    BY <1>1, <1>5, DeleteRows
<1>6. ASSUME UNCHANGED vars PROVE RowInv'
    BY <1>1, <1>6
       DEF vars, queueVars, rowVars, workerVars, RowInv, NoRowYet, SeesAllResults,
           TellsTheRow, OneSetOfResults, StillToJudge, JobOf, Published, MessagesOf,
           Messages, Acked, Lifecycle!Update
<1>7. RowInv'
    BY <1>3, <1>4, <1>5, <1>6 DEF Next, ApiNext, WorkerNext
<1> QED BY <1>2, <1>7 DEF GradingInv, RowInv

LEMMA GradingInvariant == "resent" \notin Faults /\ UniqueNames => (Spec => []GradingInv)
<1> SUFFICES ASSUME "resent" \notin Faults, UniqueNames PROVE Spec => []GradingInv
    OBVIOUS
<1>1. GradingInv /\ [Next]_vars => GradingInv'
    BY NextGrading
<1> QED BY <1>1, InitGrading, PTL DEF Spec

\* Re-grading never leaves result rows of two gradings, whatever crashes,
\* throws or is deleted, as long as no two consumers read under the same name
\* and no XADD is repeated.
THEOREM OneSetHolds ==
    "resent" \notin Faults /\ UniqueNames => (Spec => []OneSetOfResults)
<1>1. GradingInv => OneSetOfResults
    BY DEF GradingInv
<1> QED BY <1>1, GradingInvariant, PTL

\* A published submission whose verdict is not both stored and said has a
\* message that will still be worked on, under the same assumptions.
THEOREM NothingForgotten ==
    "resent" \notin Faults /\ UniqueNames => (Spec => []StillToJudge)
<1>1. GradingInv => StillToJudge
    BY DEF GradingInv
<1> QED BY <1>1, GradingInvariant, PTL

-----------------------------------------------------------------------------
(* What holds even if an XADD is repeated, and a submission has more than   *)
(* one message: two consumers may grade it at once, but each has a message  *)
(* of its own.                                                              *)

\* The consumer will not touch the row again before it acknowledges.
Concluding(w) == step[w] \in {"sayDone", "ack"}

\* The message will still make a consumer conclude its submission: it is to be
\* delivered, or pending and not merely waiting to be acknowledged.
Live(m) ==
    \/ m > cursor
    \/ /\ \E n \in Names : m \in pel[n]
       /\ \A w \in Workers : Concluding(w) => held[w] # m

\* A row is inserted before its message is published, never after.
PublishedAfterInsert == \A s \in Submissions : request[s] = "new" => ~Published(s)

UnjudgedHasLiveMessage ==
    \A s \in Submissions :
        Published(s) /\ status[s] \in {"Pending", "Judging"} => \E m \in MessagesOf(s) : Live(m)

JudgingInv ==
    /\ TypeInv /\ PendingUnderOneName /\ HoldsItsOwn
    /\ PublishedAfterInsert /\ UnjudgedHasLiveMessage

\* A message stays live in a consumer's step, unless it is the one the consumer
\* holds and is done with.
LEMMA StaysLive ==
    ASSUME TypeInv, HoldsItsOwn, NEW w \in Workers,
           WorkerStep(w) \/ ReadNextResent(w) \/ EngineUnavailable(w) \/ Throw(w),
           NEW m \in Messages, Live(m), ~(Concluding(w)' /\ held[w] = m)
    PROVE  Live(m)'
<1>1. /\ cursor \in Nat /\ pel \in [Names -> SUBSET (1..cursor)] /\ NameOf[w] \in Names
      /\ m \in Nat
    BY GradingAssumption DEF TypeInv, TypeOK, QueueTypeOK, Messages
<1>2. \A v \in Workers : Concluding(v)' =>
        \/ v = w /\ held'[v] = held[w]
        \/ v # w /\ Concluding(v) /\ held'[v] = held[v]
    BY WorkerMoves, WorkerHolds DEF Concluding, Busy
<1>4. \A v \in Workers : Concluding(v) => held[v] \in 1..cursor
    BY DEF Concluding, Busy, TypeInv, HeldDelivered
<1>5. CASE m > cursor
    <2>1. CASE DeliverNext(NameOf[w]) /\ m = cursor + 1
        <3>1. m \in pel'[NameOf[w]]
            BY <1>1, <2>1 DEF DeliverNext
        <3>2. \A v \in Workers : Concluding(v)' => held'[v] # m
            BY <1>1, <1>2, <1>4, <1>5
        <3> QED BY <1>1, <3>1, <3>2 DEF Live
    <2>2. CASE DeliverNext(NameOf[w]) /\ m # cursor + 1
        BY <1>1, <1>5, <2>2 DEF DeliverNext, Live
    <2>3. CASE UNCHANGED cursor
        BY <1>5, <2>3 DEF Live
    <2> QED BY <2>1, <2>2, <2>3, WorkerPending
<1>6. ASSUME NEW n \in Names, m \in pel[n], \A v \in Workers : Concluding(v) => held[v] # m
      PROVE  Live(m)'
    <2>1. \A v \in Workers : Concluding(v)' => held'[v] # m
        BY <1>2, <1>6
    <2>2. m \in pel'[n]
        <3>1. CASE DeliverNext(NameOf[w])
            BY <1>1, <1>6, <3>1 DEF DeliverNext
        <3>2. CASE AckMessage(w)
            <4>1. Concluding(w)
                BY <3>2 DEF AckMessage, Concluding
            <4> QED BY <1>1, <1>6, <3>2, <4>1 DEF AckMessage, Ack
        <3>3. CASE UNCHANGED pel
            BY <1>6, <3>3
        <3> QED BY <3>1, <3>2, <3>3, WorkerPending
    <2> QED BY <2>1, <2>2 DEF Live
<1> QED BY <1>5, <1>6 DEF Live

\* What a consumer's step does to the rows.
LEMMA WorkerRows ==
    ASSUME TypeInv, NEW w \in Workers,
           WorkerStep(w) \/ ReadNextResent(w) \/ EngineUnavailable(w) \/ Throw(w)
    PROVE  /\ \A s \in Submissions : (~Busy(w) \/ s # JobOf(w)) =>
                /\ status'[s] = status[s] /\ verdict'[s] = verdict[s]
                /\ results'[s] = results[s] /\ said'[s] = said[s]
           /\ Busy(w) => \/ status'[JobOf(w)] = status[JobOf(w)]
                         \/ status'[JobOf(w)] = "Done"
                         \/ ~Concluding(w)' /\ status[JobOf(w)] # "none" /\ pel' = pel
                              /\ ~Concluding(w) /\ cursor' = cursor
           /\ Busy(w) /\ Concluding(w)' /\ ~Concluding(w) =>
                status'[JobOf(w)] \in {"none", "Done"}
<1> DEFINE s == JobOf(w)
<1>1. /\ status \in [Submissions -> {"none", "Pending", "Judging", "Done"}]
      /\ verdict \in [Submissions -> Int] /\ results \in [Submissions -> SUBSET Nat]
      /\ said \in [Submissions -> [status : {"none", "Judging", "Done"}, verdict : Int]]
      /\ step \in [Workers -> Steps]
    BY DEF TypeInv, TypeOK
<1>2. Busy(w) => s \in Submissions
    BY JobIsSubmission
<1>3. CASE \/ ReadOwnPending(w) \/ ReadNext(w) \/ ReadNextResent(w) \/ Load(w) \/ Grade(w)
           \/ BeginSave(w) \/ DeleteResults(w) \/ UpdateRow(w) \/ AckMessage(w)
           \/ EngineUnavailable(w) \/ Throw(w)
    <2>1. UNCHANGED <<status, verdict, results, said>>
        BY <1>3 DEF ReadOwnPending, ReadNext, ReadNextResent, Load, Grade, BeginSave,
                    DeleteResults, UpdateRow, AckMessage, EngineUnavailable, Throw, rowVars
    <2>2. Concluding(w)' /\ Busy(w) /\ ~Concluding(w) => status[s] = "none"
        BY <1>1, <1>3
           DEF ReadOwnPending, ReadNext, ReadNextResent, Load, Grade, BeginSave, DeleteResults,
               UpdateRow, AckMessage, EngineUnavailable, Throw, Take, Proceed, Finish,
               workerVars, Concluding, Busy
    <2> QED BY <2>1, <2>2
<1>4. CASE MarkJudging(w)
    <2>1. Busy(w) /\ s \in Submissions
        BY <1>2, <1>4 DEF MarkJudging, Busy
    <2>2. ~Concluding(w)' /\ ~Concluding(w) /\ UNCHANGED <<cursor, pel, verdict, results>>
        BY <1>1, <1>4 DEF MarkJudging, Proceed, Concluding, queueVars
    <2>3. status' = [status EXCEPT ![s] = IF @ = "none" THEN @ ELSE "Judging"]
        BY <1>4 DEF MarkJudging, SetStatus
    <2>4. \A k \in Submissions \ {s} : said'[k] = said[k]
        BY <1>1, <1>4 DEF MarkJudging, Unsay
    <2> QED BY <1>1, <2>1, <2>2, <2>3, <2>4
<1>5. CASE SayJudging(w) \/ SayDone(w)
    <2>1. Busy(w) /\ s \in Submissions /\ UNCHANGED <<status, verdict, results>>
        BY <1>2, <1>5 DEF SayJudging, SayDone, Busy, rowVars
    <2>2. Concluding(w)' => Concluding(w)
        BY <1>1, <1>5 DEF SayJudging, SayDone, Proceed, Concluding
    <2>3. \A k \in Submissions \ {s} : said'[k] = said[k]
        BY <1>1, <1>5 DEF SayJudging, SayDone
    <2> QED BY <2>1, <2>2, <2>3
<1>6. CASE Commit(w) \/ FailRow(w)
    <2>1. Busy(w) /\ s \in Submissions
        BY <1>2, <1>6 DEF Commit, FailRow, Busy
    <2>2. \/ Finish(w) /\ UNCHANGED <<rowVars, said>>
          \/ /\ SetStatus(s, "Done") /\ Unsay(s)
             /\ \E v : SetVerdict(s, v)
             /\ results' = results \/ \E r : results' = [results EXCEPT ![s] = r]
        BY <1>6 DEF Commit, FailRow
    <2>3. CASE Finish(w) /\ UNCHANGED <<rowVars, said>>
        BY <1>1, <2>3 DEF Finish, Concluding, rowVars
    <2>4. CASE /\ SetStatus(s, "Done") /\ Unsay(s)
               /\ \E v : SetVerdict(s, v)
               /\ results' = results \/ \E r : results' = [results EXCEPT ![s] = r]
        BY <1>1, <2>1, <2>4 DEF SetStatus, SetVerdict, Unsay
    <2> QED BY <2>2, <2>3, <2>4
<1> QED BY <1>3, <1>4, <1>5, <1>6 DEF WorkerStep

\* A consumer leaves a live message to every submission that is not judged.
LEMMA WorkerJudging ==
    ASSUME UniqueNames, JudgingInv, NEW w \in Workers,
           WorkerStep(w) \/ ReadNextResent(w) \/ EngineUnavailable(w) \/ Throw(w)
    PROVE  UnjudgedHasLiveMessage'
<1> SUFFICES ASSUME NEW s \in Submissions, Published(s)', status'[s] \in {"Pending", "Judging"}
             PROVE  \E m \in MessagesOf(s)' : Live(m)'
    BY DEF UnjudgedHasLiveMessage
<1> USE DEF JudgingInv
<1>1. MessagesOf(s)' = MessagesOf(s) /\ Published(s)
    BY WorkerMoves DEF MessagesOf, Messages, Published
<1>2. CASE status'[s] = status[s]
    <2>1. PICK m \in MessagesOf(s) : Live(m)
        BY <1>1, <1>2 DEF UnjudgedHasLiveMessage
    <2>2. m \in Messages /\ stream[m] = s
        BY DEF MessagesOf
    <2>3. ASSUME Concluding(w)', held[w] = m PROVE FALSE
        <3>1. Busy(w)
            <4>1. Busy(w)' /\ step'[w] # "load"
                BY <2>3 DEF Concluding, Busy
            <4> QED BY <4>1, WorkerHolds
        <3>2. ~Concluding(w)
            <4>1. m \notin 1..cursor => FALSE
                BY <2>3, <3>1 DEF TypeInv, HeldDelivered
            <4>2. m \in Nat /\ cursor \in Nat
                BY <2>2 DEF TypeInv, TypeOK, QueueTypeOK, Messages
            <4> QED BY <2>1, <2>3, <4>1, <4>2 DEF Live
        <3>3. JobOf(w) = s
            BY <2>2, <2>3 DEF JobOf
        <3> QED BY <2>3, <3>1, <3>2, <3>3, WorkerRows
    <2>4. Live(m)'
        BY <2>1, <2>2, <2>3, StaysLive
    <2> QED BY <1>1, <2>4
<1>3. CASE status'[s] # status[s]
    <2>1. Busy(w) /\ s = JobOf(w)
        BY <1>3, WorkerRows
    <2>2. ~Concluding(w)' /\ pel' = pel /\ cursor' = cursor
        BY <1>3, <2>1, WorkerRows
    <2>0. PICK m : m = held[w]
        OBVIOUS
    <2>3. m \in MessagesOf(s) /\ m \in pel[NameOf[w]] /\ NameOf[w] \in Names
        BY <2>0, <2>1, JobIsSubmission, GradingAssumption DEF MessagesOf, JobOf, HoldsItsOwn
    <2>4. \A v \in Workers : Concluding(v)' => held'[v] # m
        <3> SUFFICES ASSUME NEW v \in Workers, Concluding(v)' PROVE held'[v] # held[w]
            BY <2>0
        <3>1. v # w /\ Concluding(v) /\ held'[v] = held[v]
            BY <2>2, WorkerMoves DEF Concluding
        <3>2. Busy(v)
            BY <3>1 DEF Concluding, Busy
        <3> QED BY <2>1, <3>1, <3>2, OwnMessage
    <2>5. Live(m)'
        BY <2>2, <2>3, <2>4 DEF Live
    <2> QED BY <1>1, <2>3, <2>5
<1> QED BY <1>2, <1>3

\* A request touches a submission only before it has published it.
LEMMA ApiTouches ==
    ASSUME TypeInv, NEW s \in Submissions,
           Insert(s) \/ Publish(s) \/ MarkDemo(s) \/ ApiCrash(s) \/ WriteUnsupported(s)
    PROVE  /\ request[s] \in {"new", "inserted"}
           /\ \A k \in Submissions \ {s} :
                /\ request'[k] = request[k] /\ status'[k] = status[k]
                /\ verdict'[k] = verdict[k] /\ said'[k] = said[k]
           /\ request[s] = "new" => Insert(s) \/ WriteUnsupported(s)
           /\ request[s] = "inserted" => status'[s] \in {status[s], "Done"}
           /\ \/ UNCHANGED stream
              \/ Enqueue(s) /\ request'[s] # "new"
           /\ request'[s] = "new" => request[s] = "new"
           /\ UNCHANGED <<cursor, pel, results, step, held>>
<1>1. /\ request \in [Submissions -> RequestStates]
      /\ status \in [Submissions -> {"none", "Pending", "Judging", "Done"}]
      /\ verdict \in [Submissions -> Int]
      /\ said \in [Submissions -> [status : {"none", "Judging", "Done"}, verdict : Int]]
    BY DEF TypeInv, TypeOK
<1> QED
    BY <1>1 DEF Insert, Publish, MarkDemo, ApiCrash, WriteUnsupported, Goto, Fault,
                SetStatus, SetVerdict, Unsay, queueVars, rowVars, workerVars

\* So does a request.
LEMMA ApiJudging ==
    ASSUME JudgingInv, NEW s \in Submissions,
           Insert(s) \/ Publish(s) \/ MarkDemo(s) \/ ApiCrash(s) \/ WriteUnsupported(s)
    PROVE  /\ PendingUnderOneName' /\ HoldsItsOwn'
           /\ PublishedAfterInsert' /\ UnjudgedHasLiveMessage'
<1> USE DEF JudgingInv
<1>1. PendingUnderOneName' /\ HoldsItsOwn' /\ \A m : Live(m) => Live(m)'
    BY ApiTouches DEF PendingUnderOneName, HoldsItsOwn, Busy, Live, Concluding
<1>2. ASSUME NEW k \in Submissions, k # s \/ UNCHANGED stream
      PROVE  MessagesOf(k)' = MessagesOf(k)
    <2>1. CASE UNCHANGED stream
        BY <2>1 DEF MessagesOf, Messages
    <2>2. CASE Enqueue(s) /\ k # s
        BY <2>2, EnqueueAppends DEF MessagesOf
    <2> QED BY <1>2, <2>1, <2>2, ApiTouches
<1>3. \A m \in MessagesOf(s) : m \in MessagesOf(s)'
    BY ApiTouches, EnqueueAppends DEF MessagesOf, Messages
<1>4. PublishedAfterInsert'
    BY <1>2, ApiTouches DEF PublishedAfterInsert, Published
<1>5. ASSUME Enqueue(s) PROVE \E m \in MessagesOf(s)' : Live(m)'
    <2>0. PICK m : m = Len(stream) + 1
        OBVIOUS
    <2>1. m \in MessagesOf(s)'
        BY <1>5, <2>0, EnqueueAppends DEF MessagesOf
    <2>2. m > cursor'
        BY <1>5, <2>0, EnqueueAppends, ApiTouches
    <2> QED BY <2>1, <2>2 DEF Live
<1>6. ASSUME NEW k \in Submissions, Published(k)', status'[k] \in {"Pending", "Judging"}
      PROVE  \E m \in MessagesOf(k)' : Live(m)'
    <2>1. CASE k # s
        BY <1>1, <1>2, <1>6, <2>1, ApiTouches DEF UnjudgedHasLiveMessage, Published
    <2>2. CASE k = s /\ Enqueue(s)
        BY <1>5, <2>2
    <2>3. CASE k = s /\ UNCHANGED stream
        <3>1. Published(s) /\ MessagesOf(s)' = MessagesOf(s)
            BY <1>2, <1>6, <2>3 DEF Published
        <3>2. request[s] = "inserted"
            BY <3>1, ApiTouches DEF PublishedAfterInsert
        <3>3. status[s] \in {"Pending", "Judging"}
            BY <1>6, <2>3, <3>2, ApiTouches
        <3> QED BY <1>1, <2>3, <3>1, <3>3 DEF UnjudgedHasLiveMessage
    <2> QED BY <2>1, <2>2, <2>3, ApiTouches
<1> QED BY <1>1, <1>4, <1>6 DEF UnjudgedHasLiveMessage

LEMMA NextJudging == UniqueNames /\ JudgingInv /\ [Next]_vars => JudgingInv'
<1> SUFFICES ASSUME UniqueNames, JudgingInv, [Next]_vars PROVE JudgingInv'
    OBVIOUS
<1>1. TypeInv'
    BY NextTypes DEF JudgingInv
<1>2. ASSUME NEW s \in Submissions,
             Insert(s) \/ Publish(s) \/ MarkDemo(s) \/ ApiCrash(s) \/ WriteUnsupported(s)
      PROVE  JudgingInv'
    BY <1>1, <1>2, ApiJudging DEF JudgingInv
<1>3. ASSUME NEW w \in Workers,
             WorkerStep(w) \/ ReadNextResent(w) \/ EngineUnavailable(w) \/ Throw(w)
      PROVE  JudgingInv'
    <2>1. PendingUnderOneName' /\ HoldsItsOwn'
        BY <1>3, WorkerKeepsOwn DEF JudgingInv
    <2>2. UnjudgedHasLiveMessage'
        BY <1>3, WorkerJudging
    <2>3. PublishedAfterInsert'
        BY <1>3, WorkerMoves DEF JudgingInv, PublishedAfterInsert, Published, MessagesOf, Messages
    <2> QED BY <1>1, <2>1, <2>2, <2>3 DEF JudgingInv
<1>4. CASE (\E s \in Submissions : DeleteRow(s)) \/ UNCHANGED vars
    <2>1. UNCHANGED <<stream, cursor, pel, request, step, held>>
        BY <1>4 DEF DeleteRow, vars, workerVars, queueVars
    <2>2. \A s \in Submissions : status'[s] \in {"Pending", "Judging"} => status'[s] = status[s]
        BY <1>4 DEF DeleteRow, vars, rowVars, JudgingInv, TypeInv, TypeOK
    <2>3. \A s : MessagesOf(s)' = MessagesOf(s) /\ (Published(s)' <=> Published(s))
        BY <2>1 DEF MessagesOf, Messages, Published
    <2>4. \A m : Live(m)' <=> Live(m)
        BY <2>1 DEF Live, Concluding
    <2>5. UnjudgedHasLiveMessage'
        BY <2>2, <2>3, <2>4 DEF JudgingInv, UnjudgedHasLiveMessage
    <2>6. PendingUnderOneName' /\ HoldsItsOwn' /\ PublishedAfterInsert'
        BY <2>1, <2>3 DEF JudgingInv, PendingUnderOneName, HoldsItsOwn, PublishedAfterInsert, Busy
    <2> QED BY <1>1, <2>5, <2>6 DEF JudgingInv
<1> QED BY <1>2, <1>3, <1>4 DEF Next, ApiNext, WorkerNext

LEMMA JudgingInvHolds == UniqueNames => (Spec => []JudgingInv)
<1> SUFFICES ASSUME UniqueNames PROVE Spec => []JudgingInv
    OBVIOUS
<1>1. Init => JudgingInv
    <2> SUFFICES ASSUME Init PROVE JudgingInv
        OBVIOUS
    <2>1. Messages = {}
        BY DEF Init, QueueInit, Messages
    <2>2. \A s \in Submissions : ~Published(s)
        BY <2>1 DEF Published, MessagesOf
    <2> QED
        BY <2>2, InitTypes
           DEF Init, QueueInit, JudgingInv, PendingUnderOneName, HoldsItsOwn, Busy,
               PublishedAfterInsert, UnjudgedHasLiveMessage
<1>2. JudgingInv /\ [Next]_vars => JudgingInv'
    BY NextJudging
<1> QED BY <1>1, <1>2, PTL DEF Spec

\* No submission is left unjudged: while one that was published is Pending or
\* Judging, a message of it is unacknowledged, whatever is lost, repeated or
\* dies.  (NothingForgotten says more, of its last update too, and needs that no
\* XADD is repeated.)
THEOREM NothingLeftUnjudged ==
    UniqueNames =>
        (Spec => [](\A s \in Submissions :
                        Published(s) /\ status[s] \in {"Pending", "Judging"} => Unacked(s)))
<1> SUFFICES ASSUME UniqueNames
             PROVE  Spec => [](\A s \in Submissions :
                        Published(s) /\ status[s] \in {"Pending", "Judging"} => Unacked(s))
    OBVIOUS
<1>1. JudgingInv => \A s \in Submissions :
                        Published(s) /\ status[s] \in {"Pending", "Judging"} => Unacked(s)
    <2> SUFFICES ASSUME JudgingInv, NEW s \in Submissions, NEW m \in MessagesOf(s), Live(m)
                 PROVE  ~Acked(m)
        BY DEF JudgingInv, UnjudgedHasLiveMessage, Unacked
    <2>1. m \in Nat /\ cursor \in Nat
        BY DEF JudgingInv, TypeInv, TypeOK, QueueTypeOK, MessagesOf, Messages
    <2> QED BY <2>1 DEF Live, Acked
<1> QED BY <1>1, JudgingInvHolds, PTL

\* The request that creates s is over, and every message of s acknowledged.
Closed(s) == request[s] \notin {"new", "inserted"} /\ ~Unacked(s)

\* A closed submission keeps its verdict, its result rows and its last update;
\* its row can only be deleted.
StaysClosed(s) ==
    Closed(s) =>
        /\ Closed(s)'
        /\ verdict'[s] = verdict[s] /\ said'[s] = said[s]
        /\ \/ status'[s] = status[s] /\ results'[s] = results[s]
           \/ status'[s] = "none" /\ results'[s] = {}

\* Acknowledged messages do not come back.
LEMMA WorkerAcked ==
    ASSUME TypeInv, NEW w \in Workers,
           WorkerStep(w) \/ ReadNextResent(w) \/ EngineUnavailable(w) \/ Throw(w),
           NEW m, Acked(m)
    PROVE  Acked(m)'
<1>1. /\ cursor \in Nat /\ pel \in [Names -> SUBSET (1..cursor)] /\ NameOf[w] \in Names
    BY GradingAssumption DEF TypeInv, TypeOK, QueueTypeOK
<1>2. m \in 1..cursor /\ \A n \in Names : m \notin pel[n]
    BY DEF Acked
<1>3. CASE DeliverNext(NameOf[w])
    BY <1>1, <1>2, <1>3 DEF DeliverNext, Acked
<1>4. CASE AckMessage(w) /\ UNCHANGED cursor
    BY <1>1, <1>2, <1>4 DEF AckMessage, Ack, Acked
<1>5. CASE UNCHANGED <<cursor, pel>>
    BY <1>2, <1>5 DEF Acked
<1> QED BY <1>3, <1>4, <1>5, WorkerPending

\* Once the request is over and its messages are acknowledged, a submission is
\* judged for good: no message comes back, and verdict, result rows and last
\* update stay as they are until the row is deleted, whatever is lost, repeated
\* or dies.  (acknowledgeSubmission is the last thing a consumer does.)
THEOREM JudgedForGood ==
    UniqueNames => (Spec => [][\A s \in Submissions : StaysClosed(s)]_vars)
<1> SUFFICES ASSUME UniqueNames PROVE Spec => [][\A s \in Submissions : StaysClosed(s)]_vars
    OBVIOUS
<1>1. JudgingInv /\ [Next]_vars => [\A s \in Submissions : StaysClosed(s)]_vars
    <2> SUFFICES ASSUME JudgingInv, Next, NEW s \in Submissions, Closed(s)
                 PROVE  /\ Closed(s)'
                        /\ verdict'[s] = verdict[s] /\ said'[s] = said[s]
                        /\ \/ status'[s] = status[s] /\ results'[s] = results[s]
                           \/ status'[s] = "none" /\ results'[s] = {}
        BY DEF StaysClosed
    <2>1. TypeInv /\ request[s] \notin {"new", "inserted"}
          /\ \A m \in MessagesOf(s) : Acked(m)
        BY DEF JudgingInv, Closed, Unacked
    <2>2. ASSUME NEW k \in Submissions,
                 Insert(k) \/ Publish(k) \/ MarkDemo(k) \/ ApiCrash(k) \/ WriteUnsupported(k)
          PROVE  /\ Closed(s)' /\ status'[s] = status[s] /\ verdict'[s] = verdict[s]
                 /\ said'[s] = said[s] /\ results'[s] = results[s]
        <3>1. k # s
            BY <2>1, <2>2, ApiTouches
        <3>2. MessagesOf(s)' = MessagesOf(s)
            <4>1. CASE UNCHANGED stream
                BY <4>1 DEF MessagesOf, Messages
            <4>2. CASE Enqueue(k)
                BY <2>1, <3>1, <4>2, EnqueueAppends DEF MessagesOf
            <4> QED BY <2>1, <2>2, <4>1, <4>2, ApiTouches
        <3>3. \A m \in MessagesOf(s) : Acked(m)'
            BY <2>1, <2>2, ApiTouches DEF Acked
        <3> QED BY <2>1, <2>2, <3>1, <3>2, <3>3, ApiTouches DEF Closed, Unacked
    <2>3. ASSUME NEW w \in Workers,
                 WorkerStep(w) \/ ReadNextResent(w) \/ EngineUnavailable(w) \/ Throw(w)
          PROVE  /\ Closed(s)' /\ status'[s] = status[s] /\ verdict'[s] = verdict[s]
                 /\ said'[s] = said[s] /\ results'[s] = results[s]
        <3>1. MessagesOf(s)' = MessagesOf(s) /\ request'[s] = request[s]
            BY <2>1, <2>3, WorkerMoves DEF MessagesOf, Messages
        <3>2. \A m \in MessagesOf(s) : Acked(m)'
            BY <2>1, <2>3, WorkerAcked
        <3>3. Closed(s)'
            BY <2>1, <3>1, <3>2 DEF Closed, Unacked
        <3>4. ~Busy(w) \/ s # JobOf(w)
            <4> SUFFICES ASSUME Busy(w), s = JobOf(w) PROVE FALSE
                OBVIOUS
            <4>1. held[w] \in MessagesOf(s)
                BY <2>1, JobIsSubmission DEF MessagesOf, JobOf
            <4>2. held[w] \in pel[NameOf[w]] /\ NameOf[w] \in Names
                BY GradingAssumption DEF JudgingInv, HoldsItsOwn
            <4> QED BY <2>1, <4>1, <4>2 DEF Acked
        <3> QED BY <2>1, <2>3, <3>3, <3>4, WorkerRows
    <2>4. ASSUME NEW k \in Submissions, DeleteRow(k)
          PROVE  /\ Closed(s)' /\ verdict'[s] = verdict[s] /\ said'[s] = said[s]
                 /\ \/ status'[s] = status[s] /\ results'[s] = results[s]
                    \/ status'[s] = "none" /\ results'[s] = {}
        <3>1. UNCHANGED <<stream, cursor, pel, request, verdict, said>>
            BY <2>4 DEF DeleteRow, queueVars
        <3>2. Closed(s)'
            BY <3>1 DEF Closed, Unacked, MessagesOf, Messages, Acked
        <3>3. /\ status \in [Submissions -> {"none", "Pending", "Judging", "Done"}]
              /\ results \in [Submissions -> SUBSET Nat]
            BY <2>1 DEF TypeInv, TypeOK
        <3> QED BY <2>4, <3>1, <3>2, <3>3 DEF DeleteRow
    <2> QED BY <2>2, <2>3, <2>4 DEF Next, ApiNext, WorkerNext
<1> QED BY <1>1, JudgingInvHolds, PTL DEF Spec

-----------------------------------------------------------------------------
(* Grading implements SubmissionLifecycle.                                 *)

Stutter == UNCHANGED <<status, verdict, said>>

LEMMA ApiAbstract ==
    ASSUME Verdicts = Int, "resent" \notin Faults, GradingInv, NEW s \in Submissions,
           Insert(s) \/ Publish(s) \/ MarkDemo(s) \/ ApiCrash(s) \/ WriteUnsupported(s)
    PROVE  Stutter \/ Lifecycle!Create(s) \/ Lifecycle!Conclude(s, NotRun)
<1>1. /\ status \in [Submissions -> {"none", "Pending", "Judging", "Done"}]
      /\ verdict \in [Submissions -> Int]
      /\ said \in [Submissions -> [status : {"none", "Judging", "Done"}, verdict : Int]]
    BY DEF GradingInv, TypeInv, TypeOK
<1>2. CASE Insert(s) \/ WriteUnsupported(s)
    <2>1. status[s] = "none"
        BY <1>2 DEF Insert, WriteUnsupported, GradingInv, NoRowYet
    <2> QED BY <1>2, <2>1 DEF Insert, WriteUnsupported, Stutter, Lifecycle!Create
<1>3. CASE Publish(s) \/ ApiCrash(s)
    BY <1>3 DEF Publish, ApiCrash, rowVars, Stutter
<1>4. CASE MarkDemo(s)
    <2>1. \/ Stutter
          \/ SetStatus(s, "Done") /\ SetVerdict(s, NotRun) /\ Unsay(s)
        BY <1>4 DEF MarkDemo, Stutter
    <2>2. CASE SetStatus(s, "Done") /\ SetVerdict(s, NotRun) /\ Unsay(s)
        BY <1>1, <2>2 DEF SetStatus, SetVerdict, Unsay, Stutter, Lifecycle!Conclude
    <2> QED BY <2>1, <2>2
<1> QED BY <1>2, <1>3, <1>4

\* A consumer judges, concludes or announces the submission it holds.
LEMMA WorkerAbstract ==
    ASSUME Verdicts = Int, GradingInv, NEW w \in Workers,
           WorkerStep(w) \/ ReadNextResent(w) \/ EngineUnavailable(w) \/ Throw(w)
    PROVE  Stutter \/ Lifecycle!LifecycleNext
<1> DEFINE s == JobOf(w)
<1>1. /\ status \in [Submissions -> {"none", "Pending", "Judging", "Done"}]
      /\ verdict \in [Submissions -> Int] /\ grade \in [Workers -> Int]
      /\ said \in [Submissions -> [status : {"none", "Judging", "Done"}, verdict : Int]]
    BY DEF GradingInv, TypeInv, TypeOK
<1>2. Busy(w) => s \in Submissions
    BY JobIsSubmission DEF GradingInv
<1>3. CASE \/ ReadOwnPending(w) \/ ReadNext(w) \/ ReadNextResent(w) \/ Load(w) \/ Grade(w)
           \/ BeginSave(w) \/ DeleteResults(w) \/ UpdateRow(w) \/ AckMessage(w)
           \/ EngineUnavailable(w) \/ Throw(w)
    BY <1>3 DEF ReadOwnPending, ReadNext, ReadNextResent, Load, Grade, BeginSave,
                DeleteResults, UpdateRow, AckMessage, EngineUnavailable, Throw, rowVars,
                Stutter
<1>4. CASE MarkJudging(w)
    <2>1. s \in Submissions /\ SetStatus(s, "Judging") /\ Unsay(s) /\ UNCHANGED verdict
        BY <1>2, <1>4 DEF MarkJudging, Busy
    <2>2. Stutter \/ Lifecycle!Judge(s)
        BY <1>1, <2>1 DEF SetStatus, Unsay, Stutter, Lifecycle!Judge
    <2> QED BY <2>1, <2>2 DEF Lifecycle!LifecycleNext
<1>5. CASE SayJudging(w)
    <2>1. /\ s \in Submissions /\ status[s] \in {"none", "Judging"}
          /\ UNCHANGED <<status, verdict>>
          /\ said' = [said EXCEPT ![s] = Lifecycle!Update("Judging", NoVerdict)]
        BY <1>2, <1>5 DEF SayJudging, Busy, GradingInv, TellsTheRow, rowVars
    <2>2. CASE status[s] = "none"
        <3>1. Lifecycle!AnnounceGone(s, Lifecycle!Update("Judging", Lifecycle!NoVerdict))
            BY <2>1, <2>2 DEF Lifecycle!AnnounceGone, Lifecycle!NoVerdict, NoVerdict
        <3> QED BY <2>1, <3>1 DEF Lifecycle!LifecycleNext
    <2>3. CASE status[s] = "Judging"
        <3>1. Lifecycle!Announce(s)
            BY <2>1, <2>3 DEF Lifecycle!Announce, Lifecycle!News, Lifecycle!NoVerdict, NoVerdict
        <3> QED BY <2>1, <3>1 DEF Lifecycle!LifecycleNext
    <2> QED BY <2>1, <2>2, <2>3
<1>6. CASE Commit(w) \/ FailRow(w)
    <2>1. \/ Stutter
          \/ \E v \in Int : SetStatus(s, "Done") /\ SetVerdict(s, v) /\ Unsay(s)
        BY <1>1, <1>6 DEF Commit, FailRow, rowVars, Stutter, InternalError
    <2>2. s \in Submissions
        BY <1>2, <1>6 DEF Commit, FailRow, Busy
    <2>3. ASSUME NEW v \in Int, SetStatus(s, "Done"), SetVerdict(s, v), Unsay(s)
          PROVE  Stutter \/ Lifecycle!Conclude(s, v)
        BY <1>1, <2>2, <2>3 DEF SetStatus, SetVerdict, Unsay, Stutter, Lifecycle!Conclude
    <2> QED BY <2>1, <2>2, <2>3 DEF Lifecycle!LifecycleNext
<1>7. CASE SayDone(w)
    <2>1. /\ s \in Submissions
          /\ status[s] = "none" \/ (status[s] = "Done" /\ verdict[s] = grade[w])
          /\ UNCHANGED <<status, verdict>>
          /\ said' = [said EXCEPT ![s] = Lifecycle!Update("Done", grade[w])]
        BY <1>2, <1>7 DEF SayDone, Busy, GradingInv, TellsTheRow, rowVars
    <2>2. CASE status[s] = "none"
        <3>1. Lifecycle!AnnounceGone(s, Lifecycle!Update("Done", grade[w]))
            BY <2>1, <2>2 DEF Lifecycle!AnnounceGone
        <3> QED BY <1>1, <2>1, <3>1 DEF Lifecycle!LifecycleNext
    <2>3. CASE status[s] = "Done" /\ verdict[s] = grade[w]
        <3>1. Lifecycle!Announce(s)
            BY <2>1, <2>3 DEF Lifecycle!Announce, Lifecycle!News
        <3> QED BY <2>1, <3>1 DEF Lifecycle!LifecycleNext
    <2> QED BY <2>1, <2>2, <2>3
<1> QED BY <1>3, <1>4, <1>5, <1>6, <1>7 DEF WorkerStep

LEMMA NextAbstract ==
    ASSUME Verdicts = Int, "resent" \notin Faults, GradingInv, [Next]_vars
    PROVE  [Lifecycle!LifecycleNext]_(Lifecycle!lifecycleVars)
<1>1. Stutter => UNCHANGED Lifecycle!lifecycleVars
    BY DEF Stutter, Lifecycle!lifecycleVars
<1>2. ASSUME NEW s \in Submissions,
             Insert(s) \/ Publish(s) \/ MarkDemo(s) \/ ApiCrash(s) \/ WriteUnsupported(s)
      PROVE  Stutter \/ Lifecycle!LifecycleNext
    <2>1. NotRun \in Verdicts
        BY DEF NotRun
    <2> QED BY <1>2, <2>1, ApiAbstract DEF Lifecycle!LifecycleNext
<1>3. ASSUME NEW w \in Workers,
             WorkerStep(w) \/ ReadNextResent(w) \/ EngineUnavailable(w) \/ Throw(w)
      PROVE  Stutter \/ Lifecycle!LifecycleNext
    BY <1>3, WorkerAbstract
<1>4. ASSUME NEW s \in Submissions, DeleteRow(s) PROVE Lifecycle!LifecycleNext
    <2>1. Lifecycle!Remove(s)
        BY <1>4 DEF DeleteRow, Lifecycle!Remove
    <2> QED BY <2>1 DEF Lifecycle!LifecycleNext
<1>5. CASE UNCHANGED vars
    BY <1>1, <1>5 DEF vars, rowVars, Stutter
<1> QED BY <1>1, <1>2, <1>3, <1>4, <1>5 DEF Next, ApiNext, WorkerNext

\* Those who hear the updates published about a submission are told what its
\* row says at that moment: the pipeline implements SubmissionLifecycle, for
\* any number of submissions, consumers, gradings and faults, as long as no
\* two consumers read under the same name and no XADD is repeated.
THEOREM UpdatesTellTheRow ==
    Verdicts = Int /\ "resent" \notin Faults /\ UniqueNames => (Spec => ImplementsLifecycle)
<1> SUFFICES ASSUME Verdicts = Int, "resent" \notin Faults, UniqueNames
             PROVE  Spec => ImplementsLifecycle
    OBVIOUS
<1>1. Init => Lifecycle!LifecycleInit
    BY DEF Init
<1>2. GradingInv /\ [Next]_vars => [Lifecycle!LifecycleNext]_(Lifecycle!lifecycleVars)
    BY NextAbstract
<1>3. Spec => []GradingInv
    BY GradingInvariant
<1> QED BY <1>1, <1>2, <1>3, PTL DEF Spec, ImplementsLifecycle, Lifecycle!LifecycleSpec
=============================================================================
