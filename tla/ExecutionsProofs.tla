-------------------------- MODULE ExecutionsProofs --------------------------
(***************************************************************************)
(* Theorems about Executions, for every number of executions, accounts and *)
(* consumers, every cap, quota and TTL, and every set of faults the        *)
(* statement allows.  The bounds MaxTime, LastDay and MaxFaults are        *)
(* arbitrary naturals and play no part in the arguments.                   *)
(***************************************************************************)
EXTENDS Executions, FiniteSetTheorems, TLAPS

-----------------------------------------------------------------------------
(* Types.                                                                  *)

LEMMA InitTypeOK == Init => TypeOK
BY ExecutionsAssumption
   DEF Init, TypeOK, QueueInit, QueueTypeOK, RequestStates, Steps, Active, Terminal, Days

\* Trimming and taking keep the slots a function to expiry times.
LEMMA SlotsType ==
    ASSUME TypeOK, NEW a, NEW e \in Execs
    PROVE  /\ Trim(slot, a) \in [Execs -> Nat]
           /\ Taken(Trim(slot, a), e) \in [Execs -> Nat]
           /\ Quota(e) \in Accounts \X Days
<1>1. Trim(slot, a) \in [Execs -> Nat]
    BY DEF Trim, TypeOK
<1>2. now + TTL \in Nat
    BY ExecutionsAssumption DEF TypeOK
<1>3. Taken(Trim(slot, a), e) \in [Execs -> Nat]
    BY <1>1, <1>2 DEF Taken
<1>4. Quota(e) \in Accounts \X Days
    BY ExecutionsAssumption DEF Quota, TypeOK
<1> QED BY <1>1, <1>3, <1>4

LEMMA ApiTypeOK ==
    ASSUME TypeOK, NEW e \in Execs,
           \/ Validate(e) \/ Acquire(e) \/ AcquireDown(e)
           \/ Insert(e) \/ Publish(e) \/ FailRow(e) \/ Refund(e) \/ ApiCrash(e)
           \/ WriteUnsupported(e)
    PROVE  TypeOK'
<1> DEFINE RequestOK == request \in [Execs -> RequestStates]
           RowOK == row \in [Execs -> {"none"} \cup Active \cup Terminal]
           LimitsOK == slot \in [Execs -> Nat] /\ used \in [Accounts \X Days -> Int]
           StreamOK == stream \in Seq(Jobs) /\ cursor \in 0..Len(stream)
           FaultsOK == faults \in Nat /\ doubts \in Nat
<1>1. RequestOK /\ RowOK /\ LimitsOK /\ StreamOK /\ FaultsOK
    BY DEF TypeOK, QueueTypeOK
<1>2. RequestOK'
    BY <1>1 DEF Validate, Acquire, AcquireDown, Insert, Publish, FailRow,
                Refund, ApiCrash, WriteUnsupported, Goto, RequestStates
<1>3. RowOK'
    BY <1>1 DEF Validate, Acquire, AcquireDown, Insert, Publish, FailRow,
                Refund, ApiCrash, WriteUnsupported, SetStatus, Active, Terminal
<1>4. LimitsOK'
    <2>1. \/ slot' \in {slot, Trim(slot, Owner[e]), Taken(Trim(slot, Owner[e]), e)}
          \/ slot' = [slot EXCEPT ![e] = 0]
        BY DEF Validate, Acquire, AcquireDown, Insert, Publish, FailRow,
               Refund, ApiCrash, WriteUnsupported, Refunded, limitVars
    <2>4. slot' \in [Execs -> Nat]
        <3>1. /\ slot \in [Execs -> Nat]
              /\ Trim(slot, Owner[e]) \in [Execs -> Nat]
              /\ Taken(Trim(slot, Owner[e]), e) \in [Execs -> Nat]
            BY <1>1, SlotsType
        <3>2. [slot EXCEPT ![e] = 0] \in [Execs -> Nat]
            BY <3>1
        <3> QED BY <2>1, <3>1, <3>2
    <2>2. Quota(e) \in Accounts \X Days /\ used[Quota(e)] \in Int
        BY <1>1, SlotsType
    <2>3. used' = used \/ \E n \in Int : used' = [used EXCEPT ![Quota(e)] = n]
        BY <2>2
           DEF Validate, Acquire, AcquireDown, Insert, Publish, FailRow,
               Refund, ApiCrash, WriteUnsupported, Refunded, limitVars
    <2> QED BY <1>1, <2>2, <2>3, <2>4
<1>5. StreamOK'
    <2>1. CASE Enqueue(e) /\ UNCHANGED cursor
        BY <1>1, <2>1, ExecutionsAssumption DEF Enqueue
    <2>2. CASE UNCHANGED <<stream, cursor>>
        BY <1>1, <2>2
    <2> QED
        BY <2>1, <2>2
           DEF Validate, Acquire, AcquireDown, Insert, Publish, FailRow,
               Refund, ApiCrash, WriteUnsupported, queueVars
<1>6. FaultsOK'
    BY <1>1 DEF Validate, Acquire, AcquireDown, Insert, Publish, FailRow,
                Refund, ApiCrash, WriteUnsupported, Fault, faultVars
<1>7. day' \in [Execs -> Days]
    BY DEF Validate, Acquire, AcquireDown, Insert, Publish, FailRow,
           Refund, ApiCrash, WriteUnsupported, TypeOK
<1>8. UNCHANGED <<cursor, pel, workerVars, clockVars>>
    BY DEF Validate, Acquire, AcquireDown, Insert, Publish, FailRow,
           Refund, ApiCrash, WriteUnsupported, queueVars
<1> QED
    BY <1>2, <1>3, <1>4, <1>5, <1>6, <1>7, <1>8
       DEF TypeOK, QueueTypeOK, workerVars, clockVars

LEMMA WorkerTypeOK ==
    ASSUME TypeOK, NEW w \in Workers,
           WorkerStep(w) \/ ReadNextResent(w) \/ EngineUnavailable(w) \/ Throw(w)
    PROVE  TypeOK'
<1> DEFINE StepOK == step \in [Workers -> Steps] /\ held \in [Workers -> Nat]
           RowOK == row \in [Execs -> {"none"} \cup Active \cup Terminal]
           LimitsOK == slot \in [Execs -> Nat] /\ used \in [Accounts \X Days -> Int]
           GroupOK == /\ stream \in Seq(Jobs) /\ cursor \in 0..Len(stream)
                      /\ pel \in [Names -> SUBSET (1..cursor)]
           FaultsOK == faults \in Nat /\ doubts \in Nat
<1>1. RowOK /\ LimitsOK /\ GroupOK /\ FaultsOK
    BY DEF TypeOK, QueueTypeOK
<1>2. StepOK'
    <2>0. StepOK /\ cursor \in Nat /\ Messages \subseteq Nat
        BY DEF TypeOK, QueueTypeOK, Messages
    <2>1. \/ \E m \in Nat : Take(w, m)
          \/ \E next \in Steps : Proceed(w, next)
          \/ Finish(w)
          \/ UNCHANGED workerVars
        <3>1. CASE LoadJob(w)
            BY <3>1 DEF LoadJob, Steps
        <3>2. CASE ~LoadJob(w)
            BY <2>0, <3>2
               DEF WorkerStep, ReadOwnPending, ReadNext, ReadNextResent, MarkRunning, RunOnce,
                   EngineUnavailable, StoreOutcome, ReleaseSlot, AckMessage, Throw, Steps
        <3> QED BY <3>1, <3>2
    <2>2. "load" \in Steps /\ "pending" \in Steps
        BY DEF Steps
    <2> QED BY <2>0, <2>1, <2>2 DEF Take, Proceed, Finish, workerVars
<1>3. RowOK'
    BY <1>1 DEF WorkerStep, ReadOwnPending, ReadNext, ReadNextResent, LoadJob, MarkRunning,
                RunOnce, EngineUnavailable, StoreOutcome, ReleaseSlot, AckMessage, Throw,
                SetStatus, Active, Terminal
<1>4. LimitsOK'
    <2>1. slot' = slot \/ slot' = [slot EXCEPT ![JobOf(w)] = 0]
        BY DEF WorkerStep, ReadOwnPending, ReadNext, ReadNextResent, LoadJob, MarkRunning,
               RunOnce, EngineUnavailable, StoreOutcome, ReleaseSlot, AckMessage, Throw,
               limitVars
    <2>2. UNCHANGED used
        BY DEF WorkerStep, ReadOwnPending, ReadNext, ReadNextResent, LoadJob, MarkRunning,
               RunOnce, EngineUnavailable, StoreOutcome, ReleaseSlot, AckMessage, Throw,
               limitVars
    <2> QED BY <1>1, <2>1, <2>2
<1>5. UNCHANGED <<stream, apiVars, clockVars>>
    BY DEF WorkerStep, ReadOwnPending, ReadNext, ReadNextResent, LoadJob, MarkRunning,
           RunOnce, EngineUnavailable, StoreOutcome, ReleaseSlot, AckMessage, Throw, queueVars
<1>6. GroupOK'
    <2>1. CASE ReadNext(w) \/ ReadNextResent(w)
        <3>1. CASE DeliverNext(NameOf[w])
            <4>1. cursor \in Nat /\ Len(stream) \in Nat
                BY <1>1
            <4>2. cursor' \in 0..Len(stream)
                BY <3>1, <4>1 DEF DeliverNext
            <4>3. \A n \in Names : pel'[n] \in SUBSET (1..cursor')
                BY <1>1, <3>1, <4>1 DEF DeliverNext
            <4> QED BY <1>1, <1>5, <3>1, <4>2, <4>3 DEF DeliverNext
        <3>2. CASE UNCHANGED queueVars
            BY <1>1, <3>2 DEF queueVars
        <3> QED BY <2>1, <3>1, <3>2 DEF ReadNext, ReadNextResent
    <2>2. CASE AckMessage(w)
        BY <1>1, <1>5, <2>2 DEF AckMessage, Ack
    <2> QED
        BY <1>1, <2>1, <2>2
           DEF WorkerStep, ReadOwnPending, LoadJob, MarkRunning, RunOnce,
               EngineUnavailable, StoreOutcome, ReleaseSlot, Throw, queueVars
<1>7. FaultsOK'
    BY <1>1 DEF WorkerStep, ReadOwnPending, ReadNext, ReadNextResent, LoadJob, MarkRunning,
                RunOnce, EngineUnavailable, StoreOutcome, ReleaseSlot, AckMessage, Throw,
                Fault, faultVars
<1> QED
    BY <1>2, <1>3, <1>4, <1>5, <1>6, <1>7
       DEF TypeOK, QueueTypeOK, apiVars, clockVars

LEMMA NextTypeOK == TypeOK /\ [Next]_vars => TypeOK'
<1> SUFFICES ASSUME TypeOK, [Next]_vars PROVE TypeOK'
    OBVIOUS
<1> USE DEF TypeOK, QueueTypeOK, queueVars, apiVars, limitVars, workerVars, clockVars, faultVars
<1>1. CASE ApiNext
    BY <1>1, ApiTypeOK DEF ApiNext
<1>2. CASE WorkerNext
    BY <1>2, WorkerTypeOK DEF WorkerNext
<1>3. CASE Tick
    BY <1>3 DEF Tick
<1>4. ASSUME NEW e \in Execs, DeleteRow(e) PROVE TypeOK'
    BY <1>4 DEF DeleteRow, Fault
<1>5. CASE UNCHANGED vars
    BY <1>5 DEF vars
<1> QED BY <1>1, <1>2, <1>3, <1>4, <1>5 DEF Next

\* Every variable keeps its type, in particular: a pending list only ever
\* holds messages that were delivered.
THEOREM TypeCorrect == Spec => []TypeOK
BY InitTypeOK, NextTypeOK, PTL DEF Spec

-----------------------------------------------------------------------------
(* Nothing is lost.                                                        *)

LEMMA InitDelivery == Init => DeliveryInv
<1> SUFFICES ASSUME Init PROVE DeliveryInv
    OBVIOUS
<1>1. TypeOK
    BY InitTypeOK
<1>2. \A e \in Execs : ~Published(e)
    BY DEF Init, QueueInit, Published, MessagesOf, Messages
<1>3. PendingUnderOneName /\ HoldsItsOwn
    BY DEF Init, QueueInit, PendingUnderOneName, HoldsItsOwn
<1> QED
    BY <1>1, <1>2, <1>3 DEF DeliveryInv, PublishedAfterInsert, UnfinishedHasLiveMessage

\* Publishing a job leaves the messages of the other jobs alone, and the
\* new message is beyond the cursor.
LEMMA EnqueueMessages ==
    ASSUME QueueTypeOK, NEW j \in Jobs, Enqueue(j)
    PROVE  /\ \A k : MessagesOf(k) \subseteq MessagesOf(k)'
           /\ \A k : k # j => MessagesOf(k)' = MessagesOf(k)
           /\ \E m \in MessagesOf(j)' : m > cursor
           /\ \A m \in Messages : m \in Messages' /\ stream'[m] = stream[m]
<1>1. /\ stream \in Seq(Jobs) /\ Len(stream) \in Nat
      /\ cursor \in Nat /\ cursor <= Len(stream)
    BY DEF QueueTypeOK
<1>2. /\ Len(stream') \in Nat /\ Len(stream) < Len(stream')
      /\ \A m \in 1..Len(stream) : stream'[m] = stream[m]
      /\ \A m \in (Len(stream) + 1)..Len(stream') : stream'[m] = j
    BY <1>1 DEF Enqueue
<1>3. \A k : MessagesOf(k) \subseteq MessagesOf(k)'
    BY <1>1, <1>2 DEF MessagesOf, Messages
<1>4. \A k : k # j => MessagesOf(k)' = MessagesOf(k)
    BY <1>1, <1>2 DEF MessagesOf, Messages
<1>5. Len(stream) + 1 \in MessagesOf(j)' /\ Len(stream) + 1 > cursor
    BY <1>1, <1>2 DEF MessagesOf, Messages
<1>6. \A m \in Messages : m \in Messages' /\ stream'[m] = stream[m]
    BY <1>1, <1>2 DEF Messages
<1> QED BY <1>3, <1>4, <1>5, <1>6

\* A message is published after its row was inserted, and the request is
\* past the insert for good.
LEMMA NextPublished ==
    ASSUME TypeOK, PublishedAfterInsert, [Next]_vars
    PROVE  PublishedAfterInsert'
<1> USE ExecutionsAssumption
<1>1. ASSUME NEW e \in Execs,
             \/ Validate(e) \/ Acquire(e) \/ AcquireDown(e)
             \/ Insert(e) \/ Publish(e) \/ FailRow(e) \/ Refund(e) \/ ApiCrash(e)
             \/ WriteUnsupported(e)
      PROVE  PublishedAfterInsert'
    <2>1. \A k \in Execs \ {e} : request'[k] = request[k]
        BY <1>1 DEF TypeOK, Validate, Acquire, AcquireDown, Insert, Publish,
                    FailRow, Refund, ApiCrash, WriteUnsupported, Goto
    <2>2. CASE UNCHANGED stream
        <3>1. \A k \in Execs : Published(k)' <=> Published(k)
            BY <2>2 DEF Published, MessagesOf, Messages
        <3>2. Published(e) =>
                request'[e] \notin {"new", "validated", "acquired"}
            BY <1>1 DEF TypeOK, PublishedAfterInsert, Validate, Acquire, AcquireDown, Insert, Publish, FailRow, Refund, ApiCrash,
                        WriteUnsupported, Goto
        <3> QED BY <2>1, <3>1, <3>2 DEF PublishedAfterInsert
    <2>3. CASE (Publish(e) \/ WriteUnsupported(e)) /\ Enqueue(e)
        <3>1. request'[e] \notin {"new", "validated", "acquired"}
            BY <2>3 DEF TypeOK, Publish, WriteUnsupported, Goto
        <3>2. \A k : k # e => MessagesOf(k)' = MessagesOf(k)
            BY <2>3, EnqueueMessages DEF TypeOK
        <3> QED BY <2>1, <3>1, <3>2 DEF PublishedAfterInsert, Published
    <2> QED
        BY <1>1, <2>2, <2>3
           DEF Validate, Acquire, AcquireDown, Insert, Publish, FailRow,
               Refund, ApiCrash, WriteUnsupported, queueVars
<1>2. ASSUME UNCHANGED <<stream, request>> PROVE PublishedAfterInsert'
    BY <1>2 DEF PublishedAfterInsert, Published, MessagesOf, Messages
<1>3. ASSUME NEW w \in Workers,
             WorkerStep(w) \/ ReadNextResent(w) \/ EngineUnavailable(w) \/ Throw(w)
      PROVE  UNCHANGED <<stream, request>>
    BY <1>3 DEF WorkerStep, ReadOwnPending, ReadNext, ReadNextResent, LoadJob, MarkRunning,
                RunOnce, EngineUnavailable, StoreOutcome, ReleaseSlot, AckMessage, Throw,
                queueVars, apiVars
<1>4. CASE Tick \/ (\E e \in Execs : DeleteRow(e)) \/ UNCHANGED vars
    BY <1>2, <1>4 DEF Tick, DeleteRow, vars, queueVars, apiVars
<1> QED BY <1>1, <1>2, <1>3, <1>4 DEF Next, ApiNext, WorkerNext

\* Steps that do not publish, make no row active and keep every live message
\* live preserve the last conjunct.
LEMMA LiveFrame ==
    ASSUME UnfinishedHasLiveMessage, UNCHANGED stream,
           \A e \in Execs : Published(e) /\ row'[e] \in Active => row[e] \in Active,
           \A e \in Execs : \A m \in MessagesOf(e) :
               row'[e] \in Active /\ Live(m) => Live(m)'
    PROVE  UnfinishedHasLiveMessage'
BY DEF UnfinishedHasLiveMessage, Published, MessagesOf, Messages

LEMMA ApiDelivery ==
    ASSUME DeliveryInv, NEW e \in Execs,
           \/ Validate(e) \/ Acquire(e) \/ AcquireDown(e)
           \/ Insert(e) \/ Publish(e) \/ FailRow(e) \/ Refund(e) \/ ApiCrash(e)
           \/ WriteUnsupported(e)
    PROVE  PendingUnderOneName' /\ HoldsItsOwn' /\ UnfinishedHasLiveMessage'
<1> USE ExecutionsAssumption
<1>2. UNCHANGED <<cursor, pel, step, held>>
    BY DEF Validate, Acquire, AcquireDown, Insert, Publish, FailRow,
           Refund, ApiCrash, WriteUnsupported, queueVars, workerVars
<1>3. PendingUnderOneName' /\ HoldsItsOwn'
    BY <1>2 DEF DeliveryInv, PendingUnderOneName, HoldsItsOwn
<1>4. \A m : Live(m)' <=> Live(m)
    BY <1>2 DEF Live, Finishing
<1>5. CASE \/ Publish(e) /\ UNCHANGED stream
           \/ ~Publish(e) /\ ~WriteUnsupported(e)
    <2>1. UNCHANGED stream
        BY <1>5 DEF Validate, Acquire, AcquireDown, Insert, FailRow,
                    Refund, ApiCrash, queueVars
    <2>4. \A k \in Execs : Published(k) /\ row'[k] \in Active => row[k] \in Active
        BY <1>5 DEF DeliveryInv, TypeOK, PublishedAfterInsert, Validate, Acquire,
                    AcquireDown, Insert, Publish, FailRow, Refund, ApiCrash,
                    SetStatus, Active
    <2>5. UnfinishedHasLiveMessage'
        BY <1>4, <2>1, <2>4, LiveFrame DEF DeliveryInv
    <2> QED BY <1>3, <2>5
<1>6. CASE (Publish(e) \/ WriteUnsupported(e)) /\ Enqueue(e)
    <2>1. /\ \A k : MessagesOf(k) \subseteq MessagesOf(k)'
          /\ \A k : k # e => MessagesOf(k)' = MessagesOf(k)
          /\ \E m \in MessagesOf(e)' : m > cursor
        BY <1>6, EnqueueMessages DEF DeliveryInv, TypeOK
    <2>2. \A k \in Execs \ {e} : row'[k] = row[k]
        BY <1>6 DEF DeliveryInv, TypeOK, Publish, WriteUnsupported
    <2>5. UnfinishedHasLiveMessage'
        <3>1. \E m \in MessagesOf(e)' : Live(m)'
            BY <1>2, <2>1 DEF Live
        <3>2. ASSUME NEW k \in Execs \ {e}, Published(k)', row'[k] \in Active
              PROVE  \E m \in MessagesOf(k)' : Live(m)'
            BY <1>4, <2>1, <2>2, <3>2 DEF DeliveryInv, UnfinishedHasLiveMessage, Published
        <3> QED BY <3>1, <3>2 DEF UnfinishedHasLiveMessage
    <2> QED BY <1>3, <2>5
<1> QED BY <1>3, <1>5, <1>6 DEF Publish, WriteUnsupported

\* Only the oldest pending message of its own name is taken up again.
LEMMA ReadOwnPendingDelivery ==
    ASSUME DeliveryInv, NEW w \in Workers, ReadOwnPending(w)
    PROVE  HoldsItsOwn' /\ UnfinishedHasLiveMessage'
<1>1. UNCHANGED <<stream, cursor, pel, row>> /\ ~Finishing(w)'
    BY DEF ReadOwnPending, queueVars, Take, Proceed, Finishing, DeliveryInv, TypeOK
<1>2. \A v \in Workers \ {w} : step'[v] = step[v] /\ held'[v] = held[v]
    BY DEF ReadOwnPending, Take, Proceed, DeliveryInv, TypeOK
<1>3. step'[w] \notin {"pending", "next"} => held'[w] \in pel[NameOf[w]]
    BY DEF ReadOwnPending, Take, Proceed, DeliveryInv, TypeOK, OldestPending
<1>4. HoldsItsOwn'
    BY <1>1, <1>2, <1>3 DEF HoldsItsOwn, DeliveryInv
<1>5. \A m : Live(m) => Live(m)'
    BY <1>1, <1>2 DEF Live, Finishing
<1> QED BY <1>1, <1>4, <1>5, LiveFrame DEF DeliveryInv

\* New deliveries: they enter the pending list of the reader and nobody
\* holds them yet.
LEMMA ReadNextDelivery ==
    ASSUME DeliveryInv, NEW w \in Workers, ReadNext(w) \/ ReadNextResent(w)
    PROVE  PendingUnderOneName' /\ HoldsItsOwn' /\ UnfinishedHasLiveMessage'
<1> USE ExecutionsAssumption
<1>1. /\ UNCHANGED <<stream, row>>
      /\ cursor \in Nat /\ pel \in [Names -> SUBSET (1..cursor)]
      /\ step \in [Workers -> Steps] /\ held \in [Workers -> Nat]
    BY DEF ReadNext, ReadNextResent, queueVars, DeliveryInv, TypeOK, QueueTypeOK
<1> DEFINE new == (cursor + 1)..cursor'
<1>2. /\ cursor' \in Nat /\ cursor <= cursor'
      /\ pel' = [pel EXCEPT ![NameOf[w]] = @ \cup new]
      /\ \A v \in Workers \ {w} : step'[v] = step[v] /\ held'[v] = held[v]
      /\ \/ step'[w] = "load" /\ held'[w] \in new
         \/ step'[w] \in {"pending", "next"}
    <2>1. CASE ReadNext(w) /\ cursor < Len(stream)
        <3>1. cursor' = cursor + 1
            BY <2>1 DEF ReadNext, DeliverNext
        <3>2. new = {cursor + 1}
            BY <1>1, <3>1
        <3>3. Take(w, cursor + 1) /\ DeliverNext(NameOf[w])
            BY <2>1 DEF ReadNext
        <3> QED BY <1>1, <3>1, <3>2, <3>3 DEF DeliverNext, Take
    <2>2. CASE ReadNext(w) /\ ~(cursor < Len(stream))
        <3>1. cursor' = cursor /\ pel' = pel /\ Finish(w)
            BY <2>2 DEF ReadNext, queueVars
        <3>2. new = {}
            BY <1>1, <3>1
        <3>3. pel' = [pel EXCEPT ![NameOf[w]] = @ \cup {}]
            BY <1>1, <3>1
        <3>4. pel' = [pel EXCEPT ![NameOf[w]] = @ \cup new]
            BY <3>2, <3>3
        <3>5. /\ \A v \in Workers \ {w} : step'[v] = step[v] /\ held'[v] = held[v]
              /\ step'[w] = "pending"
            BY <1>1, <3>1 DEF Finish
        <3>6. cursor' \in Nat /\ cursor <= cursor'
            BY <1>1, <3>1
        <3> QED BY <3>4, <3>5, <3>6
    <2>3. CASE ReadNextResent(w)
        <3>1. cursor' = cursor + 1
            BY <2>3 DEF ReadNextResent, DeliverNext
        <3>2. new = {cursor + 1}
            BY <1>1, <3>1
        <3>3. DeliverNext(NameOf[w]) /\ UNCHANGED workerVars /\ step[w] = "next"
            BY <2>3 DEF ReadNextResent
        <3> QED BY <1>1, <3>1, <3>2, <3>3 DEF DeliverNext, workerVars
    <2> QED BY <2>1, <2>2, <2>3
<1>3. PendingUnderOneName'
    <2>1. \A n \in Names : pel[n] \cap new = {}
        BY <1>1, <1>2
    <2> QED BY <1>1, <1>2, <2>1 DEF PendingUnderOneName, DeliveryInv
<1>4. HoldsItsOwn'
    BY <1>1, <1>2 DEF HoldsItsOwn, DeliveryInv
<1>5. ASSUME NEW e \in Execs, NEW m \in MessagesOf(e), Live(m) PROVE Live(m)'
    <2>1. m \in Nat /\ ~Finishing(w)'
        BY <1>1, <1>2 DEF MessagesOf, Messages, DeliveryInv, TypeOK, QueueTypeOK, Finishing
    <2>2. CASE m > cursor
        <3>1. \A v \in Workers : Finishing(v)' => held'[v] # m
            <4>1. ASSUME NEW v \in Workers, Finishing(v)' PROVE held'[v] \in 1..cursor
                BY <1>1, <1>2, <2>1, <4>1 DEF Finishing, HoldsItsOwn, DeliveryInv
            <4> QED BY <1>1, <2>1, <2>2, <4>1
        <3>2. m > cursor' \/ m \in new
            BY <1>1, <1>2, <2>1, <2>2
        <3> QED BY <1>1, <1>2, <3>1, <3>2 DEF Live
    <2>3. CASE ~(m > cursor)
        BY <1>1, <1>2, <1>5, <2>1, <2>3 DEF Live, Finishing
    <2> QED BY <2>2, <2>3
<1> QED BY <1>1, <1>3, <1>4, <1>5, LiveFrame DEF DeliveryInv

\* The job steps: w works on its message and leaves the others alone.
LEMMA JobStepDelivery ==
    ASSUME DeliveryInv, UniqueNames, NEW w \in Workers,
           \/ LoadJob(w) \/ MarkRunning(w) \/ RunOnce(w) \/ EngineUnavailable(w)
           \/ StoreOutcome(w) \/ ReleaseSlot(w) \/ Throw(w)
    PROVE  HoldsItsOwn' /\ UnfinishedHasLiveMessage'
<1> USE ExecutionsAssumption
<1>1. /\ UNCHANGED <<stream, cursor, pel>>
      /\ \A v \in Workers \ {w} : step'[v] = step[v] /\ held'[v] = held[v]
      /\ step'[w] = "pending" \/ held'[w] = held[w]
      /\ step[w] \notin {"pending", "next"} \/ step'[w] = "pending"
    BY DEF LoadJob, MarkRunning, RunOnce, EngineUnavailable, StoreOutcome, ReleaseSlot,
           Throw, Proceed, Finish, queueVars, DeliveryInv, TypeOK
<1>2. HoldsItsOwn'
    BY <1>1 DEF HoldsItsOwn, DeliveryInv
<1>3. CASE MarkRunning(w)
    <2>1. \A v \in Workers : Finishing(v)' <=> Finishing(v)
        BY <1>1, <1>3 DEF MarkRunning, Proceed, Finishing, DeliveryInv, TypeOK
    <2>2. \A m : Live(m) => Live(m)'
        BY <1>1, <1>3, <2>1 DEF Live, Finishing, MarkRunning, Proceed
    <2>3. held[w] \in pel[NameOf[w]] /\ ~Finishing(w)
        BY <1>3 DEF MarkRunning, HoldsItsOwn, DeliveryInv, Finishing
    <2>4. \A v \in Workers : Finishing(v) => held[v] # held[w]
        <3>1. SUFFICES ASSUME NEW v \in Workers, Finishing(v) PROVE held[v] # held[w]
            OBVIOUS
        <3>2. held[v] \in pel[NameOf[v]] /\ NameOf[v] # NameOf[w]
            BY <2>3, <3>1 DEF HoldsItsOwn, DeliveryInv, Finishing, UniqueNames
        <3> QED BY <2>3, <3>2 DEF PendingUnderOneName, DeliveryInv
    <2>5. \E m \in MessagesOf(JobOf(w)) : Live(m)'
        <3>1. held[w] \in Messages
            BY <2>3 DEF DeliveryInv, TypeOK, QueueTypeOK, Messages
        <3>2. Live(held[w])
            BY <2>3, <2>4 DEF Live
        <3>3. held[w] \in MessagesOf(JobOf(w))
            BY <3>1 DEF MessagesOf, JobOf
        <3> QED BY <2>2, <3>2, <3>3
    <2>6. \A e \in Execs : e # JobOf(w) => row'[e] = row[e]
        BY <1>3 DEF MarkRunning, SetStatus, DeliveryInv, TypeOK
    <2>7. \A e \in Execs : MessagesOf(e)' = MessagesOf(e) /\ Published(e)' = Published(e)
        BY <1>1 DEF Published, MessagesOf, Messages
    <2>8. ASSUME NEW e \in Execs, Published(e), row'[e] \in Active
          PROVE  \E m \in MessagesOf(e) : Live(m)'
        <3>1. CASE e = JobOf(w)
            BY <2>5, <3>1
        <3>2. CASE e # JobOf(w)
            BY <2>2, <2>6, <2>8, <3>2 DEF UnfinishedHasLiveMessage, DeliveryInv
        <3> QED BY <3>1, <3>2
    <2> QED BY <1>2, <2>7, <2>8 DEF UnfinishedHasLiveMessage
<1>4. CASE ~MarkRunning(w)
    <2>1. \A e \in Execs : row'[e] \in Active => row[e] = row'[e]
        BY <1>4 DEF LoadJob, RunOnce, EngineUnavailable, StoreOutcome, ReleaseSlot, Throw,
                    SetStatus, Active, DeliveryInv, TypeOK
    <2>2. ASSUME NEW e \in Execs, NEW m \in MessagesOf(e), row'[e] \in Active, Live(m)
          PROVE  Live(m)'
        <3>1. CASE Finishing(w)' => Finishing(w)
            BY <1>1, <2>2, <3>1 DEF Live, Finishing
        <3>2. CASE Finishing(w)' /\ ~Finishing(w)
            <4>1. LoadJob(w) \/ StoreOutcome(w)
                BY <1>4, <3>2
                   DEF RunOnce, EngineUnavailable, ReleaseSlot, Throw, Proceed, Finish,
                       Finishing, DeliveryInv, TypeOK
            <4>3. held' = held /\ JobOf(w) \in Execs
                <5>1. held[w] \in pel[NameOf[w]]
                    BY <4>1 DEF LoadJob, StoreOutcome, HoldsItsOwn, DeliveryInv
                <5>2. stream[held[w]] \in Jobs
                    BY <5>1 DEF DeliveryInv, TypeOK, QueueTypeOK
                <5> QED BY <4>1, <5>2 DEF LoadJob, StoreOutcome, Proceed, JobOf
            <4>4. LoadJob(w) => ~(row'[JobOf(w)] \in Active)
                BY <3>2, <4>3
                   DEF LoadJob, Proceed, Finishing, Active, DeliveryInv, TypeOK
            <4>5. StoreOutcome(w) => ~(row'[JobOf(w)] \in Active)
                BY <4>3 DEF StoreOutcome, SetStatus, Active, DeliveryInv, TypeOK
            <4>6. ~(row'[JobOf(w)] \in Active)
                BY <4>1, <4>4, <4>5
            <4>2. held'[w] # m
                BY <2>2, <4>3, <4>6 DEF MessagesOf, JobOf
            <4> QED BY <1>1, <2>2, <4>2 DEF Live, Finishing
        <3> QED BY <3>1, <3>2
    <2> QED BY <1>1, <1>2, <2>1, <2>2, LiveFrame DEF DeliveryInv
<1> QED BY <1>3, <1>4

\* Acknowledging: the message was not live any more.
LEMMA AckDelivery ==
    ASSUME DeliveryInv, UniqueNames, NEW w \in Workers, AckMessage(w)
    PROVE  PendingUnderOneName' /\ HoldsItsOwn' /\ UnfinishedHasLiveMessage'
<1> USE ExecutionsAssumption
<1>1. /\ UNCHANGED <<stream, cursor, row>> /\ step'[w] = "pending" /\ Finishing(w)
      /\ \A v \in Workers \ {w} : step'[v] = step[v] /\ held'[v] = held[v]
    BY DEF AckMessage, Finish, Finishing, DeliveryInv, TypeOK
<1>2. \A n \in Names : pel'[n] = pel[n] \ {held[w]}
    BY DEF AckMessage, Ack
<1>3. PendingUnderOneName'
    BY <1>2 DEF PendingUnderOneName, DeliveryInv
<1>4. HoldsItsOwn'
    <2>1. SUFFICES ASSUME NEW v \in Workers, step'[v] \notin {"pending", "next"}
                   PROVE  held'[v] \in pel'[NameOf[v]]
        BY DEF HoldsItsOwn
    <2>2. v # w /\ held'[v] \in pel[NameOf[v]] /\ held[w] \in pel[NameOf[w]]
        BY <1>1, <2>1 DEF HoldsItsOwn, DeliveryInv, Finishing
    <2>3. held'[v] # held[w]
        BY <2>2 DEF UniqueNames, PendingUnderOneName, DeliveryInv
    <2> QED BY <1>2, <2>2, <2>3
<1>5. ASSUME NEW m, Live(m) PROVE Live(m)'
    BY <1>1, <1>2, <1>5 DEF Live, Finishing
<1> QED BY <1>1, <1>3, <1>4, <1>5, LiveFrame DEF DeliveryInv

LEMMA NextDelivery == UniqueNames /\ DeliveryInv /\ [Next]_vars => DeliveryInv'
<1> SUFFICES ASSUME UniqueNames, DeliveryInv, [Next]_vars PROVE DeliveryInv'
    OBVIOUS
<1>1. TypeOK'
    BY NextTypeOK DEF DeliveryInv
<1>5. PublishedAfterInsert'
    BY NextPublished DEF DeliveryInv
<1>2. CASE ApiNext
    BY <1>1, <1>2, <1>5, ApiDelivery DEF ApiNext, DeliveryInv
<1>3. CASE WorkerNext
    <2>1. PICK w \in Workers :
            WorkerStep(w) \/ ReadNextResent(w) \/ EngineUnavailable(w) \/ Throw(w)
        BY <1>3 DEF WorkerNext
    <2>4. UNCHANGED pel => PendingUnderOneName'
        BY DEF PendingUnderOneName, DeliveryInv
    <2>5. PendingUnderOneName' /\ HoldsItsOwn' /\ UnfinishedHasLiveMessage'
        <3>1. CASE ReadOwnPending(w)
            BY <2>4, <3>1, ReadOwnPendingDelivery DEF ReadOwnPending, queueVars
        <3>2. CASE ReadNext(w) \/ ReadNextResent(w)
            BY <3>2, ReadNextDelivery
        <3>3. CASE \/ LoadJob(w) \/ MarkRunning(w) \/ RunOnce(w) \/ EngineUnavailable(w)
                   \/ StoreOutcome(w) \/ ReleaseSlot(w) \/ Throw(w)
            <4>1. UNCHANGED pel
                BY <3>3 DEF LoadJob, MarkRunning, RunOnce, EngineUnavailable, StoreOutcome,
                            ReleaseSlot, Throw, queueVars
            <4> QED BY <2>4, <3>3, <4>1, JobStepDelivery
        <3>4. CASE AckMessage(w)
            BY <3>4, AckDelivery
        <3> QED BY <2>1, <3>1, <3>2, <3>3, <3>4 DEF WorkerStep
    <2> QED BY <1>1, <1>5, <2>5 DEF DeliveryInv
<1>4. ASSUME \/ Tick
             \/ \E e \in Execs : DeleteRow(e)
             \/ UNCHANGED vars
      PROVE  DeliveryInv'
    <2>1. UNCHANGED <<queueVars, workerVars>>
        BY <1>4 DEF Tick, DeleteRow, vars
    <2>2. \A e \in Execs : row'[e] \in Active => row[e] \in Active
        BY <1>4 DEF Tick, DeleteRow, vars, Active, DeliveryInv, TypeOK
    <2>3. \A m : Live(m) => Live(m)'
        BY <2>1 DEF Live, Finishing, queueVars, workerVars
    <2>4. PendingUnderOneName' /\ HoldsItsOwn'
        BY <2>1 DEF PendingUnderOneName, HoldsItsOwn, DeliveryInv, queueVars, workerVars
    <2>5. UnfinishedHasLiveMessage'
        BY <2>1, <2>2, <2>3, LiveFrame DEF DeliveryInv, queueVars
    <2> QED BY <1>1, <1>5, <2>4, <2>5 DEF DeliveryInv
<1> QED BY <1>2, <1>3, <1>4 DEF Next

\* Nothing is silently lost: while a published execution is queued or
\* running, some message that names it is unacknowledged, whichever commands
\* throw or are repeated and whichever processes crash, as long as no two
\* consumers read under the same name.
THEOREM NothingIsLost == UniqueNames => (Spec => []NothingLost)
<1>1. UniqueNames /\ DeliveryInv => NothingLost
    BY DEF DeliveryInv, TypeOK, QueueTypeOK, UnfinishedHasLiveMessage, Live, Acked,
           NothingLost, MessagesOf, Messages
<1>2. CASE UniqueNames
    BY <1>1, <1>2, InitDelivery, NextDelivery, PTL DEF Spec
<1> QED BY <1>2

-----------------------------------------------------------------------------
(* The slot is freed before the message is acknowledged.                   *)

\* Unpublished executions are the only ones whose row appears or whose slot
\* is taken: the API is done with both when a message exists.
LEMMA PublishedSlotAndRow ==
    ASSUME TypeOK, PublishedAfterInsert, [Next]_vars,
           NEW e \in Execs, Published(e)
    PROVE  /\ row[e] = "none" => row'[e] = "none"
           /\ slot[e] = 0 => slot'[e] = 0
<1> USE DEF TypeOK
<1>1. request[e] \notin {"new", "validated", "acquired"}
    BY DEF PublishedAfterInsert
<1>2. ASSUME NEW k \in Execs,
             \/ Validate(k) \/ Acquire(k) \/ AcquireDown(k)
             \/ Insert(k) \/ Publish(k) \/ FailRow(k) \/ Refund(k) \/ ApiCrash(k)
             \/ WriteUnsupported(k)
      PROVE  /\ row[e] = "none" => row'[e] = "none"
             /\ slot[e] = 0 => slot'[e] = 0
    <2>1. row[e] = "none" => row'[e] = "none"
        BY <1>1, <1>2
           DEF Validate, Acquire, AcquireDown, Insert, Publish, FailRow,
               Refund, ApiCrash, WriteUnsupported, SetStatus
    <2>2. /\ Acquire(k) => k # e
          /\ \/ slot' = slot
             \/ slot' = [slot EXCEPT ![k] = 0]
             \/ slot' = Trim(slot, Owner[k])
             \/ slot' = Taken(Trim(slot, Owner[k]), k) /\ k # e
        BY <1>1, <1>2
           DEF Validate, Acquire, AcquireDown, Insert, Publish, FailRow,
               Refund, ApiCrash, WriteUnsupported, Refunded, limitVars
    <2>3. slot[e] = 0 => Trim(slot, Owner[k])[e] = 0
        BY DEF Trim
    <2>4. k # e => Taken(Trim(slot, Owner[k]), k)[e] = Trim(slot, Owner[k])[e]
        BY SlotsType DEF Taken
    <2> QED BY <2>1, <2>2, <2>3, <2>4
<1>3. ASSUME NEW w \in Workers,
             WorkerStep(w) \/ ReadNextResent(w) \/ EngineUnavailable(w) \/ Throw(w)
      PROVE  /\ row[e] = "none" => row'[e] = "none"
             /\ slot[e] = 0 => slot'[e] = 0
    BY <1>3 DEF WorkerStep, ReadOwnPending, ReadNext, ReadNextResent, LoadJob, MarkRunning,
                RunOnce, EngineUnavailable, StoreOutcome, ReleaseSlot, AckMessage, Throw,
                SetStatus, limitVars
<1>4. CASE Tick \/ (\E k \in Execs : DeleteRow(k)) \/ UNCHANGED vars
    BY <1>4 DEF Tick, DeleteRow, vars, limitVars
<1> QED BY <1>2, <1>3, <1>4 DEF Next, ApiNext, WorkerNext

LEMMA InitRelease == Init => ReleaseInv
<1> SUFFICES ASSUME Init PROVE ReleaseInv
    OBVIOUS
<1>1. TypeOK
    BY InitTypeOK
<1>2. Messages = {} /\ \A e \in Execs : ~Published(e)
    BY DEF Init, QueueInit, Published, MessagesOf, Messages
<1> QED
    BY <1>1, <1>2
       DEF ReleaseInv, PublishedAfterInsert, ReleasedWhenAcking, ReleasedBeforeAck, Init

LEMMA NextRelease == ReleaseInv /\ [Next]_vars => ReleaseInv'
<1> SUFFICES ASSUME ReleaseInv, [Next]_vars PROVE ReleaseInv'
    OBVIOUS
<1> USE ExecutionsAssumption
<1>1. TypeOK /\ QueueTypeOK /\ TypeOK' /\ PublishedAfterInsert'
    BY NextTypeOK, NextPublished DEF ReleaseInv, TypeOK
\* An execution without row or slot stays so once it is published.
<1> DEFINE Released(e) == row[e] = "none" \/ slot[e] = 0
<1>2. ASSUME NEW e \in Execs, Published(e)
      PROVE  (row[e] = "none" => row'[e] = "none") /\ (Released(e) => Released(e)')
    BY <1>2, PublishedSlotAndRow DEF ReleaseInv
<1>3. \A m \in Messages : m \in Messages' /\ stream'[m] = stream[m]
    <2>1. CASE UNCHANGED stream
        BY <2>1 DEF Messages
    <2>2. ASSUME NEW e \in Execs, Enqueue(e)
          PROVE  \A m \in Messages : m \in Messages' /\ stream'[m] = stream[m]
        BY <1>1, <2>2, EnqueueMessages
    <2>3. ASSUME NEW e \in Execs,
                 \/ Validate(e) \/ Acquire(e) \/ AcquireDown(e)
                 \/ Insert(e) \/ Publish(e) \/ FailRow(e) \/ Refund(e) \/ ApiCrash(e)
                 \/ WriteUnsupported(e)
          PROVE  UNCHANGED stream \/ Enqueue(e)
        BY <2>3 DEF Validate, Acquire, AcquireDown, Insert, Publish, FailRow,
                    Refund, ApiCrash, WriteUnsupported, queueVars
    <2>4. ASSUME NEW w \in Workers,
                 WorkerStep(w) \/ ReadNextResent(w) \/ EngineUnavailable(w) \/ Throw(w)
          PROVE  UNCHANGED stream
        BY <2>4 DEF WorkerStep, ReadOwnPending, ReadNext, ReadNextResent, LoadJob,
                    MarkRunning, RunOnce, EngineUnavailable, StoreOutcome, ReleaseSlot,
                    AckMessage, Throw, queueVars
    <2>5. CASE Tick \/ (\E e \in Execs : DeleteRow(e)) \/ UNCHANGED vars
        BY <2>1, <2>5 DEF Tick, DeleteRow, vars, queueVars
    <2> QED BY <2>1, <2>2, <2>3, <2>4, <2>5 DEF Next, ApiNext, WorkerNext
<1>4. \A m \in Messages : stream[m] \in Execs /\ Published(stream[m])
    BY <1>1 DEF QueueTypeOK, Messages, Published, MessagesOf
\* What a step does to the consumers: the consumer that acts, if any, either
\* keeps its message or starts over.
<1> DEFINE WorkerActs(w) ==
        WorkerStep(w) \/ ReadNextResent(w) \/ EngineUnavailable(w) \/ Throw(w)
<1>5. CASE ~WorkerNext
    <2>1. UNCHANGED <<cursor, pel, step, held>>
        <3>1. ASSUME NEW e \in Execs,
                     \/ Validate(e) \/ Acquire(e) \/ AcquireDown(e)
                     \/ Insert(e) \/ Publish(e) \/ FailRow(e) \/ Refund(e)
                     \/ ApiCrash(e) \/ WriteUnsupported(e)
              PROVE  UNCHANGED <<cursor, pel, step, held>>
            BY <3>1 DEF Validate, Acquire, AcquireDown, Insert, Publish,
                        FailRow, Refund, ApiCrash, WriteUnsupported, queueVars, workerVars
        <3>2. CASE Tick \/ (\E e \in Execs : DeleteRow(e)) \/ UNCHANGED vars
            BY <3>2 DEF Tick, DeleteRow, vars, queueVars, workerVars
        <3> QED BY <1>5, <3>1, <3>2 DEF Next, ApiNext
    <2>2. ReleasedWhenAcking'
        <3>1. ASSUME NEW w \in Workers, step[w] \notin {"pending", "next"}
              PROVE  held[w] \in Messages /\ JobOf(w)' = JobOf(w)
            BY <1>1, <1>3, <2>1, <3>1
               DEF ReleaseInv, ReleasedWhenAcking, Messages, QueueTypeOK, JobOf
        <3> QED
            BY <1>2, <1>4, <2>1, <3>1 DEF ReleaseInv, ReleasedWhenAcking, JobOf
    <2>3. ReleasedBeforeAck'
        <3>1. \A m \in Messages' : Acked(m)' => m \in Messages /\ Acked(m)
            BY <1>1, <2>1 DEF Acked, Messages, QueueTypeOK
        <3> QED BY <1>2, <1>3, <1>4, <3>1 DEF ReleaseInv, ReleasedBeforeAck
    <2> QED BY <1>1, <2>2, <2>3 DEF ReleaseInv
<1>6. ASSUME NEW w \in Workers, WorkerActs(w) PROVE ReleaseInv'
    <2>1. UNCHANGED stream /\ \A v \in Workers \ {w} : step'[v] = step[v] /\ held'[v] = held[v]
        BY <1>1, <1>6
           DEF WorkerStep, ReadOwnPending, ReadNext, ReadNextResent, LoadJob, MarkRunning,
               RunOnce, EngineUnavailable, StoreOutcome, ReleaseSlot, AckMessage, Throw,
               queueVars, workerVars, Take, Proceed, Finish, TypeOK
    <2>2. cursor \in Nat /\ cursor' \in Nat /\ cursor <= cursor'
        BY <1>1, <1>6
           DEF WorkerStep, ReadOwnPending, ReadNext, ReadNextResent, LoadJob, MarkRunning,
               RunOnce, EngineUnavailable, StoreOutcome, ReleaseSlot, AckMessage, Throw,
               queueVars, DeliverNext, QueueTypeOK, TypeOK
    <2>3. \A v \in Workers : step[v] \notin {"pending", "next"} => held[v] \in Messages
        BY <1>1 DEF ReleaseInv, ReleasedWhenAcking, Messages, QueueTypeOK
    <2>4. step'[w] \notin {"pending", "next"} => held'[w] \in 1..cursor'
        <3>1. CASE ReadOwnPending(w)
            BY <1>1, <2>2, <3>1 DEF ReadOwnPending, Take, Proceed, OldestPending, TypeOK,
                                    QueueTypeOK, queueVars
        <3>2. CASE ReadNext(w) \/ ReadNextResent(w)
            BY <1>1, <2>2, <3>2 
               DEF ReadNext, ReadNextResent, DeliverNext, Take, Finish, TypeOK, workerVars
        <3>3. CASE ~ReadOwnPending(w) /\ ~ReadNext(w) /\ ~ReadNextResent(w)
            BY <1>1, <1>6, <2>2, <3>3
               DEF WorkerStep, LoadJob, MarkRunning, RunOnce, EngineUnavailable,
                   StoreOutcome, ReleaseSlot, AckMessage, Throw, Proceed, Finish, TypeOK,
                   ReleaseInv, ReleasedWhenAcking
        <3> QED BY <3>1, <3>2, <3>3
    <2>5. /\ step'[w] = "drop" => row'[JobOf(w)] = "none" /\ held'[w] = held[w]
          /\ step'[w] = "ack" => slot'[JobOf(w)] = 0 /\ held'[w] = held[w]
        <3>1. CASE ReleaseSlot(w)
            <4>1. JobOf(w) \in Execs
                BY <1>4, <2>3, <3>1 DEF ReleaseSlot, JobOf
            <4> QED BY <1>1, <3>1, <4>1 DEF ReleaseSlot, Proceed, TypeOK
        <3>2. CASE ~ReleaseSlot(w)
            BY <1>1, <1>6, <3>2
               DEF WorkerStep, ReadOwnPending, ReadNext, ReadNextResent, LoadJob, MarkRunning,
                   RunOnce, EngineUnavailable, StoreOutcome, AckMessage, Throw,
                   Take, Proceed, Finish, TypeOK, workerVars
        <3> QED BY <3>1, <3>2
    <2>6. ReleasedWhenAcking'
        <3>1. ASSUME NEW v \in Workers, v # w
              PROVE  /\ step'[v] \notin {"pending", "next"} => held'[v] \in 1..cursor'
                     /\ step'[v] = "drop" => row'[JobOf(v)] = "none"
                     /\ step'[v] = "ack" => row'[JobOf(v)] = "none" \/ slot'[JobOf(v)] = 0
            BY <1>2, <1>4, <2>1, <2>2, <2>3, <3>1 DEF ReleaseInv, ReleasedWhenAcking, JobOf
        <3>2. \A v \in Workers : held'[v] = held[v] => JobOf(v)' = JobOf(v)
            BY <2>1 DEF JobOf
        <3> QED BY <2>1, <2>4, <2>5, <3>1, <3>2 DEF ReleasedWhenAcking
    <2>7. ReleasedBeforeAck'
        <3>1. ASSUME NEW m \in Messages', Acked(m)', ~Acked(m)
              PROVE  Released(stream[m])'
            <4>1. CASE AckMessage(w)
                <5>1. m = held[w]
                    BY <3>1, <4>1 DEF AckMessage, Ack, Acked
                <5>2. Released(JobOf(w))
                    BY <4>1 DEF AckMessage, ReleaseInv, ReleasedWhenAcking
                <5> QED BY <4>1, <5>1, <5>2 DEF AckMessage, limitVars, JobOf
            <4>2. CASE ReadNext(w) \/ ReadNextResent(w)
                <5>1. \A n \in Names : pel[n] \subseteq pel'[n]
                    BY <1>1, <4>2
                       DEF ReadNext, ReadNextResent, DeliverNext, QueueTypeOK, queueVars
                <5>2. \A k \in 1..cursor' : k \notin 1..cursor => k \in pel'[NameOf[w]]
                    BY <1>1, <2>2, <4>2
                       DEF ReadNext, ReadNextResent, DeliverNext, QueueTypeOK, queueVars
                <5> QED BY <3>1, <5>1, <5>2 DEF Acked
            <4>3. CASE ~AckMessage(w) /\ ~ReadNext(w) /\ ~ReadNextResent(w)
                BY <1>6, <3>1, <4>3
                   DEF WorkerStep, ReadOwnPending, LoadJob, MarkRunning, RunOnce,
                       EngineUnavailable, StoreOutcome, ReleaseSlot, Throw, queueVars, Acked
            <4> QED BY <4>1, <4>2, <4>3
        <3>2. ASSUME NEW m \in Messages', Acked(m)', Acked(m)
              PROVE  Released(stream[m])'
            BY <1>2, <1>4, <2>1, <3>2 DEF ReleaseInv, ReleasedBeforeAck, Messages
        <3> QED BY <3>1, <3>2 DEF ReleasedBeforeAck
    <2> QED BY <1>1, <2>6, <2>7 DEF ReleaseInv
<1> QED BY <1>5, <1>6 DEF WorkerNext

\* Every terminal path frees the slot before acking: an acknowledged message
\* whose row exists names an execution without a slot, whatever fails, and
\* even if consumers share names.
THEOREM SlotReleasedBeforeAck == Spec => []ReleasedBeforeAck
<1>1. ReleaseInv => ReleasedBeforeAck
    BY DEF ReleaseInv
<1> QED BY <1>1, InitRelease, NextRelease, PTL DEF Spec

-----------------------------------------------------------------------------
(* The in-flight cap.                                                      *)

LEMMA FiniteInFlight ==
    ASSUME NEW slots, NEW a
    PROVE  IsFiniteSet(InFlight(slots, a)) /\ Cardinality(InFlight(slots, a)) \in Nat
BY ExecutionsAssumption, FS_Subset, FS_CardinalityType DEF InFlight

\* Steps under which no member of the set gets a later expiry.
LEMMA SlotCapFrame ==
    ASSUME SlotCap, \A a \in Accounts : InFlight(slot, a)' \subseteq InFlight(slot, a)
    PROVE  SlotCap'
<1> SUFFICES ASSUME NEW a \in Accounts
             PROVE  Cardinality(InFlight(slot, a)') <= MaxConcurrent
    BY DEF SlotCap
<1>1. /\ Cardinality(InFlight(slot, a)') <= Cardinality(InFlight(slot, a))
      /\ Cardinality(InFlight(slot, a)') \in Nat /\ Cardinality(InFlight(slot, a)) \in Nat
    BY FiniteInFlight, FS_Subset, FS_CardinalityType
<1> QED BY <1>1, ExecutionsAssumption DEF SlotCap

\* The acquire script adds one member to a set that is not full.
LEMMA AcquireKeepsSlotCap ==
    ASSUME TypeOK, SlotCap, NEW e \in Execs, UNCHANGED now,
           slot' = Taken(Trim(slot, Owner[e]), e),
           Cardinality(InFlight(Trim(slot, Owner[e]), Owner[e])) < MaxConcurrent
    PROVE  SlotCap'
<1> USE ExecutionsAssumption
<1> DEFINE T == Trim(slot, Owner[e])
<1> SUFFICES ASSUME NEW a \in Accounts
             PROVE  Cardinality(InFlight(slot, a)') <= MaxConcurrent
    BY DEF SlotCap
<1>1. T \in [Execs -> Nat]
    BY SlotsType
<1>2. \A k \in Execs \ {e} : slot'[k] = T[k]
    BY <1>1 DEF Taken
<1>3. \A k \in Execs : T[k] > now <=> slot[k] > now
    BY DEF Trim, TypeOK
<1>4. CASE a = Owner[e]
    <2>1. InFlight(slot, a)' \subseteq InFlight(T, a) \cup {e}
        BY <1>2 DEF InFlight
    <2>2. /\ IsFiniteSet(InFlight(T, a) \cup {e})
          /\ Cardinality(InFlight(T, a) \cup {e}) <= Cardinality(InFlight(T, a)) + 1
        <3>1. IsFiniteSet(InFlight(T, a)) /\ Cardinality(InFlight(T, a)) \in Nat
            BY FiniteInFlight
        <3> DEFINE S == InFlight(T, a)
        <3>2. /\ IsFiniteSet(S \cup {e})
              /\ Cardinality(S \cup {e}) = IF e \in S THEN Cardinality(S) ELSE Cardinality(S) + 1
            <4> HIDE DEF S
            <4> QED BY <3>1, FS_AddElement DEF S
        <3> HIDE DEF S
        <3>3. Cardinality(S) \in Nat
            BY <3>1 DEF S
        <3> QED BY <3>2, <3>3 DEF S
    <2>3. /\ Cardinality(InFlight(slot, a)') <= Cardinality(InFlight(T, a) \cup {e})
          /\ Cardinality(InFlight(slot, a)') \in Nat
          /\ Cardinality(InFlight(T, a) \cup {e}) \in Nat
        BY <2>1, <2>2, FS_Subset, FS_CardinalityType
    <2>4. Cardinality(InFlight(T, a)) \in Nat
        BY FiniteInFlight
    <2> QED BY <1>4, <2>2, <2>3, <2>4
<1>5. CASE a # Owner[e]
    <2>1. InFlight(slot, a)' = InFlight(slot, a)
        BY <1>2, <1>3, <1>5 DEF InFlight
    <2> QED BY <2>1 DEF SlotCap
<1> QED BY <1>4, <1>5

LEMMA NextSlotCap == TypeOK /\ SlotCap /\ [Next]_vars => SlotCap'
<1> SUFFICES ASSUME TypeOK, SlotCap, [Next]_vars PROVE SlotCap'
    OBVIOUS
<1>1. now \in Nat /\ slot \in [Execs -> Nat]
    BY DEF TypeOK
<1>2. ASSUME UNCHANGED now, \A k \in Execs : slot'[k] \in {0, slot[k]} PROVE SlotCap'
    BY <1>1, <1>2, SlotCapFrame DEF InFlight
<1>3. ASSUME NEW e \in Execs, Acquire(e) PROVE SlotCap'
    <2>1. UNCHANGED now
        BY <1>3 DEF Acquire, clockVars
    <2>2. CASE slot' = Trim(slot, Owner[e])
        BY <1>1, <1>2, <2>1, <2>2 DEF Trim
    <2>3. CASE slot' # Trim(slot, Owner[e])
        <3>1. /\ Verdict(Trim(slot, Owner[e]), used[Quota(e)], e) = "ok"
              /\ slot' = Taken(Trim(slot, Owner[e]), e)
            BY <1>3, <2>3 DEF Acquire
        <3>2. Cardinality(InFlight(Trim(slot, Owner[e]), Owner[e])) < MaxConcurrent
            BY <3>1, FiniteInFlight, ExecutionsAssumption DEF Verdict
        <3> QED BY <2>1, <3>1, <3>2, AcquireKeepsSlotCap
    <2> QED BY <2>2, <2>3
<1>4. ASSUME NEW e \in Execs,
             \/ Validate(e) \/ AcquireDown(e) \/ Insert(e) \/ Publish(e) \/ FailRow(e)
             \/ Refund(e) \/ ApiCrash(e) \/ WriteUnsupported(e)
      PROVE  SlotCap'
    <2>1. UNCHANGED now
        BY <1>4 DEF Validate, AcquireDown, Insert, Publish, FailRow, Refund, ApiCrash,
                    WriteUnsupported, clockVars
    <2>2. slot' = slot \/ slot' = [slot EXCEPT ![e] = 0]
        BY <1>4 DEF Validate, AcquireDown, Insert, Publish, FailRow, Refund, ApiCrash,
                    WriteUnsupported, Refunded, limitVars
    <2> QED BY <1>1, <1>2, <2>1, <2>2
<1>5. ASSUME NEW w \in Workers,
             WorkerStep(w) \/ ReadNextResent(w) \/ EngineUnavailable(w) \/ Throw(w)
      PROVE  SlotCap'
    <2>1. UNCHANGED now
        BY <1>5 DEF WorkerStep, ReadOwnPending, ReadNext, ReadNextResent, LoadJob,
                    MarkRunning, RunOnce, EngineUnavailable, StoreOutcome, ReleaseSlot,
                    AckMessage, Throw, clockVars
    <2>2. slot' = slot \/ slot' = [slot EXCEPT ![JobOf(w)] = 0]
        BY <1>5 DEF WorkerStep, ReadOwnPending, ReadNext, ReadNextResent, LoadJob,
                    MarkRunning, RunOnce, EngineUnavailable, StoreOutcome, ReleaseSlot,
                    AckMessage, Throw, limitVars
    <2> QED BY <1>1, <1>2, <2>1, <2>2
<1>6. CASE Tick
    BY <1>1, <1>6, SlotCapFrame DEF Tick, limitVars, InFlight
<1>7. ASSUME \/ \E e \in Execs : DeleteRow(e)
             \/ UNCHANGED vars
      PROVE  SlotCap'
    BY <1>1, <1>2, <1>7 DEF DeleteRow, vars, limitVars, clockVars
<1> QED BY <1>3, <1>4, <1>5, <1>6, <1>7 DEF Next, ApiNext, WorkerNext

\* An account never holds more unexpired in-flight slots than its cap,
\* whatever fails, expires or is repeated.
THEOREM SlotCapHolds == Spec => []SlotCap
<1>1. Init => SlotCap
    <2> SUFFICES ASSUME Init, NEW a \in Accounts
                 PROVE  Cardinality(InFlight(slot, a)) <= MaxConcurrent
        BY DEF SlotCap
    <2>1. InFlight(slot, a) = {}
        BY DEF Init, InFlight
    <2> QED BY <2>1, FS_EmptySet, ExecutionsAssumption
<1> QED BY <1>1, InitTypeOK, NextTypeOK, NextSlotCap, PTL DEF Spec

-----------------------------------------------------------------------------
(* The daily quota.                                                        *)

\* Published although the client was not told so, or not yet.
Loose == {e \in Execs : Published(e) /\ request[e] \notin {"accepted", "external"}}

LEMMA FiniteQuota ==
    ASSUME NEW a, NEW d
    PROVE  /\ IsFiniteSet(Holding(a, d)) /\ Cardinality(Holding(a, d)) \in Nat
           /\ IsFiniteSet(Loose) /\ Cardinality(Loose) \in Nat
BY ExecutionsAssumption, FS_Subset, FS_CardinalityType DEF Holding, Loose

\* A refund that is sent again gives its unit back twice, and a request whose
\* XADD seems to have failed gives back the unit of an execution that runs.
Slack == IF Faults \cap {"lost", "resent"} = {} THEN 0 ELSE doubts

\* A day's counter is short of the requests that hold a unit of it, and of
\* those that will be run although they may give it back, by no more than Slack.
QuotaCovers(a, d) ==
    /\ Cardinality(Holding(a, d)) + Cardinality(Loose) <= used[<<a, d>>] + Slack
    /\ used[<<a, d>>] <= DailyQuota

QuotaInv == \A a \in Accounts, d \in Days : QuotaCovers(a, d)

\* Doubts only grow.
LEMMA DoubtsGrow ==
    ASSUME TypeOK, [Next]_vars
    PROVE  doubts \in Nat /\ (doubts' = doubts \/ doubts' = doubts + 1)
BY DEF TypeOK, Next, ApiNext, WorkerNext, WorkerStep, Validate, Acquire, AcquireDown,
       Insert, Publish, FailRow, Refund, ApiCrash, WriteUnsupported, ReadOwnPending,
       ReadNext, ReadNextResent, LoadJob, MarkRunning, RunOnce, EngineUnavailable,
       StoreOutcome, ReleaseSlot, AckMessage, Throw, Tick, DeleteRow, Fault, faultVars, vars

LEMMA SlackGrows ==
    ASSUME TypeOK, [Next]_vars
    PROVE  Slack \in Nat /\ Slack' \in Nat /\ Slack <= Slack'
BY DoubtsGrow DEF Slack

\* One unit of quota more covers one more request that holds a unit; without a
\* new one the old counter is enough; a doubt makes up for a unit given back
\* twice, or for a message the client is not told of.
LEMMA QuotaFrame ==
    ASSUME TypeOK, QuotaInv, [Next]_vars,
           NEW a \in Accounts, NEW d \in Days, NEW e,
           \/ /\ Loose' \subseteq Loose
              /\ \/ /\ Holding(a, d)' \subseteq Holding(a, d)
                    /\ used'[<<a, d>>] = used[<<a, d>>]
                 \/ /\ Holding(a, d)' \subseteq Holding(a, d) \cup {e}
                    /\ used'[<<a, d>>] = used[<<a, d>>] + 1
                    /\ used[<<a, d>>] < DailyQuota
                 \/ /\ Holding(a, d)' \subseteq Holding(a, d) \ {e}
                    /\ e \in Holding(a, d)
                    /\ used'[<<a, d>>] = used[<<a, d>>] - 1
                 \/ /\ Holding(a, d)' \subseteq Holding(a, d)
                    /\ used'[<<a, d>>] = used[<<a, d>>] - 1
                    /\ Slack' = Slack + 1
           \/ /\ Loose' \subseteq Loose \cup {e}
              /\ Holding(a, d)' \subseteq Holding(a, d)
              /\ used'[<<a, d>>] = used[<<a, d>>]
              /\ Slack' = Slack + 1
    PROVE  QuotaCovers(a, d)'
<1> DEFINE C == Holding(a, d)
           D == Holding(a, d)'
           K == Loose
           L == Loose'
           u == used[<<a, d>>]
           n == Slack
<1>1. /\ IsFiniteSet(C) /\ Cardinality(C) \in Nat /\ IsFiniteSet(D) /\ Cardinality(D) \in Nat
      /\ IsFiniteSet(K) /\ Cardinality(K) \in Nat /\ IsFiniteSet(L) /\ Cardinality(L) \in Nat
      /\ u \in Int /\ u <= DailyQuota /\ DailyQuota \in Nat
      /\ Cardinality(C) + Cardinality(K) <= u + n
      /\ n \in Nat /\ n' \in Nat /\ n <= n'
    <2>1. IsFiniteSet(D) /\ Cardinality(D) \in Nat /\ IsFiniteSet(L) /\ Cardinality(L) \in Nat
        BY ExecutionsAssumption, FS_Subset, FS_CardinalityType DEF Holding, Loose
    <2>2. u \in Int
        BY DEF TypeOK
    <2>3. Cardinality(C) + Cardinality(K) <= u + n /\ u <= DailyQuota
        BY DEF QuotaInv, QuotaCovers
    <2> QED BY <2>1, <2>2, <2>3, FiniteQuota, SlackGrows, ExecutionsAssumption
<1>0. SUFFICES /\ Cardinality(D) + Cardinality(L) <= used'[<<a, d>>] + n'
               /\ used'[<<a, d>>] <= DailyQuota
    BY DEF QuotaCovers
<1> HIDE DEF C, D, K, L, n
<1>2. /\ Cardinality(C \cup {e}) \in Nat /\ IsFiniteSet(C \cup {e})
      /\ Cardinality(C \cup {e}) <= Cardinality(C) + 1
    <2>1. /\ IsFiniteSet(C \cup {e})
          /\ Cardinality(C \cup {e}) = IF e \in C THEN Cardinality(C) ELSE Cardinality(C) + 1
        BY <1>1, FS_AddElement
    <2> QED BY <1>1, <2>1
<1>3. /\ Cardinality(C \ {e}) \in Nat /\ IsFiniteSet(C \ {e})
      /\ e \in C => Cardinality(C \ {e}) = Cardinality(C) - 1
    BY <1>1, FS_RemoveElement, FS_CardinalityType
<1>4. /\ D \subseteq C => Cardinality(D) <= Cardinality(C)
      /\ D \subseteq C \cup {e} => Cardinality(D) <= Cardinality(C \cup {e})
      /\ D \subseteq C \ {e} => Cardinality(D) <= Cardinality(C \ {e})
    BY <1>1, <1>2, <1>3, FS_Subset
<1>5. /\ L \subseteq K => Cardinality(L) <= Cardinality(K)
      /\ L \subseteq K \cup {e} => Cardinality(L) <= Cardinality(K) + 1
    <2>1. /\ IsFiniteSet(K \cup {e})
          /\ Cardinality(K \cup {e}) = IF e \in K THEN Cardinality(K) ELSE Cardinality(K) + 1
        BY <1>1, FS_AddElement
    <2>2. /\ L \subseteq K => Cardinality(L) <= Cardinality(K)
          /\ L \subseteq K \cup {e} => Cardinality(L) <= Cardinality(K \cup {e})
        BY <1>1, <2>1, FS_Subset
    <2> QED BY <1>1, <2>1, <2>2
<1>6. CASE L \subseteq K /\ D \subseteq C /\ used'[<<a, d>>] = u
    BY <1>1, <1>4, <1>5, <1>6
<1>7. CASE L \subseteq K /\ D \subseteq C \cup {e} /\ used'[<<a, d>>] = u + 1 /\ u < DailyQuota
    BY <1>1, <1>2, <1>4, <1>5, <1>7
<1>8. CASE L \subseteq K /\ D \subseteq C \ {e} /\ e \in C /\ used'[<<a, d>>] = u - 1
    BY <1>1, <1>3, <1>4, <1>5, <1>8
<1>9. CASE L \subseteq K /\ D \subseteq C /\ used'[<<a, d>>] = u - 1 /\ n' = n + 1
    BY <1>1, <1>4, <1>5, <1>9
<1>10. CASE L \subseteq K \cup {e} /\ D \subseteq C /\ used'[<<a, d>>] = u /\ n' = n + 1
    BY <1>1, <1>4, <1>5, <1>10
<1> QED BY <1>6, <1>7, <1>8, <1>9, <1>10 DEF C, D, K, L, n

LEMMA NextQuotaInv == TypeOK /\ QuotaInv /\ [Next]_vars => QuotaInv'
<1> SUFFICES ASSUME TypeOK, QuotaInv, [Next]_vars,
                    NEW a \in Accounts, NEW d \in Days
             PROVE  QuotaCovers(a, d)'
    BY DEF QuotaInv
<1>1. /\ used \in [Accounts \X Days -> Int]
      /\ request \in [Execs -> RequestStates] /\ day \in [Execs -> Days]
      /\ \A k \in Execs : Quota(k) \in Accounts \X Days
    BY SlotsType DEF TypeOK
<1>2. ASSUME NEW e \in Execs, Acquire(e)
      PROVE  QuotaCovers(a, d)'
    <2>1. /\ request[e] = "validated" /\ UNCHANGED <<day, stream>>
          /\ \A k \in Execs \ {e} : request'[k] = request[k]
        BY <1>1, <1>2 DEF Acquire, Goto, queueVars
    <2>0. Loose' \subseteq Loose
        BY <2>1 DEF Loose, Published, MessagesOf, Messages
    <2>2. CASE Verdict(Trim(slot, Owner[e]), used[Quota(e)], e) = "ok"
        <3>1. used' = [used EXCEPT ![Quota(e)] = @ + 1] /\ ~(used[Quota(e)] >= DailyQuota)
            BY <1>2, <2>2 DEF Acquire, Verdict
        <3>2. used[Quota(e)] < DailyQuota
            BY <1>1, <3>1, ExecutionsAssumption
        <3>3. CASE Quota(e) = <<a, d>>
            <4>1. Holding(a, d)' \subseteq Holding(a, d) \cup {e}
                BY <2>1 DEF Holding
            <4> QED BY <1>1, <2>0, <3>1, <3>2, <3>3, <4>1, QuotaFrame
        <3>4. CASE Quota(e) # <<a, d>>
            <4>1. Holding(a, d)' \subseteq Holding(a, d)
                BY <2>1, <3>4 DEF Holding, Quota
            <4>2. used'[<<a, d>>] = used[<<a, d>>]
                BY <1>1, <3>1, <3>4
            <4> QED BY <2>0, <4>1, <4>2, QuotaFrame
        <3> QED BY <3>3, <3>4
    <2>3. CASE Verdict(Trim(slot, Owner[e]), used[Quota(e)], e) # "ok"
        <3>1. UNCHANGED used /\ request'[e] \in {"rejected", "errored", "validated"}
            BY <1>1, <1>2, <2>3 DEF Acquire, Goto, Fault
        <3>2. Holding(a, d)' \subseteq Holding(a, d)
            BY <2>1, <3>1 DEF Holding
        <3> QED BY <2>0, <3>1, <3>2, QuotaFrame
    <2> QED BY <2>2, <2>3
<1>3. ASSUME NEW e \in Execs, Refund(e)
      PROVE  QuotaCovers(a, d)'
    <2>1. request[e] = "refunding" /\ UNCHANGED <<day, stream>>
        BY <1>3 DEF Refund, queueVars
    <2>0. Loose' \subseteq Loose
        BY <1>1, <1>3, <2>1 DEF Refund, Goto, Loose, Published, MessagesOf, Messages
    <2>2. CASE request' = [request EXCEPT ![e] = "errored"]
        <3>1. Holding(a, d)' \subseteq Holding(a, d) \ {e}
            BY <1>1, <2>1, <2>2 DEF Holding
        <3>2. UNCHANGED used \/ used' = [used EXCEPT ![Quota(e)] = @ - 1]
            BY <1>3 DEF Refund, Refunded, limitVars
        <3>3. CASE Quota(e) = <<a, d>> /\ used' = [used EXCEPT ![Quota(e)] = @ - 1]
            <4>1. e \in Holding(a, d)
                BY <2>1, <3>3 DEF Holding, Quota
            <4> QED BY <1>1, <2>0, <3>1, <3>3, <4>1, QuotaFrame
        <3>4. CASE Quota(e) # <<a, d>> \/ UNCHANGED used
            BY <1>1, <2>0, <3>1, <3>2, <3>4, QuotaFrame
        <3> QED BY <3>2, <3>3, <3>4
    <2>3. CASE used' = [used EXCEPT ![Quota(e)] = @ - 1] /\ UNCHANGED request /\ Fault("resent")
        <3>1. Holding(a, d)' = Holding(a, d)
            BY <2>1, <2>3 DEF Holding
        <3>2. Slack' = Slack + 1
            BY <2>3 DEF Slack, Fault, Doubtful, TypeOK
        <3>3. used'[<<a, d>>] \in {used[<<a, d>>], used[<<a, d>>] - 1}
            BY <1>1, <2>3
        <3> QED BY <2>0, <3>1, <3>2, <3>3, QuotaFrame
    <2> QED BY <1>3, <2>2, <2>3 DEF Refund, Refunded, Goto
<1>4. ASSUME NEW e \in Execs,
             \/ Validate(e) \/ AcquireDown(e) \/ Insert(e) \/ Publish(e) \/ FailRow(e)
             \/ ApiCrash(e) \/ WriteUnsupported(e)
      PROVE  QuotaCovers(a, d)'
    <2>1. UNCHANGED used
        BY <1>4 DEF Validate, AcquireDown, Insert, Publish, FailRow, ApiCrash,
                    WriteUnsupported, limitVars
    <2>2. \A k \in Execs \ {e} : request'[k] = request[k] /\ day'[k] = day[k]
        BY <1>1, <1>4 DEF Validate, AcquireDown, Insert, Publish, FailRow, ApiCrash,
                          WriteUnsupported, Goto
    <2>3. \/ request'[e] \in {"validated", "errored", "external"}
              /\ request[e] \in {"new", "validated"}
          \/ /\ request[e] \in {"acquired", "inserted", "failing", "refunding"}
             /\ day' = day
        BY <1>1, <1>4 DEF Validate, AcquireDown, Insert, Publish, FailRow, ApiCrash,
                          WriteUnsupported, Goto
    <2>4. Holding(a, d)' \subseteq Holding(a, d)
        BY <2>2, <2>3 DEF Holding
    <2>5. CASE Loose' \subseteq Loose
        BY <2>1, <2>4, <2>5, QuotaFrame
    <2>6. \A k \in Execs \ {e} : Published(k)' => Published(k)
        <3>1. UNCHANGED stream \/ Enqueue(e)
            BY <1>4 DEF Validate, AcquireDown, Insert, Publish, FailRow, ApiCrash,
                        WriteUnsupported, queueVars
        <3>2. CASE UNCHANGED stream
            BY <3>2 DEF Published, MessagesOf, Messages
        <3>3. CASE Enqueue(e)
            BY <3>3, EnqueueMessages, ExecutionsAssumption DEF Published, TypeOK
        <3> QED BY <3>1, <3>2, <3>3
    <2>7. Loose' \subseteq Loose \cup {e}
        BY <2>2, <2>6 DEF Loose
    <2>8. CASE Publish(e) /\ (Fault("lost") \/ Fault("resent"))
        <3>1. Slack' = Slack + 1
            BY <2>8 DEF Slack, Fault, Doubtful, TypeOK
        <3> QED BY <2>1, <2>4, <2>7, <3>1, QuotaFrame
    <2>9. CASE ~(Publish(e) /\ (Fault("lost") \/ Fault("resent")))
        <3>1. \/ request'[e] \in {"accepted", "external"}
              \/ UNCHANGED stream /\ request[e] \notin {"accepted", "external"}
            BY <1>1, <1>4, <2>9 DEF Validate, AcquireDown, Insert, Publish, FailRow, ApiCrash,
                                    WriteUnsupported, Goto, queueVars
        <3>2. UNCHANGED stream => (Published(e)' <=> Published(e))
            BY DEF Published, MessagesOf, Messages
        <3>3. e \in Loose' => e \in Loose
            BY <3>1, <3>2 DEF Loose
        <3> QED BY <2>5, <2>7, <3>3
    <2> QED BY <2>8, <2>9
<1>5. ASSUME UNCHANGED <<used, apiVars, stream>>
      PROVE  QuotaCovers(a, d)'
    <2>1. Holding(a, d)' = Holding(a, d) /\ Loose' = Loose
        BY <1>5 DEF Holding, Loose, Published, MessagesOf, Messages, apiVars
    <2> QED BY <1>5, <2>1, QuotaFrame
<1>6. ASSUME NEW w \in Workers,
             WorkerStep(w) \/ ReadNextResent(w) \/ EngineUnavailable(w) \/ Throw(w)
      PROVE  UNCHANGED <<used, apiVars, stream>>
    BY <1>6 DEF WorkerStep, ReadOwnPending, ReadNext, ReadNextResent, LoadJob, MarkRunning,
                RunOnce, EngineUnavailable, StoreOutcome, ReleaseSlot, AckMessage, Throw,
                limitVars, queueVars, DeliverNext, Ack
<1>7. CASE Tick \/ (\E e \in Execs : DeleteRow(e)) \/ UNCHANGED vars
    BY <1>5, <1>7 DEF Tick, DeleteRow, vars, limitVars, queueVars
<1> QED BY <1>2, <1>3, <1>4, <1>5, <1>6, <1>7 DEF Next, ApiNext, WorkerNext

\* QuotaInv is an invariant, whatever fails.
LEMMA QuotaInvHolds == Spec => []QuotaInv
<1>1. Init => QuotaInv
    <2> SUFFICES ASSUME Init, NEW a \in Accounts, NEW d \in Days
                 PROVE  QuotaCovers(a, d)
        BY DEF QuotaInv
    <2>1. Holding(a, d) = {} /\ Loose = {} /\ used[<<a, d>>] = 0 /\ Slack = 0
        BY DEF Init, QueueInit, Holding, Loose, Published, MessagesOf, Messages, Slack
    <2> QED BY <2>1, FS_EmptySet, ExecutionsAssumption DEF QuotaCovers
<1> QED BY <1>1, InitTypeOK, NextTypeOK, NextQuotaInv, PTL DEF Spec

\* Who uses a unit holds it or is loose.
LEMMA ChargedBounded ==
    ASSUME TypeOK, QuotaInv, NEW a \in Accounts, NEW d \in Days
    PROVE  /\ Cardinality(Charged(a, d)) \in Nat
           /\ Cardinality(Charged(a, d)) <= used[<<a, d>>] + Slack
           /\ used[<<a, d>>] <= DailyQuota
<1>1. Charged(a, d) \subseteq Holding(a, d) \cup Loose
    BY DEF Charged, Holding, Loose
<1>2. /\ IsFiniteSet(Holding(a, d) \cup Loose)
      /\ Cardinality(Holding(a, d) \cup Loose) <= Cardinality(Holding(a, d)) + Cardinality(Loose)
    <2>1. /\ IsFiniteSet(Holding(a, d) \cup Loose)
          /\ Cardinality(Holding(a, d) \cup Loose) =
                Cardinality(Holding(a, d)) + Cardinality(Loose)
                    - Cardinality(Holding(a, d) \cap Loose)
        BY FiniteQuota, FS_Union
    <2>2. Cardinality(Holding(a, d) \cap Loose) \in Nat
        BY FiniteQuota, FS_Intersection, FS_CardinalityType
    <2> QED BY <2>1, <2>2, FiniteQuota
<1>3. /\ Cardinality(Charged(a, d)) \in Nat
      /\ Cardinality(Charged(a, d)) <= Cardinality(Holding(a, d) \cup Loose)
    BY <1>1, <1>2, FS_Subset, FS_CardinalityType
<1>4. /\ Slack \in Nat /\ used[<<a, d>>] \in Int
      /\ Cardinality(Holding(a, d) \cup Loose) \in Nat
    BY <1>2, FS_CardinalityType DEF TypeOK, Slack
<1>5. /\ Cardinality(Holding(a, d)) + Cardinality(Loose) <= used[<<a, d>>] + Slack
      /\ used[<<a, d>>] <= DailyQuota
    BY DEF QuotaInv, QuotaCovers
<1> QED BY <1>2, <1>3, <1>4, <1>5, FiniteQuota

\* A day's counter stays within the quota, and covers the requests that hold a
\* unit of it and the executions of that day that are run, but for one for each
\* reply or consumer that was lost (limits.ts, executions.ts:160).
THEOREM QuotaIsSound == Spec => []QuotaSound
<1>1. TypeOK /\ QuotaInv => QuotaSound
    <2> SUFFICES ASSUME TypeOK, QuotaInv, NEW a \in Accounts, NEW d \in Days
                 PROVE  /\ Cardinality(Charged(a, d)) <= used[<<a, d>>] + doubts
                        /\ used[<<a, d>>] <= DailyQuota
        BY DEF QuotaSound
    <2>1. used[<<a, d>>] \in Int /\ Slack \in Nat /\ Slack <= doubts /\ doubts \in Nat
        BY DEF TypeOK, Slack
    <2> QED BY <2>1, ChargedBounded
<1> QED BY <1>1, TypeCorrect, QuotaInvHolds, PTL

\* As long as no reply is lost and no command repeated, whatever else fails or
\* dies, no more than DailyQuota executions of an account are charged to a day
\* or run for it (limits.ts, the acquire script and the refund).
THEOREM QuotaIsExact ==
    Faults \cap {"lost", "resent"} = {} =>
        (Spec => [](\A a \in Accounts, d \in Days :
                        Cardinality(Charged(a, d)) <= DailyQuota))
<1>1. CASE Faults \cap {"lost", "resent"} = {}
    <2>1. TypeOK /\ QuotaInv => \A a \in Accounts, d \in Days :
                Cardinality(Charged(a, d)) <= DailyQuota
        <3> SUFFICES ASSUME TypeOK, QuotaInv, NEW a \in Accounts, NEW d \in Days
                     PROVE  Cardinality(Charged(a, d)) <= DailyQuota
            OBVIOUS
        <3>1. used[<<a, d>>] \in Int /\ Slack = 0
            BY <1>1 DEF Slack, TypeOK
        <3> QED BY <3>1, ChargedBounded, ExecutionsAssumption
    <2> QED BY <2>1, TypeCorrect, QuotaInvHolds, PTL
<1> QED BY <1>1

-----------------------------------------------------------------------------
(* What doubts can cost, for consumers with distinct names.  An execution  *)
(* is orderly until a reply of its own is lost or a consumer dies with it, *)
(* so there are never more disorderly ones than doubts.                    *)

\* What was published was answered 202, or written by something else.
AnsweredIfPublished(e) == Published(e) => request[e] \in {"accepted", "external"}

OneMessage(e) == \A m1, m2 \in MessagesOf(e) : m1 = m2

\* What the API still has to write about is not finished.
UnpublishedRow(e) ==
    /\ request[e] \in {"new", "validated", "acquired"} => row[e] = "none"
    /\ request[e] \in {"inserted", "failing"} => row[e] \notin Terminal

Busy(w) == step[w] \notin {"pending", "next"}

\* Nobody is about to overwrite its outcome, or to free its slot in use.
FirstPass(e) ==
    \A w \in Workers :
        Busy(w) /\ JobOf(w) = e =>
            /\ step[w] \in {"load", "mark", "run", "save", "fail"} => row[e] \notin Terminal
            /\ step[w] = "release" => row[e] \notin Active

\* Once its outcome is stored, its message is in the hands of the consumer that
\* stored it, or acknowledged.
FinishedIsHeld(e) ==
    row[e] \in Terminal =>
        \A m \in MessagesOf(e) :
            /\ m \in 1..cursor
            /\ \A n \in Names : m \in pel[n] =>
                   \E w \in Workers : held[w] = m /\ step[w] \in {"release", "ack"}

Orderly(e) ==
    /\ AnsweredIfPublished(e) /\ OneMessage(e) /\ UnpublishedRow(e)
    /\ FirstPass(e) /\ FinishedIsHeld(e)

\* A busy consumer holds a message that was delivered to its name.
LEMMA HeldMessage ==
    ASSUME DeliveryInv, NEW w \in Workers, Busy(w)
    PROVE  /\ held[w] \in Messages /\ held[w] \in 1..cursor /\ JobOf(w) \in Execs
           /\ held[w] \in MessagesOf(JobOf(w))
           /\ held[w] \in pel[NameOf[w]] /\ NameOf[w] \in Names
BY ExecutionsAssumption
   DEF DeliveryInv, TypeOK, QueueTypeOK, HoldsItsOwn, Messages, MessagesOf, JobOf, Busy

\* A request concerns its own execution.
LEMMA ApiSteps ==
    ASSUME TypeOK, NEW k \in Execs,
           \/ Validate(k) \/ Acquire(k) \/ AcquireDown(k)
           \/ Insert(k) \/ Publish(k) \/ FailRow(k) \/ Refund(k) \/ ApiCrash(k)
           \/ WriteUnsupported(k)
    PROVE  /\ request[k] \notin {"accepted", "external"}
           /\ \A e \in Execs \ {k} : request'[e] = request[e] /\ row'[e] = row[e]
           /\ \/ UNCHANGED stream
              \/ /\ Enqueue(k)
                 /\ doubts' = doubts =>
                        /\ request'[k] \in {"accepted", "external"}
                        /\ Publish(k) \/ WriteUnsupported(k)
           /\ UNCHANGED <<cursor, pel, step, held, now>>
<1>1. /\ request \in [Execs -> RequestStates] /\ doubts \in Nat
      /\ row \in [Execs -> {"none"} \cup Active \cup Terminal]
    BY DEF TypeOK
<1>2. CASE Publish(k)
    BY <1>1, <1>2 DEF Publish, Goto, Fault, Doubtful, workerVars, clockVars
<1>3. CASE WriteUnsupported(k)
    BY <1>1, <1>3 DEF WriteUnsupported, Goto, workerVars, clockVars
<1>4. CASE ~Publish(k) /\ ~WriteUnsupported(k)
    BY <1>1, <1>4 DEF Validate, Acquire, AcquireDown, Insert, FailRow, Refund, ApiCrash,
                Goto, SetStatus, queueVars, workerVars, clockVars
<1> QED BY <1>2, <1>3, <1>4

\* What a request does to messages.
LEMMA ApiMessages ==
    ASSUME TypeOK, NEW k \in Execs, UNCHANGED stream \/ Enqueue(k)
    PROVE  /\ \A m \in Messages : m \in Messages' /\ stream'[m] = stream[m]
           /\ \A e \in Execs \ {k} : MessagesOf(e)' = MessagesOf(e)
           /\ \A m \in MessagesOf(k)' \ MessagesOf(k) : m = Len(stream) + 1
<1>1. stream \in Seq(Execs) /\ Len(stream) \in Nat
    BY ExecutionsAssumption DEF TypeOK, QueueTypeOK
<1>2. CASE UNCHANGED stream
    BY <1>2 DEF Messages, MessagesOf
<1>3. CASE Enqueue(k)
    <2>1. /\ Messages' = Messages \cup {Len(stream) + 1}
          /\ \A m \in Messages : stream'[m] = stream[m]
          /\ stream'[Len(stream) + 1] = k
        BY <1>1, <1>3 DEF Enqueue, Messages
    <2> QED BY <1>1, <2>1 DEF MessagesOf
<1> QED BY <1>2, <1>3

\* A request of another execution leaves e as it is, and so does its own one
\* as long as no reply is lost.
LEMMA ApiOrderly ==
    ASSUME DeliveryInv, NEW e \in Execs, Orderly(e), NEW k \in Execs,
           \/ Validate(k) \/ Acquire(k) \/ AcquireDown(k)
           \/ Insert(k) \/ Publish(k) \/ FailRow(k) \/ Refund(k) \/ ApiCrash(k)
           \/ WriteUnsupported(k),
           k # e \/ doubts' = doubts
    PROVE  Orderly(e)'
<1>1. /\ TypeOK /\ request \in [Execs -> RequestStates]
      /\ row \in [Execs -> {"none"} \cup Active \cup Terminal]
      /\ stream \in Seq(Execs) /\ Len(stream) \in Nat /\ cursor \in 0..Len(stream)
    BY ExecutionsAssumption DEF DeliveryInv, TypeOK, QueueTypeOK
<1>2. UNCHANGED <<cursor, pel, step, held>> /\ (UNCHANGED stream \/ Enqueue(k))
    BY <1>1, ApiSteps
\* The consumers stay with what they do.
<1>3. ASSUME NEW w \in Workers, Busy(w)
      PROVE  JobOf(w)' = JobOf(w)
    BY <1>1, <1>2, <1>3, HeldMessage, ApiMessages DEF JobOf
<1>4. CASE k # e
    <2>1. request'[e] = request[e] /\ row'[e] = row[e] /\ MessagesOf(e)' = MessagesOf(e)
        BY <1>1, <1>2, <1>4, ApiSteps, ApiMessages
    <2>2. /\ AnsweredIfPublished(e)' /\ OneMessage(e)' /\ UnpublishedRow(e)'
        BY <2>1 DEF Orderly, AnsweredIfPublished, OneMessage, UnpublishedRow, Published
    <2>3. FirstPass(e)'
        BY <1>2, <1>3, <2>1 DEF Orderly, FirstPass, Busy
    <2>4. FinishedIsHeld(e)'
        BY <1>2, <2>1 DEF Orderly, FinishedIsHeld
    <2> QED BY <2>2, <2>3, <2>4 DEF Orderly
<1>5. CASE k = e /\ doubts' = doubts
    <2>1. MessagesOf(e) = {} /\ request[e] \notin {"accepted", "external"}
        BY <1>1, <1>5, ApiSteps DEF Orderly, AnsweredIfPublished, Published
    <2>2. /\ \A m \in MessagesOf(e)' : m = Len(stream) + 1
          /\ MessagesOf(e)' = {} \/ /\ request'[e] \in {"accepted", "external"}
                                    /\ Publish(e) \/ WriteUnsupported(e)
        <3>1. CASE UNCHANGED stream
            BY <2>1, <3>1 DEF MessagesOf, Messages
        <3>2. CASE Enqueue(e) /\ ~UNCHANGED stream
            BY <1>1, <1>5, <2>1, <3>2, ApiSteps, ApiMessages
        <3> QED BY <1>2, <1>5, <3>1, <3>2
    <2>3. AnsweredIfPublished(e)' /\ OneMessage(e)'
        BY <2>2 DEF AnsweredIfPublished, OneMessage, Published
    <2>4. UnpublishedRow(e)'
        <3>1. /\ request[e] \in {"new", "validated", "acquired"} => row[e] = "none"
              /\ request[e] \in {"inserted", "failing"} => row[e] \notin Terminal
            BY DEF Orderly, UnpublishedRow
        <3> QED
            BY <1>1, <1>5, <3>1
               DEF Validate, Acquire, AcquireDown, Insert, Publish, FailRow, Refund, ApiCrash,
                   WriteUnsupported, Goto, SetStatus, UnpublishedRow, Terminal
    <2>5. FirstPass(e)'
        <3>1. ASSUME NEW w \in Workers, Busy(w) PROVE JobOf(w)' # e
            BY <1>3, <2>1, <3>1, HeldMessage
        <3> QED BY <1>2, <3>1 DEF FirstPass, Busy
    <2>6. FinishedIsHeld(e)'
        <3>1. ASSUME Publish(e) \/ WriteUnsupported(e) PROVE row'[e] \notin Terminal
            BY <1>1, <3>1 DEF Publish, WriteUnsupported, Orderly, UnpublishedRow, Terminal
        <3> QED BY <2>2, <3>1 DEF FinishedIsHeld
    <2> QED BY <2>3, <2>4, <2>5, <2>6 DEF Orderly
<1> QED BY <1>4, <1>5

\* What consumers do elsewhere leaves e as it is; one may take up its message
\* as long as it is not finished.
LEMMA ElsewhereOrderly ==
    ASSUME DeliveryInv, NEW e \in Execs, Orderly(e),
           UNCHANGED <<stream, request>>, row'[e] = row[e],
           cursor' \in {cursor, cursor + 1},
           \A n \in Names : \A m \in 1..cursor : m \in pel'[n] => m \in pel[n],
           \A v \in Workers :
               \/ step'[v] = step[v] /\ held'[v] = held[v]
               \/ /\ Busy(v) => JobOf(v) # e
                  /\ \/ ~Busy(v)'
                     \/ stream[held'[v]] # e
                     \/ step'[v] = "load" /\ row[e] \notin Terminal
    PROVE  Orderly(e)'
<1>1. MessagesOf(e)' = MessagesOf(e) /\ cursor \in Nat
    BY DEF MessagesOf, Messages, DeliveryInv, TypeOK, QueueTypeOK
<1>2. AnsweredIfPublished(e)' /\ OneMessage(e)' /\ UnpublishedRow(e)'
    BY <1>1 DEF Orderly, AnsweredIfPublished, OneMessage, UnpublishedRow, Published
<1>3. FirstPass(e)'
    <2> SUFFICES ASSUME NEW v \in Workers, Busy(v)', JobOf(v)' = e
                 PROVE  /\ step'[v] \in {"load", "mark", "run", "save", "fail"} =>
                               row[e] \notin Terminal
                        /\ step'[v] = "release" => row[e] \notin Active
        BY DEF FirstPass
    <2>1. stream[held'[v]] = e
        BY DEF JobOf
    <2>2. CASE step'[v] = step[v] /\ held'[v] = held[v]
        BY <2>1, <2>2 DEF Orderly, FirstPass, Busy, JobOf
    <2>3. CASE step'[v] = "load" /\ row[e] \notin Terminal
        BY <2>3
    <2> QED BY <2>1, <2>2, <2>3
<1>4. FinishedIsHeld(e)'
    <2> SUFFICES ASSUME row[e] \in Terminal, NEW m \in MessagesOf(e)
                 PROVE  /\ m \in 1..cursor'
                        /\ \A n \in Names : m \in pel'[n] =>
                               \E v \in Workers : held'[v] = m /\ step'[v] \in {"release", "ack"}
        BY <1>1 DEF FinishedIsHeld
    <2>1. /\ m \in 1..cursor /\ stream[m] = e
          /\ \A n \in Names : m \in pel[n] =>
                 \E v \in Workers : held[v] = m /\ step[v] \in {"release", "ack"}
        BY DEF Orderly, FinishedIsHeld, MessagesOf
    <2>2. ASSUME NEW v \in Workers, held[v] = m, step[v] \in {"release", "ack"}
          PROVE  held'[v] = m /\ step'[v] \in {"release", "ack"}
        BY <2>1, <2>2 DEF Busy, JobOf
    <2> QED BY <1>1, <2>1, <2>2
<1> QED BY <1>2, <1>3, <1>4 DEF Orderly

\* Reading, and the end of an attempt at another execution.
LEMMA ReadOrderly ==
    ASSUME UniqueNames, DeliveryInv, NEW e \in Execs, Orderly(e), NEW w \in Workers,
           \/ ReadOwnPending(w) \/ ReadNext(w) \/ ReadNextResent(w)
           \/ Throw(w) /\ (Busy(w) => JobOf(w) # e)
    PROVE  Orderly(e)'
<1>1. /\ TypeOK /\ step \in [Workers -> Steps] /\ held \in [Workers -> Nat]
      /\ cursor \in Nat /\ pel \in [Names -> SUBSET (1..cursor)]
      /\ NameOf \in [Workers -> Names]
    BY ExecutionsAssumption DEF DeliveryInv, TypeOK, QueueTypeOK
<1>2. UNCHANGED <<stream, request, row>>
    BY DEF ReadOwnPending, ReadNext, ReadNextResent, Throw, queueVars, apiVars
<1>3. /\ cursor' \in {cursor, cursor + 1}
      /\ \A n \in Names : \A m \in 1..cursor : m \in pel'[n] => m \in pel[n]
    <2>1. CASE UNCHANGED <<cursor, pel>>
        BY <2>1
    <2>2. CASE DeliverNext(NameOf[w])
        BY <1>1, <2>2 DEF DeliverNext
    <2> QED BY <2>1, <2>2 DEF ReadOwnPending, ReadNext, ReadNextResent, Throw, queueVars
<1>4. \A v \in Workers \ {w} : step'[v] = step[v] /\ held'[v] = held[v]
    BY <1>1 DEF ReadOwnPending, ReadNext, ReadNextResent, Throw, Take, Proceed, Finish,
                workerVars
<1>5. CASE ReadOwnPending(w)
    <2>1. ~Busy(w)
        BY <1>5 DEF ReadOwnPending, Busy
    <2>2. CASE Proceed(w, "next")
        BY <1>1, <1>2, <1>3, <1>4, <2>1, <2>2, ElsewhereOrderly DEF Proceed, Busy
    <2>3. ASSUME NEW m \in Messages, m \in pel[NameOf[w]], Take(w, m)
          PROVE  Orderly(e)'
        <3>1. ASSUME stream[m] = e, row[e] \in Terminal PROVE FALSE
            <4>1. m \in MessagesOf(e) /\ NameOf[w] \in Names
                BY <1>1, <3>1 DEF MessagesOf
            <4>2. PICK v \in Workers : held[v] = m /\ step[v] \in {"release", "ack"}
                BY <2>3, <3>1, <4>1 DEF Orderly, FinishedIsHeld
            <4>3. m \in pel[NameOf[v]] /\ NameOf[v] \in Names
                BY <4>2, HeldMessage DEF Busy
            <4>4. v = w
                BY <2>3, <4>1, <4>3 DEF DeliveryInv, PendingUnderOneName, UniqueNames
            <4> QED BY <2>1, <4>2, <4>4 DEF Busy
        <3>2. step'[w] = "load" /\ held'[w] = m
            BY <1>1, <2>3 DEF Take
        <3>3. stream[held'[w]] # e \/ (step'[w] = "load" /\ row[e] \notin Terminal)
            BY <3>1, <3>2
        <3> QED BY <1>2, <1>3, <1>4, <2>1, <3>3, ElsewhereOrderly
    <2> QED BY <1>5, <2>2, <2>3 DEF ReadOwnPending, OldestPending
<1>6. CASE ReadNext(w)
    <2>1. ~Busy(w)
        BY <1>6 DEF ReadNext, Busy
    <2>2. CASE Finish(w)
        BY <1>1, <1>2, <1>3, <1>4, <2>1, <2>2, ElsewhereOrderly DEF Finish, Busy
    <2>3. CASE cursor < Len(stream) /\ Take(w, cursor + 1)
        <3>1. step'[w] = "load" /\ held'[w] = cursor + 1
            BY <1>1, <2>3 DEF Take
        <3>2. cursor + 1 \in Messages /\ cursor + 1 \notin 1..cursor
            BY <1>1, <2>3 DEF Messages, TypeOK, QueueTypeOK
        <3>3. stream[cursor + 1] = e => row[e] \notin Terminal
            BY <3>2 DEF Orderly, FinishedIsHeld, MessagesOf
        <3> QED BY <1>2, <1>3, <1>4, <2>1, <3>1, <3>3, ElsewhereOrderly
    <2> QED BY <1>6, <2>2, <2>3 DEF ReadNext
<1>7. CASE ReadNextResent(w)
    <2>1. UNCHANGED <<step, held>>
        BY <1>7 DEF ReadNextResent, workerVars
    <2> QED BY <1>2, <1>3, <2>1, ElsewhereOrderly
<1>8. CASE Throw(w) /\ (Busy(w) => JobOf(w) # e)
    <2>1. ~Busy(w)'
        BY <1>1, <1>8 DEF Throw, Finish, Busy
    <2> QED BY <1>2, <1>3, <1>4, <1>8, <2>1, ElsewhereOrderly
<1> QED BY <1>5, <1>6, <1>7, <1>8

\* What all steps of an attempt have in common.
LEMMA JobSteps ==
    ASSUME DeliveryInv, NEW w \in Workers,
           \/ LoadJob(w) \/ MarkRunning(w) \/ RunOnce(w) \/ EngineUnavailable(w)
           \/ StoreOutcome(w) \/ ReleaseSlot(w) \/ AckMessage(w)
    PROVE  /\ Busy(w) /\ UNCHANGED <<stream, cursor, request>>
           /\ \A e \in Execs \ {JobOf(w)} : row'[e] = row[e]
           /\ row[JobOf(w)] = "none" => row'[JobOf(w)] = "none"
           /\ \A v \in Workers \ {w} : step'[v] = step[v] /\ held'[v] = held[v]
           /\ ~Busy(w)' \/ held'[w] = held[w]
           /\ \A n \in Names : pel'[n] \subseteq pel[n]
<1>1. /\ step \in [Workers -> Steps] /\ held \in [Workers -> Nat]
      /\ cursor \in Nat /\ pel \in [Names -> SUBSET (1..cursor)]
      /\ row \in [Execs -> {"none"} \cup Active \cup Terminal]
    BY DEF DeliveryInv, TypeOK, QueueTypeOK
<1>2. Busy(w) /\ UNCHANGED <<stream, cursor, request>>
    BY DEF LoadJob, MarkRunning, RunOnce, EngineUnavailable, StoreOutcome, ReleaseSlot,
           AckMessage, queueVars, apiVars, Busy
<1>3. JobOf(w) \in Execs
    BY <1>2, HeldMessage
<1>4. UNCHANGED row \/ \E status : SetStatus(JobOf(w), status)
    BY DEF LoadJob, MarkRunning, RunOnce, EngineUnavailable, StoreOutcome, ReleaseSlot,
           AckMessage
<1>5. (\E next : Proceed(w, next)) \/ Finish(w)
    BY DEF LoadJob, MarkRunning, RunOnce, EngineUnavailable, StoreOutcome, ReleaseSlot,
           AckMessage
<1>6. UNCHANGED pel \/ Ack(held[w])
    BY DEF LoadJob, MarkRunning, RunOnce, EngineUnavailable, StoreOutcome, ReleaseSlot,
           AckMessage, queueVars
<1>7. /\ \A e \in Execs \ {JobOf(w)} : row'[e] = row[e]
      /\ row[JobOf(w)] = "none" => row'[JobOf(w)] = "none"
    BY <1>1, <1>3, <1>4 DEF SetStatus
<1>8. /\ \A v \in Workers \ {w} : step'[v] = step[v] /\ held'[v] = held[v]
      /\ ~Busy(w)' \/ held'[w] = held[w]
    BY <1>1, <1>5 DEF Proceed, Finish, Busy
<1>9. \A n \in Names : pel'[n] \subseteq pel[n]
    BY <1>1, <1>6 DEF Ack
<1> QED BY <1>2, <1>7, <1>8, <1>9

\* The steps of an attempt at e, or at another execution.
LEMMA JobOrderly ==
    ASSUME UniqueNames, DeliveryInv, NEW e \in Execs, Orderly(e), NEW w \in Workers,
           \/ LoadJob(w) \/ MarkRunning(w) \/ RunOnce(w) \/ EngineUnavailable(w)
           \/ StoreOutcome(w) \/ ReleaseSlot(w) \/ AckMessage(w)
    PROVE  Orderly(e)'
<1>1. /\ step \in [Workers -> Steps] /\ held \in [Workers -> Nat]
      /\ cursor \in Nat /\ pel \in [Names -> SUBSET (1..cursor)]
      /\ row \in [Execs -> {"none"} \cup Active \cup Terminal]
    BY DEF DeliveryInv, TypeOK, QueueTypeOK
<1>2. /\ Busy(w) /\ UNCHANGED <<stream, cursor, request>>
      /\ \A k \in Execs \ {JobOf(w)} : row'[k] = row[k]
      /\ row[JobOf(w)] = "none" => row'[JobOf(w)] = "none"
      /\ \A v \in Workers \ {w} : step'[v] = step[v] /\ held'[v] = held[v]
      /\ ~Busy(w)' \/ held'[w] = held[w]
      /\ \A n \in Names : pel'[n] \subseteq pel[n]
    BY JobSteps
<1>3. CASE JobOf(w) # e
    <2>1. ~Busy(w)' \/ stream[held'[w]] # e
        BY <1>2, <1>3 DEF JobOf
    <2> QED BY <1>2, <1>3, <2>1, ElsewhereOrderly
<1>4. CASE JobOf(w) = e
    <2>1. /\ held[w] \in MessagesOf(e) /\ held[w] \in 1..cursor
          /\ held[w] \in pel[NameOf[w]] /\ NameOf[w] \in Names
        BY <1>2, <1>4, HeldMessage
    <2>2. MessagesOf(e)' = MessagesOf(e) /\ \A m \in MessagesOf(e) : m = held[w]
        BY <1>2, <2>1 DEF MessagesOf, Messages, Orderly, OneMessage
    \* w is the only one at work on e.
    <2>3. ASSUME NEW v \in Workers \ {w}, Busy(v) PROVE JobOf(v) # e
        <3>1. ASSUME JobOf(v) = e PROVE FALSE
            <4>1. held[v] = held[w] /\ held[v] \in pel[NameOf[v]] /\ NameOf[v] \in Names
                BY <2>2, <2>3, <3>1, HeldMessage
            <4>2. NameOf[v] = NameOf[w]
                BY <2>1, <4>1 DEF DeliveryInv, PendingUnderOneName
            <4> QED BY <4>2 DEF UniqueNames
        <3> QED BY <3>1
    \* Where w is afterwards.
    <2>4. /\ step'[w] \in {"load", "mark", "run", "save", "fail"} => row'[e] \notin Terminal
          /\ step'[w] = "release" => row'[e] \notin Active
          /\ row'[e] \in Terminal =>
                 \/ held'[w] = held[w] /\ step'[w] \in {"release", "ack"}
                 \/ \A n \in Names : held[w] \notin pel'[n]
        <3>1. CASE LoadJob(w)
            <4>1. row[e] \notin Terminal /\ UNCHANGED row
                BY <1>2, <1>4, <3>1 DEF LoadJob, Orderly, FirstPass
            <4> QED BY <1>1, <3>1, <4>1 DEF LoadJob, Proceed
        <3>2. CASE MarkRunning(w)
            BY <1>1, <1>4, <3>2 DEF MarkRunning, SetStatus, Proceed, Terminal
        <3>3. CASE RunOnce(w) \/ EngineUnavailable(w)
            <4>1. row[e] \notin Terminal /\ row' = row
                BY <1>2, <1>4, <3>3 DEF RunOnce, EngineUnavailable, Orderly, FirstPass
            <4> QED BY <1>1, <3>3, <4>1 DEF RunOnce, EngineUnavailable, Proceed, Finish
        <3>4. CASE StoreOutcome(w)
            BY <1>1, <1>4, <3>4 DEF StoreOutcome, SetStatus, Proceed, Active
        <3>5. CASE ReleaseSlot(w)
            BY <1>1, <3>5 DEF ReleaseSlot, Proceed
        <3>6. CASE AckMessage(w)
            BY <1>1, <3>6 DEF AckMessage, Finish, Ack
        <3> QED BY <3>1, <3>2, <3>3, <3>4, <3>5, <3>6
    <2>5. AnsweredIfPublished(e)' /\ OneMessage(e)'
        BY <1>2, <2>2 DEF Orderly, AnsweredIfPublished, OneMessage, Published
    <2>6. UnpublishedRow(e)'
        BY <1>2, <2>1 DEF Orderly, AnsweredIfPublished, Published, UnpublishedRow
    <2>7. FirstPass(e)'
        <3>1. ASSUME NEW v \in Workers \ {w}, Busy(v)' PROVE JobOf(v)' # e
            BY <1>2, <2>3, <3>1 DEF Busy, JobOf
        <3> QED BY <2>4, <3>1 DEF FirstPass
    <2>8. FinishedIsHeld(e)'
        BY <1>2, <2>1, <2>2, <2>4 DEF FinishedIsHeld
    <2> QED BY <2>5, <2>6, <2>7, <2>8 DEF Orderly
<1> QED BY <1>3, <1>4

\* Only the execution of the request whose reply is lost, or of the consumer
\* that dies, gets out of order.
LEMMA NextOrderly ==
    ASSUME UniqueNames, DeliveryInv, [Next]_vars
    PROVE  \/ \A e \in Execs : Orderly(e) => Orderly(e)'
           \/ /\ doubts' = doubts + 1
              /\ \E b \in Execs : \A e \in Execs \ {b} : Orderly(e) => Orderly(e)'
<1>1. doubts' = doubts \/ doubts' = doubts + 1
    BY DoubtsGrow DEF DeliveryInv
<1>2. ASSUME NEW k \in Execs,
             \/ Validate(k) \/ Acquire(k) \/ AcquireDown(k)
             \/ Insert(k) \/ Publish(k) \/ FailRow(k) \/ Refund(k) \/ ApiCrash(k)
             \/ WriteUnsupported(k)
      PROVE  \A e \in Execs : Orderly(e) /\ (k # e \/ doubts' = doubts) => Orderly(e)'
    BY <1>2, ApiOrderly
<1>3. ASSUME NEW w \in Workers,
             WorkerStep(w) \/ ReadNextResent(w) \/ EngineUnavailable(w)
      PROVE  \A e \in Execs : Orderly(e) => Orderly(e)'
    BY <1>3, ReadOrderly, JobOrderly DEF WorkerStep
<1>4. ASSUME NEW w \in Workers, Throw(w)
      PROVE  \/ \A e \in Execs : Orderly(e) => Orderly(e)'
             \/ /\ doubts' = doubts + 1
                /\ \E b \in Execs : \A e \in Execs \ {b} : Orderly(e) => Orderly(e)'
    <2>1. \A e \in Execs : Orderly(e) /\ (Busy(w) => JobOf(w) # e) => Orderly(e)'
        BY <1>4, ReadOrderly
    <2>2. doubts' = doubts + 1
        BY <1>4 DEF Throw, Fault, Doubtful
    <2>3. Busy(w) => JobOf(w) \in Execs
        BY HeldMessage
    <2> QED BY <2>1, <2>2, <2>3
<1>5. ASSUME NEW k \in Execs, DeleteRow(k), NEW e \in Execs, Orderly(e) PROVE Orderly(e)'
    <2>1. row \in [Execs -> {"none"} \cup Active \cup Terminal]
        BY DEF DeliveryInv, TypeOK
    <2>2. row' = [row EXCEPT ![k] = "none"] /\ UNCHANGED <<queueVars, request, workerVars>>
        BY <1>5 DEF DeleteRow, apiVars
    <2>3. row'[e] = row[e] \/ row'[e] = "none"
        BY <2>1, <2>2
    <2>4. "none" \notin Terminal /\ "none" \notin Active
        BY DEF Terminal, Active
    <2> QED
        BY <1>5, <2>2, <2>3, <2>4
           DEF Orderly, AnsweredIfPublished, OneMessage, UnpublishedRow, FirstPass,
               FinishedIsHeld, queueVars, workerVars, Published, MessagesOf, Messages, JobOf,
               Busy
<1>6. ASSUME Tick \/ UNCHANGED vars, NEW e \in Execs, Orderly(e) PROVE Orderly(e)'
    <2>1. UNCHANGED <<queueVars, request, row, workerVars>>
        BY <1>6 DEF Tick, vars, apiVars
    <2> QED
        BY <1>6, <2>1
           DEF Orderly, AnsweredIfPublished, OneMessage, UnpublishedRow, FirstPass,
               FinishedIsHeld, queueVars, workerVars, Published, MessagesOf, Messages, JobOf,
               Busy
<1> QED BY <1>1, <1>2, <1>3, <1>4, <1>5, <1>6 DEF Next, ApiNext, WorkerNext

LEMMA InitOrderly == Init => \A e \in Execs : Orderly(e)
<1> SUFFICES ASSUME Init, NEW e \in Execs PROVE Orderly(e)
    OBVIOUS
<1>1. Messages = {}
    BY DEF Init, QueueInit, Messages
<1> QED
    BY <1>1 DEF Init, Orderly, AnsweredIfPublished, OneMessage, UnpublishedRow, FirstPass,
                FinishedIsHeld, Published, MessagesOf, Busy

\* One doubt more covers one more execution that got out of order.
LEMMA DoubtsCover ==
    ASSUME TypeOK, [Next]_vars, NEW S, NEW T, S \subseteq Execs, T \subseteq Execs,
           \/ T \subseteq S
           \/ doubts' = doubts + 1 /\ \E b \in Execs : T \subseteq S \cup {b},
           Cardinality(S) <= doubts
    PROVE  Cardinality(T) <= doubts'
<1>1. /\ IsFiniteSet(S) /\ Cardinality(S) \in Nat /\ IsFiniteSet(T) /\ Cardinality(T) \in Nat
      /\ doubts \in Nat /\ (doubts' = doubts \/ doubts' = doubts + 1)
    BY ExecutionsAssumption, FS_Subset, FS_CardinalityType, DoubtsGrow DEF TypeOK
<1>2. CASE T \subseteq S
    <2>1. Cardinality(T) <= Cardinality(S)
        BY <1>1, <1>2, FS_Subset
    <2> QED BY <1>1, <2>1
<1>3. ASSUME doubts' = doubts + 1, NEW b \in Execs, T \subseteq S \cup {b}
      PROVE  Cardinality(T) <= doubts'
    <2>1. /\ IsFiniteSet(S \cup {b})
          /\ Cardinality(S \cup {b}) = IF b \in S THEN Cardinality(S) ELSE Cardinality(S) + 1
        BY <1>1, FS_AddElement
    <2>2. Cardinality(T) <= Cardinality(S \cup {b})
        BY <1>3, <2>1, FS_Subset
    <2> QED BY <1>1, <1>3, <2>1, <2>2
<1> QED BY <1>2, <1>3

Disorderly == {e \in Execs : ~Orderly(e)}

LEMMA DisorderBounded ==
    UniqueNames => (Spec => [](DeliveryInv /\ Cardinality(Disorderly) <= doubts))
<1> SUFFICES ASSUME UniqueNames
             PROVE  Spec => [](DeliveryInv /\ Cardinality(Disorderly) <= doubts)
    OBVIOUS
<1>1. Init => Cardinality(Disorderly) <= doubts
    <2> SUFFICES ASSUME Init PROVE Cardinality(Disorderly) <= doubts
        OBVIOUS
    <2>1. Disorderly = {} /\ doubts = 0
        BY InitOrderly DEF Disorderly, Init
    <2> QED BY <2>1, FS_EmptySet
<1>2. DeliveryInv /\ Cardinality(Disorderly) <= doubts /\ [Next]_vars =>
          (Cardinality(Disorderly) <= doubts)'
    <2> SUFFICES ASSUME DeliveryInv, Cardinality(Disorderly) <= doubts, [Next]_vars
                 PROVE  Cardinality(Disorderly') <= doubts'
        OBVIOUS
    <2>1. \/ Disorderly' \subseteq Disorderly
          \/ doubts' = doubts + 1 /\ \E b \in Execs : Disorderly' \subseteq Disorderly \cup {b}
        BY NextOrderly DEF Disorderly
    <2>2. TypeOK /\ Disorderly \subseteq Execs /\ Disorderly' \subseteq Execs
        BY DEF DeliveryInv, Disorderly
    <2> QED BY <2>1, <2>2, DoubtsCover
<1>3. DeliveryInv /\ [Next]_vars => DeliveryInv'
    BY NextDelivery
<1> QED BY <1>1, <1>2, <1>3, InitDelivery, PTL DEF Spec

\* Nobody overwrites the outcome of an orderly execution.
LEMMA OutcomeKept ==
    ASSUME DeliveryInv, [Next]_vars, NEW e \in Execs, Orderly(e), row[e] \in Terminal
    PROVE  row'[e] \in {row[e], "none"}
<1>1. row \in [Execs -> {"none"} \cup Active \cup Terminal]
    BY DEF DeliveryInv, TypeOK
<1>2. ASSUME NEW k \in Execs,
             \/ Validate(k) \/ Acquire(k) \/ AcquireDown(k)
             \/ Insert(k) \/ Publish(k) \/ FailRow(k) \/ Refund(k) \/ ApiCrash(k)
             \/ WriteUnsupported(k)
      PROVE  row'[e] = row[e]
    <2>1. CASE k # e
        BY <1>2, <2>1, ApiSteps DEF DeliveryInv
    <2>2. CASE k = e
        <3>1. request[e] \notin {"new", "acquired", "failing"}
            BY DEF Orderly, UnpublishedRow, Terminal
        <3> QED BY <1>1, <1>2, <2>2, <3>1
                DEF Validate, Acquire, AcquireDown, Insert, Publish, FailRow, Refund, ApiCrash,
                    WriteUnsupported
    <2> QED BY <2>1, <2>2
<1>3. ASSUME NEW w \in Workers, MarkRunning(w) \/ StoreOutcome(w)
      PROVE  row'[e] = row[e]
    <2>1. Busy(w) /\ step[w] \in {"mark", "save", "fail"}
        BY <1>3 DEF MarkRunning, StoreOutcome, Busy
    <2>2. JobOf(w) # e
        BY <2>1 DEF Orderly, FirstPass
    <2> QED BY <1>3, <2>2, JobSteps
<1>4. ASSUME NEW w \in Workers,
             WorkerStep(w) \/ ReadNextResent(w) \/ EngineUnavailable(w) \/ Throw(w),
             ~MarkRunning(w), ~StoreOutcome(w)
      PROVE  row' = row
    BY <1>4 DEF WorkerStep, ReadOwnPending, ReadNext, ReadNextResent, LoadJob, RunOnce,
                EngineUnavailable, ReleaseSlot, AckMessage, Throw
<1>5. ASSUME NEW k \in Execs, DeleteRow(k) PROVE row'[e] \in {row[e], "none"}
    BY <1>1, <1>5 DEF DeleteRow
<1>6. CASE Tick \/ UNCHANGED vars
    BY <1>6 DEF Tick, vars
<1> QED BY <1>2, <1>3, <1>4, <1>5, <1>6 DEF Next, ApiNext, WorkerNext

\* The status a client polled as final is not taken back, as long as no reply is
\* lost and no consumer dies.
THEOREM OutcomesAreFinal == UniqueNames => (Spec => TerminalIsFinal)
<1> SUFFICES ASSUME UniqueNames PROVE Spec => TerminalIsFinal
    OBVIOUS
<1> DEFINE Kept == doubts = 0 =>
               \A e \in Execs : row[e] \in Terminal => row'[e] \in {row[e], "none"}
<1>1. DeliveryInv /\ Cardinality(Disorderly) <= doubts /\ [Next]_vars => [Kept]_vars
    <2> SUFFICES ASSUME DeliveryInv, Cardinality(Disorderly) <= doubts, [Next]_vars,
                        doubts = 0, NEW e \in Execs, row[e] \in Terminal
                 PROVE  row'[e] \in {row[e], "none"}
        OBVIOUS
    <2>1. IsFiniteSet(Disorderly) /\ Cardinality(Disorderly) \in Nat
        BY ExecutionsAssumption, FS_Subset, FS_CardinalityType DEF Disorderly
    <2>2. Disorderly = {}
        BY <2>1, FS_EmptySet
    <2> QED BY <2>2, OutcomeKept DEF Disorderly
<1>2. Spec => [](DeliveryInv /\ Cardinality(Disorderly) <= doubts)
    BY DisorderBounded
<1> QED BY <1>1, <1>2, PTL DEF Spec, TerminalIsFinal

-----------------------------------------------------------------------------
(* What stays, for consumers with distinct names, whatever else goes wrong. *)

\* The request that creates e is done with its row and with the stream, and
\* every message that names e is acknowledged.
Settled(e) ==
    /\ request[e] \notin {"new", "validated", "acquired", "inserted", "failing"}
    /\ \A m \in MessagesOf(e) : Acked(m)

\* What a settled execution may still meet: its row is deleted, its slot freed.
StaysSettled(e) ==
    Settled(e) => /\ Settled(e)'
                  /\ row'[e] \in {row[e], "none"}
                  /\ slot'[e] \in {slot[e], 0}

\* A message is added by the request of its execution only, and what is
\* acknowledged is not handed out again.
LEMMA SettledMessages ==
    ASSUME DeliveryInv, [Next]_vars, NEW e \in Execs, Settled(e)
    PROVE  MessagesOf(e)' = MessagesOf(e) /\ \A m \in MessagesOf(e) : Acked(m)'
<1>1. /\ stream \in Seq(Execs) /\ cursor \in 0..Len(stream) /\ pel \in [Names -> SUBSET (1..cursor)]
    BY ExecutionsAssumption DEF DeliveryInv, TypeOK, QueueTypeOK
<1>2. UNCHANGED stream \/ \E k \in Execs : k # e /\ Enqueue(k)
    <2>1. ASSUME NEW k \in Execs, Publish(k) \/ WriteUnsupported(k)
          PROVE  k # e /\ (Enqueue(k) \/ UNCHANGED stream)
        BY <2>1 DEF Publish, WriteUnsupported, Settled
    <2>2. ASSUME NEW k \in Execs,
                 \/ Validate(k) \/ Acquire(k) \/ AcquireDown(k) \/ Insert(k)
                 \/ FailRow(k) \/ Refund(k) \/ ApiCrash(k) \/ DeleteRow(k)
          PROVE  UNCHANGED stream
        BY <2>2 DEF Validate, Acquire, AcquireDown, Insert, FailRow, Refund, ApiCrash,
                    DeleteRow, queueVars
    <2>3. CASE WorkerNext \/ Tick \/ UNCHANGED vars
        BY <2>3 DEF WorkerNext, WorkerStep, ReadOwnPending, ReadNext, ReadNextResent, LoadJob,
                    MarkRunning, RunOnce, EngineUnavailable, StoreOutcome, ReleaseSlot,
                    AckMessage, Throw, Tick, vars, queueVars
    <2> QED BY <2>1, <2>2, <2>3 DEF Next, ApiNext
<1>3. MessagesOf(e)' = MessagesOf(e)
    <2>1. CASE UNCHANGED stream
        BY <2>1 DEF MessagesOf, Messages
    <2>2. ASSUME NEW k \in Execs, k # e, Enqueue(k) PROVE MessagesOf(e)' = MessagesOf(e)
        BY <1>1, <2>2 DEF Enqueue, MessagesOf, Messages
    <2> QED BY <1>2, <2>1, <2>2
<1>4. /\ cursor' \in {cursor, cursor + 1}
      /\ \A n \in Names : pel'[n] \subseteq pel[n] \cup {cursor + 1}
      /\ cursor' = cursor => \A n \in Names : pel'[n] \subseteq pel[n]
    <2>1. UNCHANGED <<cursor, pel>> \/ (\E n \in Names : DeliverNext(n)) \/ \E m : UNCHANGED cursor /\ Ack(m)
        BY ExecutionsAssumption
           DEF Next, ApiNext, WorkerNext, WorkerStep, Validate, Acquire, AcquireDown, Insert,
               Publish, FailRow, Refund, ApiCrash, WriteUnsupported, ReadOwnPending, ReadNext,
               ReadNextResent, LoadJob, MarkRunning, RunOnce, EngineUnavailable, StoreOutcome,
               ReleaseSlot, AckMessage, Throw, Tick, DeleteRow, vars, queueVars
    <2> QED BY <1>1, <2>1 DEF DeliverNext, Ack
<1>5. ASSUME NEW m \in MessagesOf(e) PROVE Acked(m)'
    <2>1. m \in 1..cursor /\ \A n \in Names : m \notin pel[n]
        BY DEF Settled, Acked
    <2> QED BY <1>1, <1>4, <2>1 DEF Acked
<1> QED BY <1>3, <1>5

\* What the consumers and the requests of others do to its row and its slot.
LEMMA SettledRow ==
    ASSUME DeliveryInv, [Next]_vars, NEW e \in Execs, Settled(e)
    PROVE  /\ request'[e] \notin {"new", "validated", "acquired", "inserted", "failing"}
           /\ row'[e] \in {row[e], "none"}
           /\ slot'[e] \in {slot[e], 0}
<1> DEFINE Ends == /\ request'[e] \notin {"new", "validated", "acquired", "inserted", "failing"}
                   /\ row'[e] \in {row[e], "none"}
                   /\ slot'[e] \in {slot[e], 0}
<1>1. /\ request \in [Execs -> RequestStates] /\ slot \in [Execs -> Nat]
      /\ row \in [Execs -> {"none"} \cup Active \cup Terminal]
    BY DEF DeliveryInv, TypeOK
<1>2. request[e] \notin {"new", "validated", "acquired", "inserted", "failing"}
    BY DEF Settled
<1>3. ASSUME NEW k \in Execs,
             \/ Validate(k) \/ AcquireDown(k) \/ Insert(k) \/ Publish(k) \/ FailRow(k)
             \/ Refund(k) \/ ApiCrash(k) \/ WriteUnsupported(k)
      PROVE  Ends
    <2>1. CASE k = e
        BY <1>1, <1>2, <1>3, <2>1
           DEF Validate, AcquireDown, Insert, Publish, FailRow, Refund, Refunded, ApiCrash,
               WriteUnsupported, Goto, limitVars
    <2>2. CASE k # e
        BY <1>1, <1>2, <1>3, <2>2
           DEF Validate, AcquireDown, Insert, Publish, FailRow, Refund, Refunded, ApiCrash,
               WriteUnsupported, Goto, limitVars, SetStatus
    <2> QED BY <2>1, <2>2
<1>4. ASSUME NEW k \in Execs, Acquire(k) PROVE Ends
    <2>1. k # e /\ UNCHANGED row /\ (request' = request \/ \E next : Goto(k, next))
        BY <1>2, <1>4 DEF Acquire
    <2>2. slot' = Trim(slot, Owner[k]) \/ slot' = Taken(Trim(slot, Owner[k]), k)
        BY <1>4 DEF Acquire
    <2> QED BY <1>1, <1>2, <2>1, <2>2 DEF Goto, Trim, Taken
<1>5. ASSUME NEW w \in Workers, MarkRunning(w) \/ StoreOutcome(w) PROVE Ends
    <2>1. /\ step[w] \notin {"pending", "next"} /\ UNCHANGED <<request, slot>>
          /\ \E status : SetStatus(JobOf(w), status)
        BY <1>5 DEF MarkRunning, StoreOutcome, apiVars, limitVars
    <2>2. JobOf(w) # e
        BY <2>1, HeldMessage DEF Busy, Settled, MessagesOf, Acked, JobOf
    <2> QED BY <1>1, <1>2, <2>1, <2>2 DEF SetStatus
<1>6. ASSUME NEW w \in Workers,
             \/ ReadOwnPending(w) \/ ReadNext(w) \/ LoadJob(w) \/ RunOnce(w) \/ ReleaseSlot(w)
             \/ AckMessage(w) \/ ReadNextResent(w) \/ EngineUnavailable(w) \/ Throw(w)
      PROVE  Ends
    BY <1>1, <1>2, <1>6
       DEF ReadOwnPending, ReadNext, LoadJob, RunOnce, ReleaseSlot, AckMessage,
           ReadNextResent, EngineUnavailable, Throw, apiVars, limitVars
<1>7. ASSUME NEW k \in Execs, DeleteRow(k) PROVE Ends
    BY <1>1, <1>2, <1>7 DEF DeleteRow, apiVars, limitVars
<1>8. CASE Tick \/ UNCHANGED vars
    BY <1>2, <1>8 DEF Tick, vars, apiVars, limitVars
<1> QED BY <1>3, <1>4, <1>5, <1>6, <1>7, <1>8 DEF Next, ApiNext, WorkerNext, WorkerStep

\* Once its request is over and its messages are acknowledged, an execution is
\* settled for good: no message of it comes back, its row keeps the outcome
\* until it is deleted, its slot is never taken again.  This holds whatever is
\* lost, repeated or dies; with NothingLost, the row of a published execution
\* that is settled is completed, failed or gone.  (finish() of execute.ts, and
\* the group's pending list.)
THEOREM SettledForGood ==
    UniqueNames => (Spec => [][\A e \in Execs : StaysSettled(e)]_vars)
<1> SUFFICES ASSUME UniqueNames PROVE Spec => [][\A e \in Execs : StaysSettled(e)]_vars
    OBVIOUS
<1>1. DeliveryInv /\ [Next]_vars => [\A e \in Execs : StaysSettled(e)]_vars
    <2> SUFFICES ASSUME DeliveryInv, [Next]_vars, NEW e \in Execs, Settled(e)
                 PROVE  /\ Settled(e)'
                        /\ row'[e] \in {row[e], "none"}
                        /\ slot'[e] \in {slot[e], 0}
        BY DEF StaysSettled
    <2>1. Settled(e)'
        BY SettledMessages, SettledRow DEF Settled
    <2> QED BY <2>1, SettledRow
<1>2. DeliveryInv /\ [Next]_vars => DeliveryInv'
    BY NextDelivery
<1> QED BY <1>1, <1>2, InitDelivery, PTL DEF Spec

\* ... and its outcome is there.
COROLLARY SettledIsFinished ==
    UniqueNames =>
        (Spec => [](\A e \in Execs :
                        Settled(e) /\ Published(e) => row[e] \in Terminal \cup {"none"}))
<1> SUFFICES ASSUME UniqueNames
             PROVE  Spec => [](\A e \in Execs :
                        Settled(e) /\ Published(e) => row[e] \in Terminal \cup {"none"})
    OBVIOUS
<1>1. TypeOK /\ NothingLost => \A e \in Execs :
                        Settled(e) /\ Published(e) => row[e] \in Terminal \cup {"none"}
    BY DEF TypeOK, NothingLost, Settled
<1>2. Spec => []NothingLost
    BY NothingIsLost
<1> QED BY <1>1, <1>2, TypeCorrect, PTL

-----------------------------------------------------------------------------
(* The cap as the account is told it, while no slot expires too early.     *)

\* What a slot is held for.
Pending(e) ==
    \/ request[e] \in {"acquired", "inserted"}
    \/ Published(e) /\ row[e] \in Active

\* Its slot does not expire before e is finished.
Timely(e) == Pending(e) /\ slot[e] # 0 => slot[e] > now

SlotsOutlive == \A e \in Execs : Timely(e)

\* What will be or is being processed has a slot.
HoldsSlot(e) == Pending(e) /\ request[e] # "external" => slot[e] # 0

Amiss == {e \in Execs : ~(Orderly(e) /\ HoldsSlot(e))}

LEMMA ApiSlots ==
    ASSUME DeliveryInv, NEW e \in Execs, Orderly(e), HoldsSlot(e), Timely(e), NEW k \in Execs,
           \/ Validate(k) \/ Acquire(k) \/ AcquireDown(k)
           \/ Insert(k) \/ Publish(k) \/ FailRow(k) \/ Refund(k) \/ ApiCrash(k)
           \/ WriteUnsupported(k)
    PROVE  HoldsSlot(e)'
<1>1. /\ TypeOK /\ slot \in [Execs -> Nat] /\ now \in Nat
      /\ request \in [Execs -> RequestStates]
      /\ row \in [Execs -> {"none"} \cup Active \cup Terminal]
      /\ Trim(slot, Owner[k]) \in [Execs -> Nat]
    BY SlotsType DEF DeliveryInv, TypeOK
<1>2. UNCHANGED stream \/ Enqueue(k)
    BY <1>1, ApiSteps
<1>3. CASE k # e
    <2>1. request'[e] = request[e] /\ row'[e] = row[e] /\ MessagesOf(e)' = MessagesOf(e)
        BY <1>1, <1>2, <1>3, ApiSteps, ApiMessages
    <2>2. Pending(e)' <=> Pending(e)
        BY <2>1 DEF Pending, Published
    <2>3. \/ slot' \in {slot, Trim(slot, Owner[k]), Taken(Trim(slot, Owner[k]), k)}
          \/ slot' = [slot EXCEPT ![k] = 0]
        BY DEF Validate, Acquire, AcquireDown, Insert, Publish, FailRow,
               Refund, ApiCrash, WriteUnsupported, Refunded, limitVars
    <2>4. slot'[e] \in {slot[e], Trim(slot, Owner[k])[e]}
        BY <1>1, <1>3, <2>3 DEF Taken
    \* Trimming removes nothing that is needed.
    <2>5. Pending(e) /\ slot[e] # 0 => Trim(slot, Owner[k])[e] = slot[e]
        BY <1>1 DEF Timely, Trim
    <2> QED BY <2>1, <2>2, <2>4, <2>5 DEF HoldsSlot
<1>4. CASE k = e
    <2>1. ~Published(e)
        BY <1>1, <1>4, ApiSteps DEF Orderly, AnsweredIfPublished
    <2>2. CASE Acquire(e)
        <3>1. UNCHANGED stream
            BY <2>2 DEF Acquire, queueVars
        <3>2. ~Published(e)'
            BY <2>1, <3>1 DEF Published, MessagesOf, Messages
        <3>3. /\ request'[e] = "acquired" => slot' = Taken(Trim(slot, Owner[e]), e)
              /\ request'[e] # "inserted"
            BY <1>1, <2>2 DEF Acquire, Goto, Fault
        <3>4. now + TTL # 0
            BY <1>1, ExecutionsAssumption
        <3> QED BY <1>1, <1>4, <3>2, <3>3, <3>4 DEF Pending, HoldsSlot, Taken
    <2>3. CASE Publish(e)
        <3>1. request[e] = "inserted" /\ UNCHANGED slot
            BY <2>3 DEF Publish, limitVars
        <3> QED BY <3>1 DEF HoldsSlot, Pending
    <2>4. CASE WriteUnsupported(e)
        BY <1>1, <2>4 DEF WriteUnsupported, Goto, HoldsSlot
    <2>5. CASE ~Acquire(e) /\ ~Publish(e) /\ ~WriteUnsupported(e)
        <3>1. UNCHANGED stream
            BY <1>4, <2>5
               DEF Validate, AcquireDown, Insert, FailRow, Refund, ApiCrash, queueVars
        <3>2. ~Published(e)'
            BY <2>1, <3>1 DEF Published, MessagesOf, Messages
        <3>3. request'[e] \in {"acquired", "inserted"} =>
                  request[e] = "acquired" /\ slot' = slot
            BY <1>1, <1>4, <2>5
               DEF Validate, AcquireDown, Insert, FailRow, Refund, ApiCrash, Goto, limitVars
        <3> QED BY <3>2, <3>3 DEF HoldsSlot, Pending
    <2> QED BY <2>2, <2>3, <2>4, <2>5
<1> QED BY <1>3, <1>4

LEMMA WorkerSlots ==
    ASSUME DeliveryInv, NEW e \in Execs, Orderly(e), HoldsSlot(e), NEW w \in Workers,
           WorkerStep(w) \/ ReadNextResent(w) \/ EngineUnavailable(w) \/ Throw(w)
    PROVE  HoldsSlot(e)'
<1>1. /\ slot \in [Execs -> Nat] /\ step \in [Workers -> Steps]
      /\ row \in [Execs -> {"none"} \cup Active \cup Terminal]
    BY DEF DeliveryInv, TypeOK
<1>2. UNCHANGED <<stream, request>>
    BY DEF WorkerStep, ReadOwnPending, ReadNext, ReadNextResent, LoadJob, MarkRunning, RunOnce,
           EngineUnavailable, StoreOutcome, ReleaseSlot, AckMessage, Throw, queueVars, apiVars
<1>3. Published(e)' <=> Published(e)
    BY <1>2 DEF Published, MessagesOf, Messages
\* A row that is active afterwards was active before.
<1>4. row'[e] \in Active => row[e] \in Active
    <2>1. CASE MarkRunning(w)
        <3>1. Busy(w) /\ step[w] = "mark"
            BY <2>1 DEF MarkRunning, Busy
        <3>2. JobOf(w) \in Execs /\ (JobOf(w) = e => row[e] \notin Terminal)
            BY <3>1, HeldMessage DEF Orderly, FirstPass
        <3> QED BY <1>1, <2>1, <3>2 DEF MarkRunning, SetStatus, Active
    <2>2. CASE StoreOutcome(w)
        BY <1>1, <2>2 DEF StoreOutcome, SetStatus, Active
    <2>3. CASE ~MarkRunning(w) /\ ~StoreOutcome(w)
        BY <2>3
           DEF WorkerStep, ReadOwnPending, ReadNext, ReadNextResent, LoadJob, RunOnce,
               EngineUnavailable, ReleaseSlot, AckMessage, Throw
    <2> QED BY <2>1, <2>2, <2>3
<1>5. Pending(e)' => Pending(e)
    BY <1>2, <1>3, <1>4 DEF Pending
<1>6. CASE ReleaseSlot(w)
    <2>1. /\ slot' = [slot EXCEPT ![JobOf(w)] = 0] /\ row' = row
          /\ Busy(w) /\ step[w] = "release"
        BY <1>6 DEF ReleaseSlot, Busy
    <2>2. CASE JobOf(w) # e
        BY <1>1, <1>2, <1>5, <2>1, <2>2 DEF HoldsSlot
    <2>3. CASE JobOf(w) = e
        <3>1. Published(e) /\ row[e] \notin Active
            BY <2>1, <2>3, HeldMessage DEF Published, Orderly, FirstPass
        <3>2. ~Pending(e)
            BY <3>1 DEF Orderly, AnsweredIfPublished, Pending
        <3> QED BY <1>5, <3>2 DEF HoldsSlot
    <2> QED BY <2>2, <2>3
<1>7. CASE ~ReleaseSlot(w)
    <2>1. UNCHANGED slot
        BY <1>7 DEF WorkerStep, ReadOwnPending, ReadNext, ReadNextResent, LoadJob, MarkRunning,
                    RunOnce, EngineUnavailable, StoreOutcome, AckMessage, Throw, limitVars
    <2> QED BY <1>2, <1>5, <2>1 DEF HoldsSlot
<1> QED BY <1>6, <1>7

LEMMA NextSlots ==
    ASSUME DeliveryInv, [Next]_vars, NEW e \in Execs, Orderly(e), HoldsSlot(e), Timely(e)
    PROVE  HoldsSlot(e)'
<1>1. ASSUME UNCHANGED <<stream, request, slot>>, row'[e] \in Active => row[e] \in Active
      PROVE  HoldsSlot(e)'
    BY <1>1 DEF HoldsSlot, Pending, Published, MessagesOf, Messages
<1>2. ASSUME NEW k \in Execs, DeleteRow(k) PROVE HoldsSlot(e)'
    <2>1. UNCHANGED <<stream, request, slot>> /\ row' = [row EXCEPT ![k] = "none"]
        BY <1>2 DEF DeleteRow, queueVars, apiVars, limitVars
    <2>2. row'[e] \in Active => row[e] \in Active
        BY <2>1 DEF Active, DeliveryInv, TypeOK
    <2> QED BY <1>1, <2>1, <2>2
<1>3. CASE Tick \/ UNCHANGED vars
    BY <1>1, <1>3 DEF Tick, vars, queueVars, apiVars, limitVars
<1> QED BY <1>2, <1>3, ApiSlots, WorkerSlots DEF Next, ApiNext, WorkerNext

LEMMA NextAmiss ==
    ASSUME UniqueNames, DeliveryInv, SlotsOutlive, Cardinality(Amiss) <= doubts, [Next]_vars
    PROVE  Cardinality(Amiss') <= doubts'
<1>1. \A e \in Execs : Orderly(e) /\ HoldsSlot(e) => HoldsSlot(e)'
    BY NextSlots DEF SlotsOutlive
<1>2. \/ Amiss' \subseteq Amiss
      \/ doubts' = doubts + 1 /\ \E b \in Execs : Amiss' \subseteq Amiss \cup {b}
    BY <1>1, NextOrderly DEF Amiss
<1>3. TypeOK /\ Amiss \subseteq Execs /\ Amiss' \subseteq Execs
    BY DEF DeliveryInv, Amiss
<1> QED BY <1>2, <1>3, DoubtsCover

LEMMA InitAmiss == Init => Cardinality(Amiss) <= doubts
<1> SUFFICES ASSUME Init PROVE Cardinality(Amiss) <= doubts
    OBVIOUS
<1>1. \A e \in Execs : HoldsSlot(e)
    BY DEF Init, QueueInit, HoldsSlot, Pending, Published, MessagesOf, Messages
<1>2. Amiss = {} /\ doubts = 0
    BY <1>1, InitOrderly DEF Amiss, Init
<1> QED BY <1>2, FS_EmptySet

\* What the account is told follows from what Redis sees: whatever is not amiss
\* holds a slot.
LEMMA SlotsCount ==
    ASSUME TypeOK, SlotsOutlive, SlotCap, Cardinality(Amiss) <= doubts, NEW a \in Accounts
    PROVE  Cardinality(Unfinished(a)) <= MaxConcurrent + doubts
<1>1. Unfinished(a) \subseteq InFlight(slot, a) \cup Amiss
    BY DEF Unfinished, InFlight, Amiss, HoldsSlot, SlotsOutlive, Timely, Pending
<1>2. /\ IsFiniteSet(InFlight(slot, a)) /\ Cardinality(InFlight(slot, a)) \in Nat
      /\ IsFiniteSet(Amiss) /\ Cardinality(Amiss) \in Nat
      /\ IsFiniteSet(Unfinished(a)) /\ Cardinality(Unfinished(a)) \in Nat
    BY ExecutionsAssumption, FS_Subset, FS_CardinalityType DEF InFlight, Amiss, Unfinished
<1>3. /\ IsFiniteSet(InFlight(slot, a) \cup Amiss)
      /\ Cardinality(InFlight(slot, a) \cup Amiss)
             <= Cardinality(InFlight(slot, a)) + Cardinality(Amiss)
    <2>1. /\ IsFiniteSet(InFlight(slot, a) \cup Amiss)
          /\ Cardinality(InFlight(slot, a) \cup Amiss)
               = Cardinality(InFlight(slot, a)) + Cardinality(Amiss)
                   - Cardinality(InFlight(slot, a) \cap Amiss)
        BY <1>2, FS_Union
    <2>2. Cardinality(InFlight(slot, a) \cap Amiss) \in Nat
        BY <1>2, FS_Intersection, FS_CardinalityType
    <2> QED BY <1>2, <2>1, <2>2
<1>4. Cardinality(Unfinished(a)) <= Cardinality(InFlight(slot, a) \cup Amiss)
    BY <1>1, <1>3, FS_Subset
<1>5. Cardinality(InFlight(slot, a) \cup Amiss) \in Nat
    BY <1>3, FS_CardinalityType
<1> QED BY <1>2, <1>3, <1>4, <1>5, ExecutionsAssumption DEF SlotCap, TypeOK

\* No more executions of an account than its cap are queued or running at once,
\* and one for each reply or consumer that was lost, as long as every execution
\* is done before its slot expires, however long the behaviour is.
THEOREM InFlightWhileTimely ==
    UniqueNames =>
        (Spec /\ []SlotsOutlive =>
            [](\A a \in Accounts : Cardinality(Unfinished(a)) <= MaxConcurrent + doubts))
<1> SUFFICES ASSUME UniqueNames
             PROVE  Spec /\ []SlotsOutlive =>
                        [](\A a \in Accounts :
                               Cardinality(Unfinished(a)) <= MaxConcurrent + doubts)
    OBVIOUS
<1> DEFINE Bounded == Cardinality(Amiss) <= doubts
           Told == \A a \in Accounts : Cardinality(Unfinished(a)) <= MaxConcurrent + doubts
<1>1. Init => Bounded
    BY InitAmiss
<1>2. DeliveryInv /\ SlotsOutlive /\ Bounded /\ [Next]_vars => Bounded'
    BY NextAmiss
<1>3. DeliveryInv /\ SlotsOutlive /\ Bounded /\ SlotCap => Told
    BY SlotsCount DEF DeliveryInv
<1>4. DeliveryInv /\ [Next]_vars => DeliveryInv'
    BY NextDelivery
<1>5. Spec => []SlotCap
    BY SlotCapHolds
<1> HIDE DEF Bounded, Told
<1>6. Spec /\ []SlotsOutlive => []Told
    BY <1>1, <1>2, <1>3, <1>4, <1>5, InitDelivery, PTL DEF Spec
<1> QED BY <1>6 DEF Told

\* No slot expires before one TTL has passed.
FreshSlots == \A e \in Execs : slot[e] # 0 => slot[e] >= TTL

LEMMA NextFresh ==
    ASSUME TypeOK, FreshSlots, [Next]_vars
    PROVE  FreshSlots' /\ now' >= now
<1> USE ExecutionsAssumption
<1>1. slot \in [Execs -> Nat] /\ now \in Nat
    BY DEF TypeOK
<1>2. ASSUME NEW e \in Execs,
             \/ Validate(e) \/ Acquire(e) \/ AcquireDown(e)
             \/ Insert(e) \/ Publish(e) \/ FailRow(e) \/ Refund(e) \/ ApiCrash(e)
             \/ WriteUnsupported(e)
      PROVE  FreshSlots' /\ now' = now
    <2>1. \/ slot' \in {slot, Trim(slot, Owner[e]), Taken(Trim(slot, Owner[e]), e)}
          \/ slot' = [slot EXCEPT ![e] = 0]
        BY <1>2 DEF Validate, Acquire, AcquireDown, Insert, Publish, FailRow,
                    Refund, ApiCrash, WriteUnsupported, Refunded, limitVars
    <2>2. now' = now
        BY <1>2 DEF Validate, Acquire, AcquireDown, Insert, Publish, FailRow,
                    Refund, ApiCrash, WriteUnsupported, clockVars
    <2>3. Trim(slot, Owner[e]) \in [Execs -> Nat]
        BY SlotsType
    <2>4. \A k \in Execs : Trim(slot, Owner[e])[k] \in {0, slot[k]}
        BY DEF Trim
    <2>5. \A k \in Execs : slot'[k] \in {0, slot[k], now + TTL}
        BY <1>1, <2>1, <2>3, <2>4 DEF Taken
    <2> QED BY <1>1, <2>2, <2>5 DEF FreshSlots
<1>3. ASSUME NEW w \in Workers,
             WorkerStep(w) \/ ReadNextResent(w) \/ EngineUnavailable(w) \/ Throw(w)
      PROVE  FreshSlots' /\ now' = now
    <2>1. /\ slot' = slot \/ slot' = [slot EXCEPT ![JobOf(w)] = 0]
          /\ now' = now
        BY <1>3 DEF WorkerStep, ReadOwnPending, ReadNext, ReadNextResent, LoadJob,
                    MarkRunning, RunOnce, EngineUnavailable, StoreOutcome, ReleaseSlot,
                    AckMessage, Throw, limitVars, clockVars
    <2> QED BY <1>1, <2>1 DEF FreshSlots
<1>4. CASE Tick
    BY <1>1, <1>4 DEF Tick, limitVars, FreshSlots
<1>5. CASE (\E e \in Execs : DeleteRow(e)) \/ UNCHANGED vars
    BY <1>1, <1>5 DEF DeleteRow, vars, limitVars, clockVars, FreshSlots
<1> QED BY <1>1, <1>2, <1>3, <1>4, <1>5 DEF Next, ApiNext, WorkerNext

\* In particular until one TTL has passed.
THEOREM InFlightCapHolds == UniqueNames => (Spec => []InFlightWithinCap)
<1> SUFFICES ASSUME UniqueNames PROVE Spec => []InFlightWithinCap
    OBVIOUS
<1> DEFINE Bounded == now < TTL => Cardinality(Amiss) <= doubts
<1>1. TypeOK /\ FreshSlots /\ now < TTL => SlotsOutlive
    BY ExecutionsAssumption DEF TypeOK, FreshSlots, SlotsOutlive, Timely
<1>2. Init => FreshSlots /\ Bounded
    BY InitAmiss DEF Init, FreshSlots
<1>3. DeliveryInv /\ FreshSlots /\ Bounded /\ [Next]_vars => (FreshSlots /\ Bounded)'
    <2> SUFFICES ASSUME DeliveryInv, FreshSlots, Bounded, [Next]_vars
                 PROVE  (FreshSlots /\ Bounded)'
        OBVIOUS
    <2>1. TypeOK /\ now \in Nat /\ TTL \in Nat
        BY ExecutionsAssumption DEF DeliveryInv, TypeOK
    <2>2. FreshSlots' /\ now' >= now /\ now' \in Nat
        BY <2>1, NextFresh, NextTypeOK DEF TypeOK
    <2>3. now' < TTL => SlotsOutlive /\ Cardinality(Amiss) <= doubts
        BY <1>1, <2>1, <2>2
    <2> QED BY <2>2, <2>3, NextAmiss
<1>4. DeliveryInv /\ FreshSlots /\ Bounded /\ SlotCap => InFlightWithinCap
    BY <1>1, SlotsCount DEF DeliveryInv, InFlightWithinCap
<1>5. DeliveryInv /\ [Next]_vars => DeliveryInv'
    BY NextDelivery
<1>6. Spec => []SlotCap
    BY SlotCapHolds
<1> HIDE DEF Bounded
<1> QED BY <1>2, <1>3, <1>4, <1>5, <1>6, InitDelivery, PTL DEF Spec
=============================================================================
