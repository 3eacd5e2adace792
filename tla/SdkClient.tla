----------------------------- MODULE SdkClient -----------------------------
(***************************************************************************)
(* The SDK's run() (packages/sdk-ts/src/index.ts): one POST that queues an *)
(* execution, then waitFor, which polls it with growing pauses until it is *)
(* terminal, and heeds Retry-After when a poll is rate-limited.  Every     *)
(* request passes the limiter of RateLimit and then its handler            *)
(* (apps/api/src/routes/v1/executions.ts).                                 *)
(*                                                                         *)
(* A waiter is one call of run().  All of them, and other programs, use    *)
(* the keys of one account.  Requests and replies take any time.  What     *)
(* becomes of an execution is the business of Executions: a poll finds its *)
(* row unfinished, terminal or gone.                                       *)
(***************************************************************************)
EXTENDS RateLimit

CONSTANTS
    Waiters,    \* calls of run(), each for its own execution
    Account,    \* whose keys they use
    MaxOthers,  \* bound on the requests of other programs of the account
    FirstPoll,  \* FIRST_POLL_MS
    MaxPoll,    \* MAX_POLL_MS
    Timeout,    \* timeoutMs
    Faults,     \* the faults that may happen
    MaxFaults   \* bound on them

ASSUME SdkAssumption ==
    /\ Account \in Accounts
    /\ Waiters \X (1..(Timeout + 2)) \subseteq Requests
    /\ "other" \notin Waiters
    /\ {"other"} \X (1..MaxOthers) \subseteq Requests
    /\ FirstPoll \in 1..MaxPoll
    /\ MaxPoll \in Nat
    /\ Timeout \in Nat
    /\ MaxOthers \in Nat
    /\ MaxFaults \in Nat

VARIABLES
    pc,         \* where run() is
    sent,       \* sent[w]: requests of w so far; the first one is the POST
    wire,       \* wire[w]: how far its current request is
    delay,      \* delay of waitFor
    deadline,   \* deadline of waitFor
    wake,       \* when its sleep ends
    told,       \* requests whose refusal has reached the waiter (kept for
                \* properties)
    faults      \* faults so far

clientVars == <<pc, delay, deadline, wake, told>>
vars == <<limitVars, clientVars, sent, wire, faults>>

Ended == {"returned", "timedout", "thrown", "aborted"}

\* A request is sent, then answered: with a row that is unfinished or terminal,
\* with 429 and Retry-After, or by a failure.
Wire(at, retry) == [at |-> at, retry |-> retry]
At(w) == wire[w].at

TypeInvariant ==
    /\ TypeOK
    /\ pc \in [Waiters -> {"idle", "creating", "polling", "sleeping"} \union Ended]
    /\ sent \in [Waiters -> 0..(Timeout + 2)]
    /\ wire \in [Waiters -> [at : {"idle", "sent", "unfinished", "terminal",
                                   "limited", "failed"}, retry : Nat]]
    /\ delay \in [Waiters -> 0..MaxPoll]
    /\ deadline \in [Waiters -> Nat]
    /\ wake \in [Waiters -> Nat]
    /\ told \subseteq Requests
    /\ faults \in 0..MaxFaults

Init ==
    /\ LimitInit
    /\ pc = [w \in Waiters |-> "idle"]
    /\ sent = [w \in Waiters |-> 0]
    /\ wire = [w \in Waiters |-> Wire("idle", 0)]
    /\ delay = [w \in Waiters |-> 0]
    /\ deadline = [w \in Waiters |-> 0]
    /\ wake = [w \in Waiters |-> 0]
    /\ told = {}
    /\ faults = 0

Fault(kind) ==
    /\ kind \in Faults
    /\ faults < MaxFaults
    /\ faults' = faults + 1

-----------------------------------------------------------------------------
(***************************************************************************)
(* The client.                                                             *)
(***************************************************************************)
Send(w) ==
    /\ sent' = [sent EXCEPT ![w] = @ + 1]
    /\ wire' = [wire EXCEPT ![w] = Wire("sent", 0)]

\* createExecution; started early enough for its deadline to be reached.
Run(w) ==
    /\ pc[w] = "idle"
    /\ now + Timeout <= MaxTime
    /\ pc' = [pc EXCEPT ![w] = "creating"]
    /\ Send(w)
    /\ UNCHANGED <<limitVars, delay, deadline, wake, told, faults>>

\* run() has its id and calls waitFor, which polls at once.
Created(w) ==
    /\ pc[w] = "creating" /\ At(w) = "unfinished"
    /\ deadline' = [deadline EXCEPT ![w] = now + Timeout]
    /\ delay' = [delay EXCEPT ![w] = FirstPoll]
    /\ pc' = [pc EXCEPT ![w] = "polling"]
    /\ Send(w)
    /\ UNCHANGED <<limitVars, wake, told, faults>>

\* A slip: only a failed POST is thrown.
ThrowPost(w) ==
    /\ pc[w] = "creating" /\ At(w) \in {"limited", "failed"}
    /\ pc' = [pc EXCEPT ![w] = "thrown"]
    /\ UNCHANGED <<limitVars, delay, deadline, wake, told, sent, wire, faults>>

\* A failed POST, limited or not, and a failed poll that is not limited.
Throw(w) ==
    /\ \/ pc[w] = "creating" /\ At(w) \in {"limited", "failed"}
       \/ pc[w] = "polling" /\ At(w) = "failed"
    /\ pc' = [pc EXCEPT ![w] = "thrown"]
    /\ UNCHANGED <<limitVars, delay, deadline, wake, told, sent, wire, faults>>

Return(w) ==
    /\ pc[w] = "polling" /\ At(w) = "terminal"
    /\ pc' = [pc EXCEPT ![w] = "returned"]
    /\ UNCHANGED <<limitVars, delay, deadline, wake, told, sent, wire, faults>>

\* Sleep for the pause, unless the next poll would come after the deadline.
Pause(w, pause) ==
    /\ wake' = [wake EXCEPT ![w] = now + pause]
    /\ pc' = [pc EXCEPT ![w] = IF now + pause > deadline[w] THEN "timedout" ELSE "sleeping"]
    /\ UNCHANGED <<limitVars, deadline, sent, wire, faults>>

\* A slip: without Math.min.
UncappedBackOff(d) == (3 * d + 1) \div 2

\* Math.min(MAX_POLL_MS, Math.round(delay * BACKOFF)).
BackOff(d) == IF (3 * d + 1) \div 2 < MaxPoll THEN (3 * d + 1) \div 2 ELSE MaxPoll

\* Not yet: back off.
NotYet(w) ==
    /\ pc[w] = "polling" /\ At(w) = "unfinished"
    /\ delay' = [delay EXCEPT ![w] = BackOff(@)]
    /\ UNCHANGED told
    /\ Pause(w, delay[w])

\* Rate-limited: pause as long as the server says.
HoldOff(w) ==
    /\ pc[w] = "polling" /\ At(w) = "limited"
    /\ told' = told \union {<<w, sent[w]>>}
    /\ UNCHANGED delay
    /\ Pause(w, wire[w].retry * Second)

\* The timer of sleep() ends, not before its time.
Poll(w) ==
    /\ pc[w] = "sleeping"
    /\ now >= wake[w]
    /\ pc' = [pc EXCEPT ![w] = "polling"]
    /\ Send(w)
    /\ UNCHANGED <<limitVars, delay, deadline, wake, told, faults>>

\* The caller's signal rejects the fetch or the sleep; a request under way may
\* still reach its handler.
Abort(w) ==
    /\ pc[w] \in {"creating", "polling", "sleeping"}
    /\ Fault("abort")
    /\ pc' = [pc EXCEPT ![w] = "aborted"]
    /\ UNCHANGED <<limitVars, delay, deadline, wake, told, sent, wire>>

-----------------------------------------------------------------------------
(***************************************************************************)
(* The server.                                                             *)
(***************************************************************************)
\* What the handlers answer: POST /executions queues the execution;
\* GET /executions/:id finds its row unfinished, terminal, or not at all (404).
Handled(w) == IF sent[w] = 1 THEN {"unfinished"} ELSE {"unfinished", "terminal", "failed"}

\* The limiter runs its script, then the handler if the request is admitted.
Serve(w) ==
    /\ At(w) = "sent"
    /\ Script(Account, <<w, sent[w]>>)
    /\ \E at \in IF Allowed(Account) THEN Handled(w) ELSE {"limited"} :
        wire' = [wire EXCEPT ![w] = Wire(at, IF at = "limited"
                    THEN RetryAfter(Decision(Account, <<w, sent[w]>>)) ELSE 0)]
    /\ UNCHANGED <<clientVars, sent, faults>>

\* Redis fails, before the script or after it: the request is let through.
ServeUnlimited(w) ==
    /\ At(w) = "sent"
    /\ \/ Fault("down") /\ UNCHANGED limitVars
       \/ Fault("lost") /\ Script(Account, <<w, sent[w]>>)
    /\ \E at \in Handled(w) : wire' = [wire EXCEPT ![w] = Wire(at, 0)]
    /\ UNCHANGED <<clientVars, sent>>

\* Any other response than the expected one, or none.
RequestFails(w) ==
    /\ At(w) \in {"sent", "unfinished", "terminal", "limited"}
    /\ pc[w] \in {"creating", "polling"}
    /\ Fault("request")
    /\ wire' = [wire EXCEPT ![w] = Wire("failed", 0)]
    /\ UNCHANGED <<limitVars, clientVars, sent>>

\* Another program of the account sends a request.  (The last one matters only
\* while a waiter is there to be refused for it.)
OtherRequest ==
    /\ \E w \in Waiters : pc[w] \notin Ended
    /\ LET n == 1 + Cardinality({d \in decisions : d.id[1] = "other"})
       IN  n <= MaxOthers /\ Script(Account, <<"other", n>>)
    /\ UNCHANGED <<clientVars, sent, wire, faults>>

\* Timers are punctual: a late poll is the same as a slow request.  The bound on
\* time leaves every waitFor its timeout.
Clock ==
    /\ Tick
    /\ \A w \in Waiters : pc[w] = "sleeping" => now < wake[w]
    /\ (\E w \in Waiters : pc[w] = "creating") => now + Timeout < MaxTime
    /\ UNCHANGED <<clientVars, sent, wire, faults>>

WaiterStep(w) ==
    Created(w) \/ Throw(w) \/ Return(w) \/ NotYet(w) \/ HoldOff(w) \/ Poll(w)

Next ==
    \/ \E w \in Waiters :
        \/ Run(w) \/ WaiterStep(w) \/ Abort(w)
        \/ Serve(w) \/ ServeUnlimited(w) \/ RequestFails(w)
    \/ OtherRequest
    \/ Clock

\* Time passes, the client runs, the server answers what reaches it.
Fairness ==
    /\ WF_vars(Clock)
    /\ \A w \in Waiters : WF_vars(WaiterStep(w)) /\ WF_vars(Serve(w))

Spec == Init /\ [][Next]_vars /\ Fairness

-----------------------------------------------------------------------------
\* The log, trimmed when it is used and expired when it is not, admits and
\* refuses exactly as the complete history of the account would.
OneWindow == INSTANCE SlidingWindow WITH
    admitted <- Answered(Account, TRUE),
    refused <- Answered(Account, FALSE)

KeepsThePromise == OneWindow!WindowSpec

\* Retry-After is the truth, through the script, the header rounded to seconds
\* and the SDK's pause: a waiter that was told to hold off is refused again only
\* if the account had another request admitted since.
RetryAfterIsHonest ==
    \A d1, d2 \in decisions :
        (/\ d1.id \in told /\ ~ d2.allowed
         /\ d2.id = <<d1.id[1], d1.id[2] + 1>>) =>
            \E d \in decisions : d.allowed /\ d1.at < d.at /\ d.at <= d2.at

\* waitFor gives up early, when the next poll would be late, but never by more
\* than one poll, or by more than a window when it was rate-limited.
GivesUpLate ==
    [][\A w \in Waiters : (pc[w] # "timedout" /\ pc'[w] = "timedout") =>
            now + (IF At(w) = "limited" THEN Window + Second ELSE MaxPoll) > deadline[w]]_vars

\* Every run() ends, whatever becomes of its execution and of its requests.
EventuallyReturns == \A w \in Waiters : pc[w] = "creating" ~> pc[w] \in Ended
=============================================================================
