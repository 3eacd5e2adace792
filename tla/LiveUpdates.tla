---------------------------- MODULE LiveUpdates ----------------------------
(***************************************************************************)
(* How a page learns what becomes of its submission: the Redis channel the *)
(* workers publish on (packages/infra/src/pubsub.ts), the WebSocket hub of *)
(* the API that fans it out (apps/api/src/ws-hub.ts), and the page with    *)
(* its socket and its polling (apps/web/src/components/ResultsView.tsx).   *)
(* The workers are those of SubmissionLifecycle, which Grading implements. *)
(*                                                                         *)
(* Between two awaits anything may happen.  Faults are classes, and at     *)
(* most MaxFaults of them happen in a behaviour:                           *)
(*   "rejudge"  a finished submission is judged again                      *)
(*   "repeat"   a worker publishes the last update again                   *)
(*   "socket"   a socket fails or is refused                               *)
(*   "channel"  the hub's subscriber is disconnected and misses an update  *)
(*   "poll"     a poll fails                                               *)
(*   "delete"   the submission is deleted                                  *)
(***************************************************************************)
EXTENDS SubmissionLifecycle, Sequences

CONSTANTS
    Pages,          \* pages that show a submission
    Watches,        \* the submission each page shows
    Sockets,        \* the pages whose WebSocket can connect
    Polls,          \* the pages whose polling runs
    Faults,         \* the classes of faults that may happen
    MaxFaults       \* bound on how many do

FaultClasses == {"rejudge", "repeat", "socket", "channel", "poll", "delete"}

ASSUME LiveUpdatesAssumption ==
    /\ Watches \in [Pages -> Submissions]
    /\ Sockets \subseteq Pages /\ Polls \subseteq Pages
    /\ Faults \subseteq FaultClasses
    /\ MaxFaults \in Nat

VARIABLES
    channel,    \* updates published and not yet received by the hub
    ws,         \* ws[p]: the page's end of its socket
    attached,   \* attached[p]: the hub's end is open
    handler,    \* handler[p]: where the hub's subscribe handler stands
    snapshot,   \* snapshot[p]: the status the hub read for p
    subscribers,\* the pages in the hub's map
    frames,     \* frames[p]: frames sent to p and not yet received
    shown,      \* shown[p]: live.status
    settled,    \* settled[p]: settled.current
    poll,       \* poll[p]: where the polling loop stands
    reply,      \* reply[p]: the status the poll's GET has read
    missed,     \* the pages whose socket failed or missed an update (kept for
                \* the properties)
    faults      \* faults so far

hubVars == <<attached, handler, snapshot, subscribers>>
pollVars == <<poll, reply>>
pageVars == <<shown, settled>>
vars == <<lifecycleVars, channel, ws, hubVars, frames, pageVars, pollVars,
          missed, faults>>

\* What a frame carries: the submission and the status it reports, or an error.
Frame(s, state) == [submission |-> s, status |-> state]
Error == "error"

TypeOK ==
    /\ status \in [Submissions -> Statuses]
    /\ channel \in Seq([submission : Submissions, status : Statuses])
    /\ ws \in [Pages -> {"connecting", "open", "closed"}]
    /\ attached \in [Pages -> BOOLEAN]
    /\ handler \in [Pages -> {"idle", "owner", "snapshot", "send", "done"}]
    /\ snapshot \in [Pages -> Statuses]
    /\ subscribers \subseteq Pages
    /\ frames \in [Pages -> Seq(Statuses \cup {Error})]
    /\ shown \in [Pages -> Statuses]
    /\ settled \in [Pages -> BOOLEAN]
    /\ poll \in [Pages -> {"waiting", "fetching", "answered", "stopped"}]
    /\ reply \in [Pages -> Statuses]
    /\ missed \subseteq Pages
    /\ faults \in Nat

\* Every page opens right after its submission was created.
Init ==
    /\ status = [s \in Submissions |-> "Pending"]
    /\ verdict = [s \in Submissions |-> NoVerdict]
    /\ said = [s \in Submissions |-> Nothing]
    /\ channel = <<>>
    /\ ws = [p \in Pages |-> "connecting"]
    /\ attached = [p \in Pages |-> FALSE]
    /\ handler = [p \in Pages |-> "idle"]
    /\ snapshot = [p \in Pages |-> "none"]
    /\ subscribers = {}
    /\ frames = [p \in Pages |-> <<>>]
    /\ shown = [p \in Pages |-> "Pending"]
    /\ settled = [p \in Pages |-> FALSE]
    /\ poll = [p \in Pages |-> IF p \in Polls THEN "waiting" ELSE "stopped"]
    /\ reply = [p \in Pages |-> "none"]
    /\ missed = {}
    /\ faults = 0

Fault(class) ==
    /\ class \in Faults
    /\ faults < MaxFaults
    /\ faults' = faults + 1

-----------------------------------------------------------------------------
(* The workers, as SubmissionLifecycle describes them.                     *)

\* Judging starts; once finished, only a redelivery starts it again.
JudgeSubmission(s) ==
    /\ Judge(s)
    /\ IF status[s] = "Done" THEN Fault("rejudge")
       ELSE status[s] = "Pending" /\ UNCHANGED faults
    /\ UNCHANGED <<channel, ws, hubVars, frames, pageVars, pollVars, missed>>

ConcludeSubmission(s) ==
    /\ status[s] \in {"Pending", "Judging"}
    /\ \E v \in Verdicts : Conclude(s, v)
    /\ UNCHANGED <<channel, ws, hubVars, frames, pageVars, pollVars, missed, faults>>

\* publishSubmissionUpdate.
PublishUpdate(s) ==
    /\ Announce(s)
    /\ said[s] = Nothing
    /\ channel' = Append(channel, Frame(s, status[s]))
    /\ UNCHANGED <<ws, hubVars, frames, pageVars, pollVars, missed, faults>>

\* A redelivered message publishes what was published before.
RepeatUpdate(s) ==
    /\ Announce(s)
    /\ said[s] # Nothing
    /\ Fault("repeat")
    /\ channel' = Append(channel, Frame(s, status[s]))
    /\ UNCHANGED <<ws, hubVars, frames, pageVars, pollVars, missed>>

RemoveSubmission(s) ==
    /\ Remove(s)
    /\ Fault("delete")
    /\ UNCHANGED <<channel, ws, hubVars, frames, pageVars, pollVars, missed>>

WorkersNext ==
    \E s \in Submissions :
        \/ JudgeSubmission(s) \/ ConcludeSubmission(s) \/ PublishUpdate(s)
        \/ RepeatUpdate(s) \/ RemoveSubmission(s)

-----------------------------------------------------------------------------
(* The hub.                                                                *)

\* socket.send if the hub's end is open; a browser whose end is closed drops
\* what it receives.
Deliver(to, state) ==
    frames' = [p \in Pages |->
        IF p \in to /\ attached[p] /\ ws[p] = "open"
        THEN Append(frames[p], state) ELSE frames[p]]

\* Slip: the update is forwarded in an envelope, whose status is undefined.
FanOutWrapped ==
    /\ channel # <<>>
    /\ channel' = Tail(channel)
    /\ frames' = [p \in Pages |->
           IF p \in subscribers THEN Append(frames[p], "undefined") ELSE frames[p]]
    /\ UNCHANGED <<lifecycleVars, ws, hubVars, pageVars, pollVars, missed, faults>>

\* subscribeToSubmissionUpdates: to every open socket registered for s.
FanOut ==
    /\ channel # <<>>
    /\ channel' = Tail(channel)
    /\ Deliver({p \in subscribers : Watches[p] = Head(channel).submission},
               Head(channel).status)
    /\ UNCHANGED <<lifecycleVars, ws, hubVars, pageVars, pollVars, missed, faults>>

\* The subscriber was disconnected when the update was published.
MissUpdate ==
    /\ channel # <<>>
    /\ Fault("channel")
    /\ channel' = Tail(channel)
    /\ missed' = missed \cup
           {p \in subscribers : Watches[p] = Head(channel).submission}
    /\ UNCHANGED <<lifecycleVars, ws, hubVars, frames, pageVars, pollVars>>

\* The subscribe frame arrives; getSubmissionOwnerId is awaited.
Subscribe(p) ==
    /\ attached[p] /\ handler[p] = "idle"
    /\ handler' = [handler EXCEPT ![p] = "owner"]
    /\ UNCHANGED <<lifecycleVars, channel, ws, attached, snapshot, subscribers,
                   frames, pageVars, pollVars, missed, faults>>

\* The owner is known: register for live updates, then query the snapshot.
\* The socket may have closed meanwhile; it is registered all the same.
\* Without a row, an error frame is all the page gets.
Register(p) ==
    /\ handler[p] = "owner"
    /\ IF status[Watches[p]] = "none"
       THEN /\ handler' = [handler EXCEPT ![p] = "done"]
            /\ Deliver({p}, Error)
            /\ UNCHANGED subscribers
       ELSE /\ handler' = [handler EXCEPT ![p] = "snapshot"]
            /\ subscribers' = subscribers \cup {p}
            /\ UNCHANGED frames
    /\ UNCHANGED <<lifecycleVars, channel, ws, attached, snapshot, pageVars,
                   pollVars, missed, faults>>

\* Slip: no catch-up snapshot, live updates only.
NoSnapshot(p) ==
    /\ handler[p] = "snapshot"
    /\ handler' = [handler EXCEPT ![p] = "done"]
    /\ UNCHANGED <<lifecycleVars, channel, ws, attached, snapshot, subscribers,
                   frames, pageVars, pollVars, missed, faults>>

\* getSubmissionStatus reads the row.
ReadSnapshot(p) ==
    /\ handler[p] = "snapshot"
    /\ handler' = [handler EXCEPT ![p] = "send"]
    /\ snapshot' = [snapshot EXCEPT ![p] = status[Watches[p]]]
    /\ UNCHANGED <<lifecycleVars, channel, ws, attached, subscribers, frames,
                   pageVars, pollVars, missed, faults>>

\* The handler goes on with the row it read.
SendSnapshot(p) ==
    /\ handler[p] = "send"
    /\ handler' = [handler EXCEPT ![p] = "done"]
    /\ IF snapshot[p] = "none" THEN UNCHANGED frames ELSE Deliver({p}, snapshot[p])
    /\ UNCHANGED <<lifecycleVars, channel, ws, attached, snapshot, subscribers,
                   pageVars, pollVars, missed, faults>>

\* socket.on("close"): leaves the map, if the handler had entered it.
HubClose(p) ==
    /\ attached[p] /\ ws[p] = "closed"
    /\ attached' = [attached EXCEPT ![p] = FALSE]
    /\ subscribers' = subscribers \ {p}
    /\ UNCHANGED <<lifecycleVars, channel, ws, handler, snapshot, frames,
                   pageVars, pollVars, missed, faults>>

HubStep(p) ==
    \/ Subscribe(p) \/ Register(p) \/ ReadSnapshot(p) \/ SendSnapshot(p)
    \/ HubClose(p)

-----------------------------------------------------------------------------
(* The page: its WebSocket effect.                                         *)

CloseSocket(p) == ws' = [ws EXCEPT ![p] = "closed"]

Show(p, state) == shown' = [shown EXCEPT ![p] = state]

\* The socket opens; ws.onopen sends the subscribe frame.
Connect(p) ==
    /\ ws[p] = "connecting" /\ p \in Sockets
    /\ ws' = [ws EXCEPT ![p] = "open"]
    /\ attached' = [attached EXCEPT ![p] = TRUE]
    /\ UNCHANGED <<lifecycleVars, channel, handler, snapshot, subscribers, frames,
                   pageVars, pollVars, missed, faults>>

\* The socket fails; nothing reopens it.
Disconnect(p) ==
    /\ ws[p] # "closed"
    /\ Fault("socket")
    /\ CloseSocket(p)
    /\ missed' = missed \cup {p}
    /\ UNCHANGED <<lifecycleVars, channel, hubVars, frames, pageVars, pollVars>>

\* Slip: the socket stays open after Done.
ReceiveStaysOpen(p) ==
    /\ ws[p] = "open" /\ frames[p] # <<>>
    /\ frames' = [frames EXCEPT ![p] = Tail(@)]
    /\ IF Head(frames[p]) = Error
       THEN CloseSocket(p) /\ UNCHANGED pageVars
       ELSE /\ Show(p, Head(frames[p]))
            /\ settled' = [settled EXCEPT ![p] = @ \/ Head(frames[p]) = "Done"]
            /\ UNCHANGED ws
    /\ UNCHANGED <<lifecycleVars, channel, hubVars, pollVars, missed, faults>>

\* ws.onmessage: an error closes the socket, and so does Done; what a frame
\* says is shown, whatever was shown before.
Receive(p) ==
    /\ ws[p] = "open" /\ frames[p] # <<>>
    /\ frames' = [frames EXCEPT ![p] = Tail(@)]
    /\ IF Head(frames[p]) = Error
       THEN CloseSocket(p) /\ UNCHANGED pageVars
       ELSE /\ Show(p, Head(frames[p]))
            /\ IF Head(frames[p]) = "Done"
               THEN settled' = [settled EXCEPT ![p] = TRUE] /\ CloseSocket(p)
               ELSE UNCHANGED <<settled, ws>>
    /\ UNCHANGED <<lifecycleVars, channel, hubVars, pollVars, missed, faults>>

-----------------------------------------------------------------------------
(* The page: its polling effect.                                           *)

Poll(p, state) == poll' = [poll EXCEPT ![p] = state]

\* The timer fires: a settled page stops for good, else the GET is sent.
Tick(p) ==
    /\ poll[p] = "waiting"
    /\ Poll(p, IF settled[p] THEN "stopped" ELSE "fetching")
    /\ UNCHANGED <<lifecycleVars, channel, ws, hubVars, frames, pageVars, reply,
                   missed, faults>>

\* getSubmissionForOwner reads the row; 404 when there is none, and the page
\* keeps polling.
PollRead(p) ==
    /\ poll[p] = "fetching"
    /\ reply' = [reply EXCEPT ![p] = status[Watches[p]]]
    /\ Poll(p, IF status[Watches[p]] = "none" THEN "waiting" ELSE "answered")
    /\ UNCHANGED <<lifecycleVars, channel, ws, hubVars, frames, pageVars, missed, faults>>

\* The answer arrives: it is shown, whatever was shown before.
PollReply(p) ==
    /\ poll[p] = "answered"
    /\ Show(p, reply[p])
    /\ IF reply[p] = "Done"
       THEN settled' = [settled EXCEPT ![p] = TRUE] /\ Poll(p, "stopped")
       ELSE Poll(p, "waiting") /\ UNCHANGED settled
    /\ UNCHANGED <<lifecycleVars, channel, ws, hubVars, frames, reply, missed, faults>>

\* The GET fails: keep polling.
PollFails(p) ==
    /\ poll[p] \in {"fetching", "answered"}
    /\ Fault("poll")
    /\ Poll(p, "waiting")
    /\ UNCHANGED <<lifecycleVars, channel, ws, hubVars, frames, pageVars, reply, missed>>

PageStep(p) ==
    Connect(p) \/ Receive(p) \/ Tick(p) \/ PollRead(p) \/ PollReply(p)

Next ==
    \/ WorkersNext
    \/ FanOut \/ MissUpdate
    \/ \E p \in Pages :
          HubStep(p) \/ PageStep(p) \/ Disconnect(p) \/ PollFails(p)

\* Workers finish and announce (Grading, EventuallyJudged); Redis, the hub's
\* event loop, its queries and the browser's event loop keep going.
Fairness ==
    /\ \A s \in Submissions :
          WF_vars(ConcludeSubmission(s)) /\ WF_vars(PublishUpdate(s))
    /\ WF_vars(FanOut)
    /\ \A p \in Pages :
          /\ WF_vars(HubStep(p))
          /\ WF_vars(Connect(p) \/ Receive(p))
          /\ WF_vars(Tick(p) \/ PollRead(p) \/ PollReply(p))

Spec == Init /\ [][Next]_vars /\ Fairness
-----------------------------------------------------------------------------
(* What the component promises.                                            *)

\* The view is not left stuck (ResultsView.tsx), and a page that subscribes
\* after the worker finished does not hang (ws-hub.ts): once a submission is
\* finished for good, its page comes to show so, and goes on showing it, if
\* it polls or nothing happened to its socket.
EventuallyShown ==
    \A p \in Pages :
        <>[](status[Watches[p]] = "Done" /\ (p \in Polls \/ p \notin missed))
            => <>[](shown[p] = "Done")

\* A page that shows the verdict does not take it back, although pushes and
\* the snapshot of the hub may reach it out of order.
DoneIsKept ==
    [][\A p \in Pages : shown[p] = "Done" => shown'[p] = "Done"]_vars
=============================================================================
