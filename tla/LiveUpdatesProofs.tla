------------------------- MODULE LiveUpdatesProofs -------------------------
(***************************************************************************)
(* Theorems about LiveUpdates, for any submissions, pages, sockets and     *)
(* faults: types; a page that shows the verdict keeps it when it has a     *)
(* socket or polls, but not both, and else loses it only to what was       *)
(* already on its way; and the verdict it shows is that of its submission. *)
(***************************************************************************)
EXTENDS LiveUpdates, TLAPS

-----------------------------------------------------------------------------
(* Types.                                                                  *)

LEMMA InitTypes == Init => TypeOK
BY DEF Init, TypeOK, Statuses, Error

\* What is sent to a page is a status or an error.
LEMMA DeliverType ==
    ASSUME TypeOK, NEW to, NEW state \in Statuses \cup {Error}, Deliver(to, state)
    PROVE  frames' \in [Pages -> Seq(Statuses \cup {Error})]
<1> DEFINE F == Statuses \cup {Error}
<1>1. frames \in [Pages -> Seq(F)] /\ state \in F
    BY DEF TypeOK
<1> HIDE DEF F
<1>2. \A p \in Pages : Append(frames[p], state) \in Seq(F) /\ frames[p] \in Seq(F)
    BY <1>1
<1>3. frames' \in [Pages -> Seq(F)]
    BY <1>2 DEF Deliver
<1> QED BY <1>3 DEF F

LEMMA WorkersTypes ==
    ASSUME TypeOK, NEW s \in Submissions,
           \/ JudgeSubmission(s) \/ ConcludeSubmission(s) \/ PublishUpdate(s)
           \/ RepeatUpdate(s) \/ RemoveSubmission(s)
    PROVE  TypeOK'
<1> DEFINE C == [submission : Submissions, status : Statuses]
<1>1. status \in [Submissions -> Statuses] /\ channel \in Seq(C) /\ faults \in Nat
    BY DEF TypeOK
<1>2. UNCHANGED <<ws, hubVars, frames, pageVars, pollVars, missed>>
    BY DEF JudgeSubmission, ConcludeSubmission, PublishUpdate, RepeatUpdate,
           RemoveSubmission
<1>3. status' \in [Submissions -> Statuses]
    BY <1>1 DEF JudgeSubmission, ConcludeSubmission, PublishUpdate, RepeatUpdate,
                RemoveSubmission, Judge, Conclude, Announce, Remove, Statuses
<1>4. channel' \in Seq(C)
    <2>1. Frame(s, status[s]) \in C
        BY <1>1 DEF Frame
    <2>2. channel' = channel \/ channel' = Append(channel, Frame(s, status[s]))
        BY DEF JudgeSubmission, ConcludeSubmission, PublishUpdate, RepeatUpdate,
               RemoveSubmission
    <2> HIDE DEF C
    <2> QED BY <1>1, <2>1, <2>2
<1>5. faults' \in Nat
    BY <1>1 DEF JudgeSubmission, ConcludeSubmission, PublishUpdate, RepeatUpdate,
                RemoveSubmission, Fault
<1> QED BY <1>2, <1>3, <1>4, <1>5 DEF TypeOK, hubVars, pageVars, pollVars

LEMMA ChannelTypes ==
    ASSUME TypeOK, FanOut \/ MissUpdate
    PROVE  TypeOK'
<1> DEFINE C == [submission : Submissions, status : Statuses]
<1>1. channel \in Seq(C) /\ channel # <<>> /\ channel' = Tail(channel)
    BY DEF TypeOK, FanOut, MissUpdate
<1>2. channel' \in Seq(C) /\ Head(channel) \in C
    <2> HIDE DEF C
    <2> QED BY <1>1
<1>3. CASE FanOut
    <2>1. Head(channel).status \in Statuses \cup {Error}
        BY <1>2
    <2>2. frames' \in [Pages -> Seq(Statuses \cup {Error})]
        BY <1>3, <2>1, DeliverType DEF FanOut
    <2> QED
        BY <1>2, <1>3, <2>2 DEF FanOut, TypeOK, lifecycleVars, hubVars, pageVars, pollVars
<1>4. CASE MissUpdate
    BY <1>2, <1>4 DEF MissUpdate, Fault, TypeOK, lifecycleVars, hubVars, pageVars, pollVars
<1> QED BY <1>3, <1>4

LEMMA HubTypes ==
    ASSUME TypeOK, NEW p \in Pages, HubStep(p)
    PROVE  TypeOK'
<1>1. status[Watches[p]] \in Statuses
    BY LiveUpdatesAssumption DEF TypeOK
<1>2. CASE Subscribe(p)
    BY <1>2 DEF Subscribe, TypeOK, lifecycleVars, pageVars, pollVars
<1>3. CASE Register(p)
    <2>1. frames' \in [Pages -> Seq(Statuses \cup {Error})]
        <3>1. CASE Deliver({p}, Error)
            BY <3>1, DeliverType
        <3>2. CASE UNCHANGED frames
            BY <3>2 DEF TypeOK
        <3> QED BY <1>3, <3>1, <3>2 DEF Register
    <2>2. /\ handler' \in [Pages -> {"idle", "owner", "snapshot", "send", "done"}]
          /\ subscribers' \subseteq Pages
        BY <1>3 DEF Register, TypeOK
    <2> QED BY <1>3, <2>1, <2>2 DEF Register, TypeOK, lifecycleVars, pageVars, pollVars
<1>4. CASE ReadSnapshot(p)
    BY <1>1, <1>4 DEF ReadSnapshot, TypeOK, lifecycleVars, pageVars, pollVars
<1>5. CASE SendSnapshot(p)
    <2>1. snapshot[p] \in Statuses \cup {Error}
        BY DEF TypeOK
    <2>2. frames' \in [Pages -> Seq(Statuses \cup {Error})]
        <3>1. CASE Deliver({p}, snapshot[p])
            BY <2>1, <3>1, DeliverType
        <3>2. CASE UNCHANGED frames
            BY <3>2 DEF TypeOK
        <3> QED BY <1>5, <3>1, <3>2 DEF SendSnapshot
    <2>3. handler' \in [Pages -> {"idle", "owner", "snapshot", "send", "done"}]
        BY <1>5 DEF SendSnapshot, TypeOK
    <2> QED BY <1>5, <2>2, <2>3 DEF SendSnapshot, TypeOK, lifecycleVars, pageVars, pollVars
<1>6. CASE HubClose(p)
    BY <1>6 DEF HubClose, TypeOK, lifecycleVars, pageVars, pollVars
<1> QED BY <1>2, <1>3, <1>4, <1>5, <1>6 DEF HubStep

LEMMA PageTypes ==
    ASSUME TypeOK, NEW p \in Pages, PageStep(p) \/ Disconnect(p) \/ PollFails(p)
    PROVE  TypeOK'
<1>1. status[Watches[p]] \in Statuses
    BY LiveUpdatesAssumption DEF TypeOK
<1>2. CASE Connect(p)
    BY <1>2 DEF Connect, TypeOK, lifecycleVars, pageVars, pollVars
<1>3. CASE Receive(p)
    <2> DEFINE F == Statuses \cup {Error}
    <2>1. frames \in [Pages -> Seq(F)] /\ frames[p] # <<>>
        BY <1>3 DEF Receive, TypeOK
    <2>2. Tail(frames[p]) \in Seq(F) /\ Head(frames[p]) \in F
        <3> HIDE DEF F
        <3> QED BY <2>1
    <2>3. frames' \in [Pages -> Seq(F)]
        <3>1. frames' = [frames EXCEPT ![p] = Tail(frames[p])]
            BY <1>3 DEF Receive
        <3> HIDE DEF F
        <3> QED BY <2>1, <2>2, <3>1
    <2>4. shown' \in [Pages -> Statuses] /\ settled' \in [Pages -> BOOLEAN]
        <3>1. shown \in [Pages -> Statuses] /\ settled \in [Pages -> BOOLEAN]
            BY DEF TypeOK
        <3>2. \/ UNCHANGED shown
              \/ shown' = [shown EXCEPT ![p] = Head(frames[p])] /\ Head(frames[p]) \in Statuses
            BY <1>3, <2>2 DEF Receive, Show, pageVars
        <3>3. UNCHANGED settled \/ settled' = [settled EXCEPT ![p] = TRUE]
            BY <1>3 DEF Receive, pageVars
        <3> QED BY <3>1, <3>2, <3>3
    <2>5. ws' \in [Pages -> {"connecting", "open", "closed"}]
        BY <1>3 DEF Receive, CloseSocket, TypeOK
    <2> QED BY <1>3, <2>3, <2>4, <2>5 DEF Receive, TypeOK, lifecycleVars, hubVars, pollVars
<1>4. CASE Tick(p)
    BY <1>4 DEF Tick, Poll, TypeOK, lifecycleVars, hubVars, pageVars
<1>5. CASE PollRead(p)
    BY <1>1, <1>5 DEF PollRead, Poll, TypeOK, lifecycleVars, hubVars, pageVars
<1>6. CASE PollReply(p)
    BY <1>6 DEF PollReply, Poll, Show, TypeOK, lifecycleVars, hubVars
<1>7. CASE Disconnect(p)
    BY <1>7 DEF Disconnect, Fault, CloseSocket, TypeOK, lifecycleVars, hubVars, pageVars,
                pollVars
<1>8. CASE PollFails(p)
    BY <1>8 DEF PollFails, Fault, Poll, TypeOK, lifecycleVars, hubVars, pageVars
<1> QED BY <1>2, <1>3, <1>4, <1>5, <1>6, <1>7, <1>8 DEF PageStep

LEMMA NextTypes == TypeOK /\ [Next]_vars => TypeOK'
<1> SUFFICES ASSUME TypeOK, [Next]_vars PROVE TypeOK'
    OBVIOUS
<1>1. CASE UNCHANGED vars
    BY <1>1 DEF vars, TypeOK, lifecycleVars, hubVars, pageVars, pollVars
<1> QED
    BY <1>1, WorkersTypes, ChannelTypes, HubTypes, PageTypes DEF Next, WorkersNext

\* Every variable keeps its type: a page only ever shows a status, and a
\* socket only carries statuses and errors.
THEOREM TypesHold == Spec => []TypeOK
BY InitTypes, NextTypes, PTL DEF Spec

-----------------------------------------------------------------------------
(* A verdict once shown is kept.                                           *)

\* A page uses the paths it has.  One that shows the verdict will not poll
\* again, and with one path only it has closed that.
PathsClosed ==
    \A p \in Pages :
        /\ ws[p] = "open" => p \in Sockets
        /\ poll[p] # "stopped" => p \in Polls
        /\ shown[p] = "Done" => settled[p]
        /\ shown[p] = "Done" /\ p \notin Polls => ws[p] = "closed"
        /\ shown[p] = "Done" /\ p \notin Sockets => poll[p] = "stopped"

\* Nothing that a page still waits for can change what it shows.
Quiet(p) == ws[p] = "closed" /\ poll[p] \in {"waiting", "stopped"}

\* What a step may do to the verdict that a page shows: only the answer of a
\* poll that was under way, or a frame of a socket that is open, replaces it.
Kept(p) ==
    shown[p] = "Done" =>
        \/ shown'[p] = "Done" /\ (Quiet(p) => Quiet(p)')
        \/ p \in Sockets \cap Polls /\ poll[p] = "answered" /\ poll'[p] # "answered"
        \/ p \in Sockets \cap Polls /\ ws[p] = "open" /\ frames[p] # <<>>

LEMMA NextPaths ==
    ASSUME TypeOK, PathsClosed, [Next]_vars
    PROVE  PathsClosed' /\ \A p \in Pages : Kept(p)
<1>1. /\ ws \in [Pages -> {"connecting", "open", "closed"}]
      /\ shown \in [Pages -> Statuses] /\ settled \in [Pages -> BOOLEAN]
      /\ poll \in [Pages -> {"waiting", "fetching", "answered", "stopped"}]
    BY DEF TypeOK
<1>2. ASSUME UNCHANGED <<ws, shown, settled, poll>>
      PROVE  PathsClosed' /\ \A p \in Pages : Kept(p)
    BY <1>2 DEF PathsClosed, Kept, Quiet
<1>3. ASSUME WorkersNext \/ FanOut \/ MissUpdate \/ (\E p \in Pages : HubStep(p))
             \/ UNCHANGED vars
      PROVE  UNCHANGED <<ws, shown, settled, poll>>
    BY <1>3 DEF WorkersNext, JudgeSubmission, ConcludeSubmission, PublishUpdate,
                RepeatUpdate, RemoveSubmission, FanOut, MissUpdate, HubStep, Subscribe,
                Register, ReadSnapshot, SendSnapshot, HubClose, pageVars, pollVars, vars
<1>4. ASSUME NEW p \in Pages, PageStep(p) \/ Disconnect(p) \/ PollFails(p)
      PROVE  PathsClosed' /\ \A q \in Pages : Kept(q)
    <2>1. CASE Connect(p)
        BY <1>1, <2>1 DEF Connect, PathsClosed, Kept, Quiet, pageVars, pollVars
    <2>2. CASE Receive(p)
        <3>1. ws[p] = "open" /\ frames[p] # <<>> /\ UNCHANGED poll
            BY <2>2 DEF Receive, pollVars
        <3>2. \/ ws' = [ws EXCEPT ![p] = "closed"] /\ UNCHANGED <<shown, settled>>
              \/ /\ ws' = [ws EXCEPT ![p] = "closed"]
                 /\ shown' = [shown EXCEPT ![p] = "Done"]
                 /\ settled' = [settled EXCEPT ![p] = TRUE]
              \/ /\ UNCHANGED <<ws, settled>>
                 /\ shown' = [shown EXCEPT ![p] = Head(frames[p])]
                 /\ Head(frames[p]) # "Done"
            BY <2>2 DEF Receive, Show, CloseSocket, pageVars
        <3>3. p \in Sockets
            BY <3>1 DEF PathsClosed
        <3>4. PathsClosed'
            BY <1>1, <3>1, <3>2, <3>3 DEF PathsClosed
        <3>5. ASSUME NEW q \in Pages PROVE Kept(q)
            <4>1. CASE q # p
                BY <1>1, <3>1, <3>2, <4>1 DEF Kept, Quiet
            <4>2. CASE q = p
                <5>1. shown[p] = "Done" /\ p \notin Polls => FALSE
                    BY <3>1 DEF PathsClosed
                <5> QED BY <3>1, <3>3, <4>2, <5>1 DEF Kept
            <4> QED BY <4>1, <4>2
        <3> QED BY <3>4, <3>5
    <2>3. CASE Tick(p)
        BY <1>1, <2>3 DEF Tick, Poll, PathsClosed, Kept, Quiet, pageVars
    <2>4. CASE PollRead(p)
        BY <1>1, <2>4 DEF PollRead, Poll, PathsClosed, Kept, Quiet, pageVars
    <2>5. CASE PollReply(p)
        <3>1. /\ poll[p] = "answered" /\ UNCHANGED ws
              /\ \A q \in Pages \ {p} : /\ shown'[q] = shown[q] /\ poll'[q] = poll[q]
                                        /\ settled'[q] = settled[q]
              /\ shown'[p] = reply[p]
              /\ IF reply[p] = "Done" THEN settled'[p] /\ poll'[p] = "stopped"
                                      ELSE poll'[p] = "waiting"
            BY <1>1, <2>5 DEF PollReply, Poll, Show
        <3>2. p \in Polls /\ (p \notin Sockets => shown[p] # "Done")
            BY <3>1 DEF PathsClosed
        <3>3. PathsClosed'
            BY <1>1, <3>1, <3>2 DEF PathsClosed
        <3>4. ASSUME NEW q \in Pages PROVE Kept(q)
            BY <1>1, <3>1, <3>2 DEF Kept, Quiet
        <3> QED BY <3>3, <3>4
    <2>6. CASE Disconnect(p)
        BY <1>1, <2>6 DEF Disconnect, CloseSocket, PathsClosed, Kept, Quiet, pageVars, pollVars
    <2>7. CASE PollFails(p)
        BY <1>1, <2>7 DEF PollFails, Poll, PathsClosed, Kept, Quiet, pageVars
    <2> QED BY <1>4, <2>1, <2>2, <2>3, <2>4, <2>5, <2>6, <2>7 DEF PageStep
<1> QED BY <1>2, <1>3, <1>4 DEF Next

LEMMA PathsInvariant == Spec => [](TypeOK /\ PathsClosed)
<1>1. Init => PathsClosed
    BY DEF Init, PathsClosed
<1>2. TypeOK /\ PathsClosed /\ [Next]_vars => PathsClosed'
    BY NextPaths
<1> QED BY <1>1, <1>2, TypesHold, PTL DEF Spec

\* A verdict that a page shows is only ever taken back by what was already on
\* its way: the answer of the one poll that was under way, or a frame of a socket
\* that is still open, and only on a page that has both.  Once its socket is
\* closed and no poll is out, it stays so for good, whatever fails, is repeated
\* or judged again.
THEOREM VerdictReplacedOnlyLate == Spec => [][\A p \in Pages : Kept(p)]_vars
<1>1. TypeOK /\ PathsClosed /\ [Next]_vars => [\A p \in Pages : Kept(p)]_vars
    BY NextPaths
<1> QED BY <1>1, PathsInvariant, PTL DEF Spec

\* A page that has a socket or polls, but not both, never takes back the
\* verdict it shows, in whatever order updates and the snapshot reach it and
\* whatever fails: the first path that delivers the verdict is closed by it.
THEOREM VerdictStays == Sockets \cap Polls = {} => (Spec => DoneIsKept)
<1> SUFFICES ASSUME Sockets \cap Polls = {} PROVE Spec => DoneIsKept
    OBVIOUS
<1>1. TypeOK /\ PathsClosed /\ [Next]_vars
        => [\A p \in Pages : shown[p] = "Done" => shown'[p] = "Done"]_vars
    BY NextPaths DEF Kept
<1> QED BY <1>1, PathsInvariant, PTL DEF Spec, DoneIsKept
-----------------------------------------------------------------------------
(* A page shows the verdict of its own submission, and only once there is   *)
(* one.                                                                    *)

\* s was finished, and if nothing is judged again it still is, or is gone.
Finished(s) ==
    /\ verdict[s] \in Verdicts
    /\ "rejudge" \in Faults \/ status[s] \in {"Done", "none"}

\* Whoever carries the news of a finished submission carries it rightly: the
\* channel, a frame, the row the hub or a poll has read, and the page.
NewsIsTrue ==
    /\ verdict \in [Submissions -> Verdicts \cup {NoVerdict}]
    /\ \A s \in Submissions : status[s] = "Done" => Finished(s)
    /\ \A i \in 1..Len(channel) :
          channel[i].status = "Done" => Finished(channel[i].submission)
    /\ \A p \in Pages :
          /\ \A i \in 1..Len(frames[p]) : frames[p][i] = "Done" => Finished(Watches[p])
          /\ \/ snapshot[p] = "Done" \/ reply[p] = "Done" \/ shown[p] = "Done"
             => Finished(Watches[p])

\* What was finished stays so, whatever a worker does next.
LEMMA FinishedStays ==
    ASSUME TypeOK, NewsIsTrue, [Next]_vars
    PROVE  /\ verdict' \in [Submissions -> Verdicts \cup {NoVerdict}]
           /\ \A s \in Submissions : Finished(s) => Finished(s)'
           /\ \A s \in Submissions : status'[s] = "Done" => Finished(s)'
<1>1. /\ status \in [Submissions -> Statuses]
      /\ verdict \in [Submissions -> Verdicts \cup {NoVerdict}]
      /\ \A s \in Submissions : status[s] = "Done" => Finished(s)
    BY DEF TypeOK, NewsIsTrue
<1>2. CASE UNCHANGED lifecycleVars
    BY <1>1, <1>2 DEF lifecycleVars, Finished
<1>3. ASSUME NEW r \in Submissions, JudgeSubmission(r)
      PROVE  /\ "rejudge" \in Faults \/ status[r] = "Pending"
             /\ status' = [status EXCEPT ![r] = "Judging"] /\ UNCHANGED verdict
    BY <1>3 DEF JudgeSubmission, Judge, Fault
<1>4. ASSUME NEW r \in Submissions, ConcludeSubmission(r)
      PROVE  \E v \in Verdicts : /\ status' = [status EXCEPT ![r] = "Done"]
                                 /\ verdict' = [verdict EXCEPT ![r] = v]
    BY <1>4 DEF ConcludeSubmission, Conclude
<1>5. ASSUME NEW r \in Submissions, RemoveSubmission(r)
      PROVE  status' = [status EXCEPT ![r] = "none"] /\ UNCHANGED verdict
    BY <1>5 DEF RemoveSubmission, Remove
<1>6. ASSUME NEW r \in Submissions, PublishUpdate(r) \/ RepeatUpdate(r)
      PROVE  UNCHANGED <<status, verdict>>
    BY <1>6 DEF PublishUpdate, RepeatUpdate, Announce
<1>7. CASE WorkersNext
    <2> PICK r \in Submissions :
            \/ JudgeSubmission(r) \/ ConcludeSubmission(r) \/ PublishUpdate(r)
            \/ RepeatUpdate(r) \/ RemoveSubmission(r)
        BY <1>7 DEF WorkersNext
    <2>1. CASE JudgeSubmission(r)
        BY <1>1, <1>3, <2>1 DEF Finished
    <2>2. CASE ConcludeSubmission(r)
        <3>1. PICK v \in Verdicts : /\ status' = [status EXCEPT ![r] = "Done"]
                                    /\ verdict' = [verdict EXCEPT ![r] = v]
            BY <1>4, <2>2
        <3> QED BY <1>1, <3>1 DEF Finished
    <2>3. CASE RemoveSubmission(r)
        BY <1>1, <1>5, <2>3 DEF Finished
    <2>4. CASE PublishUpdate(r) \/ RepeatUpdate(r)
        BY <1>1, <1>6, <2>4 DEF Finished
    <2> QED BY <2>1, <2>2, <2>3, <2>4
<1>8. CASE ~ WorkersNext
    <2>1. UNCHANGED lifecycleVars
        BY <1>8 DEF Next, vars, FanOut, MissUpdate, HubStep, Subscribe, Register,
            ReadSnapshot, SendSnapshot, HubClose, PageStep, Connect, Receive, Tick, PollRead,
            PollReply, Disconnect, PollFails
    <2> QED BY <1>2, <2>1
<1> QED BY <1>7, <1>8

\* A frame that tells the truth to those it is sent to leaves the frames true.
LEMMA DeliverTruly ==
    ASSUME TypeOK, NEW to, NEW state \in Statuses \cup {Error}, Deliver(to, state),
           NEW Known,
           \A p \in Pages : \A i \in 1..Len(frames[p]) : frames[p][i] = "Done" => p \in Known,
           \A p \in Pages : p \in to /\ state = "Done" => p \in Known
    PROVE  \A p \in Pages : \A i \in 1..Len(frames'[p]) : frames'[p][i] = "Done" => p \in Known
<1> DEFINE F == Statuses \cup {Error}
<1>1. frames \in [Pages -> Seq(F)] /\ state \in F
    BY DEF TypeOK
<1> SUFFICES ASSUME NEW p \in Pages, NEW i \in 1..Len(frames'[p]), frames'[p][i] = "Done"
             PROVE  p \in Known
    OBVIOUS
<1>2. \/ frames'[p] = frames[p]
      \/ frames'[p] = Append(frames[p], state) /\ p \in to
    BY <1>1 DEF Deliver
<1>3. CASE frames'[p] = frames[p]
    BY <1>3
<1>4. CASE frames'[p] = Append(frames[p], state) /\ p \in to
    <2>1. frames[p] \in Seq(F)
        BY <1>1
    <2> HIDE DEF F
    <2>2. CASE i = Len(frames[p]) + 1
        <3>1. frames'[p][i] = state
            BY <1>1, <1>4, <2>1, <2>2
        <3> QED BY <1>4, <3>1
    <2>3. CASE i # Len(frames[p]) + 1
        <3>1. i \in 1..Len(frames[p]) /\ frames'[p][i] = frames[p][i]
            BY <1>1, <1>4, <2>1, <2>3
        <3> QED BY <3>1
    <2> QED BY <2>2, <2>3
<1> QED BY <1>2, <1>3, <1>4

\* What holds of every member of a sequence holds of its tail and its head.
LEMMA TailTruly ==
    ASSUME NEW F, NEW seq \in Seq(F), seq # <<>>
    PROVE  /\ Head(seq) = seq[1] /\ 1 \in 1..Len(seq)
           /\ \A i \in 1..Len(Tail(seq)) : i + 1 \in 1..Len(seq) /\ Tail(seq)[i] = seq[i + 1]
OBVIOUS

LEMMA WorkersNews ==
    ASSUME TypeOK, NewsIsTrue, WorkersNext
    PROVE  NewsIsTrue'
<1> DEFINE C == [submission : Submissions, status : Statuses]
<1>1. /\ verdict' \in [Submissions -> Verdicts \cup {NoVerdict}]
      /\ \A s \in Submissions : Finished(s) => Finished(s)'
      /\ \A s \in Submissions : status'[s] = "Done" => Finished(s)'
    BY FinishedStays DEF Next
<1>2. channel \in Seq(C)
    BY DEF TypeOK
<1>3. UNCHANGED <<frames, snapshot, reply, shown>>
    BY DEF WorkersNext, JudgeSubmission, ConcludeSubmission, PublishUpdate, RepeatUpdate,
           RemoveSubmission, hubVars, pageVars, pollVars
<1>4. \/ UNCHANGED channel
      \/ \E s \in Submissions : /\ channel' = Append(channel, Frame(s, status[s]))
                               /\ UNCHANGED status
    BY DEF WorkersNext, JudgeSubmission, ConcludeSubmission, PublishUpdate, RepeatUpdate,
           RemoveSubmission, Announce
<1>5. \A i \in 1..Len(channel) : channel[i] \in C
    <2> HIDE DEF C
    <2> QED BY <1>2
<1>6. ASSUME NEW i \in 1..Len(channel'), channel'[i].status = "Done"
      PROVE  \E s \in Submissions : channel'[i].submission = s /\ Finished(s)'
    <2>1. ASSUME i \in 1..Len(channel), channel'[i] = channel[i]
          PROVE  \E s \in Submissions : channel'[i].submission = s /\ Finished(s)'
        <3>1. channel[i].submission \in Submissions /\ Finished(channel[i].submission)
            BY <1>5, <1>6, <2>1 DEF NewsIsTrue
        <3> QED BY <1>1, <2>1, <3>1
    <2>2. CASE UNCHANGED channel
        BY <2>1, <2>2
    <2>3. ASSUME NEW s \in Submissions, channel' = Append(channel, Frame(s, status[s])),
                 UNCHANGED status
          PROVE  \E t \in Submissions : channel'[i].submission = t /\ Finished(t)'
        <3>1. CASE i = Len(channel) + 1
            <4>1. channel'[i] = Frame(s, status[s])
                <5> HIDE DEF C
                <5> QED BY <1>2, <2>3, <3>1
            <4>2. channel'[i].status = status[s] /\ channel'[i].submission = s
                BY <4>1 DEF Frame
            <4> QED BY <1>1, <1>6, <2>3, <4>2
        <3>2. CASE i # Len(channel) + 1
            <4>1. i \in 1..Len(channel) /\ channel'[i] = channel[i]
                <5> HIDE DEF C
                <5> QED BY <1>2, <1>6, <2>3, <3>2
            <4> QED BY <2>1, <4>1
        <3> QED BY <3>1, <3>2
    <2> QED BY <1>4, <2>2, <2>3
<1>7. \A p \in Pages : Watches[p] \in Submissions
    BY LiveUpdatesAssumption
<1>8. \A i \in 1..Len(channel') :
         channel'[i].status = "Done" => Finished(channel[i].submission)'
    BY <1>6 DEF Finished
<1>9. \A p \in Pages :
         /\ \A i \in 1..Len(frames'[p]) : frames'[p][i] = "Done" => Finished(Watches[p])'
         /\ \/ snapshot'[p] = "Done" \/ reply'[p] = "Done" \/ shown'[p] = "Done"
            => Finished(Watches[p])'
    BY <1>1, <1>3, <1>7 DEF NewsIsTrue
<1> QED BY <1>1, <1>8, <1>9 DEF NewsIsTrue

\* The rest of NewsIsTrue when no worker moves: what is in the channel is
\* what was, and each copy was read from one that is true.
LEMMA OthersNews ==
    ASSUME TypeOK, NewsIsTrue, UNCHANGED lifecycleVars,
           \/ FanOut \/ MissUpdate
           \/ \E p \in Pages : HubStep(p) \/ PageStep(p) \/ Disconnect(p) \/ PollFails(p)
    PROVE  NewsIsTrue'
<1> DEFINE C == [submission : Submissions, status : Statuses]
           F == Statuses \cup {Error}
           Known == {p \in Pages : Finished(Watches[p])}
<1>1. /\ UNCHANGED <<status, verdict>>
      /\ \A s : Finished(s)' <=> Finished(s)
    BY DEF lifecycleVars, Finished
<1>2. /\ channel \in Seq(C) /\ frames \in [Pages -> Seq(F)]
      /\ snapshot \in [Pages -> Statuses] /\ reply \in [Pages -> Statuses]
      /\ shown \in [Pages -> Statuses]
    BY DEF TypeOK
<1>3. /\ \A p \in Pages : \A i \in 1..Len(frames[p]) : frames[p][i] = "Done" => p \in Known
      /\ \A p \in Pages : status[Watches[p]] = "Done" => p \in Known
    BY LiveUpdatesAssumption DEF NewsIsTrue
<1>4. ASSUME NEW to, NEW state \in F, Deliver(to, state),
             \A p \in Pages : p \in to /\ state = "Done" => p \in Known
      PROVE  \A p \in Pages : \A i \in 1..Len(frames'[p]) : frames'[p][i] = "Done" => p \in Known
    <2> HIDE DEF Known
    <2> QED BY <1>3, <1>4, DeliverTruly
<1>5. CASE FanOut \/ MissUpdate
    <2>1. /\ channel # <<>> /\ channel' = Tail(channel)
          /\ UNCHANGED <<snapshot, reply, shown>>
        BY <1>5 DEF FanOut, MissUpdate, hubVars, pageVars, pollVars
    <2>2. /\ Head(channel) = channel[1] /\ 1 \in 1..Len(channel)
          /\ \A i \in 1..Len(channel') :
                i + 1 \in 1..Len(channel) /\ channel'[i] = channel[i + 1]
        <3> HIDE DEF C
        <3> QED BY <1>2, <2>1, TailTruly
    <2>3. \A i \in 1..Len(channel') :
             channel'[i].status = "Done" => Finished(channel'[i].submission)
        BY <2>2 DEF NewsIsTrue
    <2>4. \A p \in Pages : \A i \in 1..Len(frames'[p]) : frames'[p][i] = "Done" => p \in Known
        <3>1. CASE FanOut
            <4> DEFINE to == {p \in subscribers : Watches[p] = Head(channel).submission}
            <4>1. Deliver(to, Head(channel).status)
                BY <3>1 DEF FanOut
            <4>2. Head(channel).status \in F
                <5>1. Head(channel) \in C
                    <6> HIDE DEF C
                    <6> QED BY <1>2, <2>1
                <5> QED BY <5>1
            <4>3. \A p \in Pages : p \in to /\ Head(channel).status = "Done" => p \in Known
                BY <2>2 DEF NewsIsTrue
            <4> QED BY <1>4, <4>1, <4>2, <4>3
        <3>2. CASE MissUpdate
            BY <1>3, <3>2 DEF MissUpdate
        <3> QED BY <1>5, <3>1, <3>2
    <2> QED BY <1>1, <2>1, <2>3, <2>4 DEF NewsIsTrue
<1>6. ASSUME NEW p \in Pages, HubStep(p)
      PROVE  NewsIsTrue'
    <2>1. UNCHANGED <<channel, reply, shown>>
        BY <1>6 DEF HubStep, Subscribe, Register, ReadSnapshot, SendSnapshot, HubClose,
                    pageVars, pollVars
    <2>2. UNCHANGED snapshot \/ snapshot' = [snapshot EXCEPT ![p] = status[Watches[p]]]
        BY <1>6 DEF HubStep, Subscribe, Register, ReadSnapshot, SendSnapshot, HubClose
    <2>3. \A q \in Pages : snapshot'[q] = "Done" => q \in Known
        BY <1>2, <1>3, <2>2 DEF NewsIsTrue
    <2>4. \A q \in Pages : \A i \in 1..Len(frames'[q]) : frames'[q][i] = "Done" => q \in Known
        <3>1. \/ UNCHANGED frames \/ Deliver({p}, Error) \/ Deliver({p}, snapshot[p])
            BY <1>6 DEF HubStep, Subscribe, Register, ReadSnapshot, SendSnapshot, HubClose
        <3>2. CASE UNCHANGED frames
            BY <1>3, <3>2
        <3>3. CASE Deliver({p}, Error)
            <4>1. Error \in F /\ Error # "Done"
                BY DEF Error
            <4> QED BY <1>4, <3>3, <4>1
        <3>4. CASE Deliver({p}, snapshot[p])
            <4>1. snapshot[p] \in F /\ (snapshot[p] = "Done" => p \in Known)
                BY <1>2 DEF NewsIsTrue
            <4>2. \A q \in Pages : q \in {p} /\ snapshot[p] = "Done" => q \in Known
                BY <4>1
            <4> HIDE DEF F, Known
            <4> QED BY <1>4, <3>4, <4>1, <4>2
        <3> QED BY <3>1, <3>2, <3>3, <3>4
    <2> QED BY <1>1, <2>1, <2>3, <2>4 DEF NewsIsTrue
<1>7. ASSUME NEW p \in Pages, PageStep(p) \/ Disconnect(p) \/ PollFails(p)
      PROVE  NewsIsTrue'
    <2>1. UNCHANGED <<channel, snapshot>>
        BY <1>7 DEF PageStep, Connect, Receive, Tick, PollRead, PollReply, Disconnect,
                    PollFails, hubVars
    <2>2. \/ UNCHANGED frames
          \/ frames[p] # <<>> /\ frames' = [frames EXCEPT ![p] = Tail(@)]
        BY <1>7 DEF PageStep, Connect, Receive, Tick, PollRead, PollReply, Disconnect, PollFails
    <2>3. \/ UNCHANGED shown
          \/ shown' = [shown EXCEPT ![p] = reply[p]]
          \/ frames[p] # <<>> /\ shown' = [shown EXCEPT ![p] = Head(frames[p])]
        BY <1>7 DEF PageStep, Connect, Receive, Tick, PollRead, PollReply, Disconnect,
                    PollFails, Show, pageVars
    <2>4. UNCHANGED reply \/ reply' = [reply EXCEPT ![p] = status[Watches[p]]]
        BY <1>7 DEF PageStep, Connect, Receive, Tick, PollRead, PollReply, Disconnect,
                    PollFails, pollVars
    <2>5. frames[p] # <<>> =>
            /\ Head(frames[p]) = frames[p][1] /\ 1 \in 1..Len(frames[p])
            /\ \A i \in 1..Len(Tail(frames[p])) :
                  i + 1 \in 1..Len(frames[p]) /\ Tail(frames[p])[i] = frames[p][i + 1]
        <3>1. frames[p] \in Seq(F)
            BY <1>2
        <3> HIDE DEF F
        <3> QED BY <3>1, TailTruly
    <2>6. \A q \in Pages : \A i \in 1..Len(frames'[q]) : frames'[q][i] = "Done" => q \in Known
        <3> SUFFICES ASSUME NEW q \in Pages, NEW i \in 1..Len(frames'[q]),
                            frames'[q][i] = "Done"
                     PROVE  q \in Known
            OBVIOUS
        <3>1. CASE frames'[q] = frames[q]
            BY <1>3, <3>1
        <3>2. CASE frames'[q] # frames[q]
            <4>1. q = p /\ frames[p] # <<>> /\ frames'[p] = Tail(frames[p])
                BY <1>2, <2>2, <3>2
            <4>2. i + 1 \in 1..Len(frames[p]) /\ frames'[q][i] = frames[p][i + 1]
                BY <2>5, <4>1
            <4> QED BY <1>3, <4>1, <4>2
        <3> QED BY <3>1, <3>2
    <2>7. \A q \in Pages : shown'[q] = "Done" => q \in Known
        <3>1. frames[p] # <<>> /\ Head(frames[p]) = "Done" => p \in Known
            BY <1>3, <2>5
        <3>2. \A q \in Pages : shown[q] = "Done" \/ reply[q] = "Done" => q \in Known
            BY DEF NewsIsTrue
        <3> QED BY <1>2, <2>3, <3>1, <3>2
    <2>8. \A q \in Pages : reply'[q] = "Done" => q \in Known
        BY <1>2, <1>3, <2>4 DEF NewsIsTrue
    <2> QED BY <1>1, <2>1, <2>6, <2>7, <2>8 DEF NewsIsTrue
<1> QED BY <1>5, <1>6, <1>7

LEMMA NextNews == TypeOK /\ NewsIsTrue /\ [Next]_vars => NewsIsTrue'
<1> SUFFICES ASSUME TypeOK, NewsIsTrue, [Next]_vars PROVE NewsIsTrue'
    OBVIOUS
<1>1. CASE UNCHANGED vars
    BY <1>1 DEF vars, lifecycleVars, hubVars, pageVars, pollVars, NewsIsTrue, Finished
<1>2. CASE WorkersNext
    BY <1>2, WorkersNews
<1>3. CASE Next /\ ~ WorkersNext
    <2>1. UNCHANGED lifecycleVars
        BY <1>3 DEF Next, FanOut, MissUpdate, HubStep, Subscribe, Register, ReadSnapshot,
                    SendSnapshot, HubClose, PageStep, Connect, Receive, Tick, PollRead,
                    PollReply, Disconnect, PollFails
    <2> QED BY <1>3, <2>1, OthersNews DEF Next
<1> QED BY <1>1, <1>2, <1>3

\* A page shows a verdict only if the submission it watches, and no other, has
\* one, and as long as nothing is judged again its row still says so or is
\* deleted: through the channel, the hub's map of pages, its snapshot, frames in
\* flight and the polls, whatever fails and is repeated.  (submissionId of
\* messages.ts, the hub's Map by submission id.)
THEOREM ShownIsTrue ==
    Spec => [](\A p \in Pages : shown[p] = "Done" => Finished(Watches[p]))
<1>1. Init => NewsIsTrue
    BY DEF Init, NewsIsTrue
<1>2. NewsIsTrue => \A p \in Pages : shown[p] = "Done" => Finished(Watches[p])
    BY DEF NewsIsTrue
<1> QED BY <1>1, <1>2, NextNews, TypesHold, PTL DEF Spec
=============================================================================
