------------------------ MODULE SubmissionLifecycle ------------------------
(***************************************************************************)
(* What the grading pipeline promises to those who watch a submission: its *)
(* row goes from Pending through Judging to Done, possibly judged again    *)
(* after a crash, and every update published about it tells what its row   *)
(* says at that moment (packages/shared/src/messages.ts).  Grading is      *)
(* shown to implement this; LiveUpdates builds on it.                      *)
(***************************************************************************)
EXTENDS Integers

CONSTANTS
    Submissions,    \* submission ids
    Verdicts        \* verdicts a row can hold

VARIABLES
    status,     \* status[s]: "none" while s has no row
    verdict,    \* verdict[s]: the verdict in s's row
    said        \* said[s]: the last update published about s since its row was
                \* last written, Nothing if there was none

lifecycleVars == <<status, verdict, said>>

\* The row has no verdict yet.
NoVerdict == 0

Statuses == {"none", "Pending", "Judging", "Done"}

Update(state, v) == [status |-> state, verdict |-> v]

Nothing == Update("none", NoVerdict)

LifecycleInit ==
    /\ status = [s \in Submissions |-> "none"]
    /\ verdict = [s \in Submissions |-> NoVerdict]
    /\ said = [s \in Submissions |-> Nothing]

\* What there is to say about a row; only a finished one has its verdict told.
News(s) == Update(status[s], IF status[s] = "Done" THEN verdict[s] ELSE NoVerdict)

\* A submission is created.
Create(s) ==
    /\ status[s] = "none"
    /\ status' = [status EXCEPT ![s] = "Pending"]
    /\ UNCHANGED <<verdict, said>>

\* A worker starts to judge it, for the first time or again.
Judge(s) ==
    /\ status[s] # "none"
    /\ status' = [status EXCEPT ![s] = "Judging"]
    /\ said' = [said EXCEPT ![s] = Nothing]
    /\ UNCHANGED verdict

\* A worker stores a verdict, or the API one of its own in demo mode.
Conclude(s, v) ==
    /\ status[s] # "none"
    /\ status' = [status EXCEPT ![s] = "Done"]
    /\ verdict' = [verdict EXCEPT ![s] = v]
    /\ said' = [said EXCEPT ![s] = Nothing]

\* A worker publishes what the row says.
Announce(s) ==
    /\ status[s] \in {"Judging", "Done"}
    /\ said' = [said EXCEPT ![s] = News(s)]
    /\ UNCHANGED <<status, verdict>>

\* A worker publishes its last word on a row that was deleted meanwhile.
AnnounceGone(s, update) ==
    /\ status[s] = "none"
    /\ said' = [said EXCEPT ![s] = update]
    /\ UNCHANGED <<status, verdict>>

\* The row is deleted.
Remove(s) ==
    /\ status[s] # "none"
    /\ status' = [status EXCEPT ![s] = "none"]
    /\ UNCHANGED <<verdict, said>>

LifecycleNext ==
    \E s \in Submissions :
        \/ Create(s) \/ Judge(s) \/ Announce(s) \/ Remove(s)
        \/ \E v \in Verdicts : Conclude(s, v)
        \/ AnnounceGone(s, Update("Judging", NoVerdict))
        \/ \E v \in Verdicts : AnnounceGone(s, Update("Done", v))

LifecycleSpec == LifecycleInit /\ [][LifecycleNext]_lifecycleVars
=============================================================================
