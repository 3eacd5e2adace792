---------------------------- MODULE StreamQueue ----------------------------
(***************************************************************************)
(* A work queue of packages/infra/src/stream.ts: a Redis stream read       *)
(* through one consumer group.  The stream is never trimmed, so an entry   *)
(* is named by its position; the group keeps a cursor (the last entry it   *)
(* handed out) and, per consumer NAME, the entries delivered to that name  *)
(* and not yet acknowledged (the pending entries list).  Redis itself is   *)
(* outside the repository: its commands are modelled by the way stream.ts  *)
(* uses them.  Nothing here reclaims an entry from another name: the code  *)
(* has no XAUTOCLAIM, XCLAIM, XDEL or XTRIM.                               *)
(***************************************************************************)
EXTENDS Naturals, Sequences

CONSTANTS
    Jobs,       \* the ids carried by messages
    Names       \* the consumer names known to the group

VARIABLES
    stream,     \* the job id of every message ever added, in order
    cursor,     \* position of the last message delivered for the first time
    pel         \* per consumer name, its delivered and unacknowledged messages

queueVars == <<stream, cursor, pel>>

QueueTypeOK ==
    /\ stream \in Seq(Jobs)
    /\ cursor \in 0..Len(stream)
    /\ pel \in [Names -> SUBSET (1..cursor)]

\* XGROUP CREATE ... "0" MKSTREAM: the group starts before the first message.
QueueInit ==
    /\ stream = <<>>
    /\ cursor = 0
    /\ pel = [n \in Names |-> {}]

Messages == 1..Len(stream)

\* The messages that carry a job.
MessagesOf(job) == {m \in Messages : stream[m] = job}

\* The job has been published at least once.
Published(job) == MessagesOf(job) # {}

\* Delivered and acknowledged: the group will never hand it out again.
Acked(m) == m \in 1..cursor /\ \A n \in Names : m \notin pel[n]

\* XADD.
Enqueue(job) == stream' = Append(stream, job)

\* Slip: the group's cursor does not move.
DeliverSame(name) ==
    /\ cursor < Len(stream)
    /\ pel' = [pel EXCEPT ![name] = @ \cup {cursor + 1}]
    /\ UNCHANGED cursor

\* XREADGROUP ... ">" COUNT 1: the next undelivered message enters the
\* reader's pending list.
DeliverNext(name) ==
    /\ cursor < Len(stream)
    /\ cursor' = cursor + 1
    /\ pel' = [pel EXCEPT ![name] = @ \cup {cursor + 1}]

\* XREADGROUP ... "0" COUNT 1 returns m: the oldest pending message of the
\* name, which stays pending.
OldestPending(name, m) == m \in pel[name] /\ \A k \in pel[name] : m <= k

NothingPending(name) == pel[name] = {}

\* XACK: the group-wide pending entry of the message goes away, whichever
\* consumer of the group sends it.
Ack(m) == pel' = [n \in Names |-> pel[n] \ {m}]
=============================================================================
