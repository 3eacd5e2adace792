---------------------------- MODULE MCSdkClient ----------------------------
(* Instance of SdkClient for TLC. *)
EXTENDS SdkClient

CONSTANTS w1, w2, acct

\* A waiter sends its POST and at most a poll per tick.
RequestIds == (Waiters \X (1..(Timeout + 2))) \union ({"other"} \X (1..MaxOthers))
=============================================================================
