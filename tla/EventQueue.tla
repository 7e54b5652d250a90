----------------------------- MODULE EventQueue -----------------------------
(***************************************************************************)
(* What the event ring promises to ProcessEvent: the events the controller *)
(* posts are handled in their order, each once and as it was posted.       *)
(* EventRing implements this specification.                                *)
(***************************************************************************)
EXTENDS Integers, Sequences

CONSTANTS Events, Capacity

VARIABLES
  posted,  \* the events not handled yet
  latest   \* the event handled last

queueVars == <<posted, latest>>

QueueInit == posted = <<>> /\ latest = "none"

Post(e) ==
  /\ Len(posted) < Capacity
  /\ posted' = Append(posted, e)
  /\ UNCHANGED latest

HandleHead ==
  /\ posted # <<>>
  /\ latest' = Head(posted)
  /\ posted' = Tail(posted)

QueueNext == (\E e \in Events : Post(e)) \/ HandleHead

QueueSpec == QueueInit /\ [][QueueNext]_queueVars

(* No event is left lying. *)
QueueFairness == WF_queueVars(HandleHead)
=============================================================================
