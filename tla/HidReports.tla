----------------------------- MODULE HidReports -----------------------------
(***************************************************************************)
(* What a boot keyboard or mouse and its class driver are to each other: a *)
(* report is on its way at most once at a time, the driver takes it before *)
(* the next is sent, and tells of a key that was not down before or of the *)
(* movement.  A report is the bytes of the boot protocol: modifiers, a     *)
(* reserved byte and keys, or buttons and two displacements.               *)
(***************************************************************************)
EXTENDS Integers, Sequences, SequencesExt

CONSTANTS
  Reports(_),  \* the reports a keyboard or a mouse may send
  Nothing      \* no report on its way

VARIABLES
  kind,     \* "keyboard", "mouse", or what is not known yet
  pending,  \* the report on its way
  last,     \* the report the driver has taken last
  told      \* what it told its observers of it

Int8(byte) == IF byte < 128 THEN byte ELSE byte - 256

Keys(report) == SubSeq(report, 3, Len(report))

Fresh(keys, old) == SelectSeq(keys, LAMBDA key : key \notin old)

(* The keys that have gone down.  One whose code is that of the modifiers  *)
(* held before goes unnoticed: the driver looks for it in the whole of the *)
(* previous report.                                                        *)
NewKeys(report) == Fresh(Keys(report), {0, last[1]} \cup ToSet(Keys(last)))

Movement(report) == <<Int8(report[2]), Int8(report[3])>>

Send ==
  /\ pending = Nothing
  /\ pending' \in Reports(kind)
  /\ UNCHANGED <<kind, last, told>>

Take ==
  /\ pending # Nothing
  /\ told' = IF kind = "keyboard" THEN NewKeys(pending) ELSE Movement(pending)
  /\ last' = pending
  /\ pending' = Nothing
  /\ UNCHANGED kind

(* The descriptors have been read: nothing is down or has moved. *)
Recognize ==
  /\ kind = "unknown"
  /\ kind' \in {"keyboard", "mouse"}
  /\ \E n \in 3..8 : last' = [i \in 1..n |-> 0]
  /\ UNCHANGED <<pending, told>>

Init ==
  /\ kind = "unknown" /\ pending = Nothing
  /\ last = <<>> /\ told = <<>>

Next == Recognize \/ Send \/ Take

Spec == Init /\ [][Next]_<<kind, pending, last, told>>
=============================================================================
