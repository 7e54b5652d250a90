---------------------------- MODULE AddressLock ----------------------------
(***************************************************************************)
(* What the root hub port scheduler of the xHCI driver promises, apart     *)
(* from registers, rings and events: the sequence reset - enable slot -    *)
(* address device is a critical section that one port at a time is in      *)
(* (holder), a port that finds it taken queues up (waiting), and a port    *)
(* that has been through it (served) never comes back.  PortConfig         *)
(* implements this specification.                                          *)
(***************************************************************************)
EXTENDS Integers

CONSTANTS
  NumPorts,  \* MaxPorts of the host controller
  MayUnplug  \* TRUE when a port may lose its device

VARIABLES
  holder,   \* the port in the critical section, 0 when there is none
  waiting,  \* the ports that queued up behind a holder
  served    \* the ports that left the critical section

lockVars == <<holder, waiting, served>>

LockPorts == 1 .. NumPorts

LockInit == holder = 0 /\ waiting = {} /\ served = {}

(* The critical section is free and p, never seen before, enters it. *)
Take(p) ==
  /\ holder = 0
  /\ p \notin waiting \cup served
  /\ holder' = p
  /\ UNCHANGED <<waiting, served>>

(* p, never seen before, finds the critical section taken. *)
Wait(p) ==
  /\ holder \notin {0, p}
  /\ p \notin waiting \cup served
  /\ waiting' = waiting \cup {p}
  /\ UNCHANGED <<holder, served>>

IsNext(w) == w \in waiting /\ \A v \in waiting : w <= v

(* The holder has its address: the lowest waiting port is next. *)
HandOver(w) ==
  /\ holder # 0
  /\ IsNext(w)
  /\ holder' = w
  /\ waiting' = waiting \ {w}
  /\ served' = served \cup {holder}

(* The holder has its address and nobody is handed the critical section:   *)
(* either nobody waits, or the port whose turn it is lost its device.      *)
Release ==
  /\ holder # 0
  /\ (\E w \in waiting : IsNext(w)) => MayUnplug
  /\ holder' = 0
  /\ served' = served \cup {holder}
  /\ UNCHANGED waiting

LockNext ==
  \/ \E p \in LockPorts : Take(p) \/ Wait(p) \/ HandOver(p)
  \/ Release

LockSpec == LockInit /\ [][LockNext]_lockVars

(* A holder gets its address, or gives up, in the end. *)
LockFairness == WF_lockVars(Release \/ \E p \in LockPorts : HandOver(p))

FairLockSpec == LockSpec /\ LockFairness
=============================================================================
