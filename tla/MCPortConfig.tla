---------------------------- MODULE MCPortConfig ----------------------------
(***************************************************************************)
(* Instances of PortConfig for TLC.  Three ports are the fewest with a     *)
(* port in the critical section, one that is handed it and one that still  *)
(* waits; the last port is a USB3 port, and there is a device the kernel   *)
(* has no class driver for.                                                *)
(***************************************************************************)
EXTENDS PortConfig

MCPorts      == 3
MCSuperSpeed == {3}

(* The endpoint numbers of the devices: one device the kernel has a class  *)
(* driver for, which stands twice in class_drivers_, or two.               *)
OneHid == [p \in 0 .. MCPorts |-> IF p = 1 THEN 2 ELSE 0]
TwoHid == [p \in 0 .. MCPorts |-> CASE p = 1 -> 2 [] p = 2 -> 1 [] OTHER -> 0]

(* As many slots as ports, or one too few. *)
EnoughSlots == 3
TooFewSlots == 2
=============================================================================
