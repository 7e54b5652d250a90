---------------------------- MODULE MCEventRing -----------------------------
(***************************************************************************)
(* The event ring for TLC: five TRBs, so that three events, the notice of  *)
(* a full ring and the free TRB of a full ring fit; two events tell        *)
(* neighbours and laps apart.                                              *)
(***************************************************************************)
EXTENDS EventRing

MCEvents == {"command", "transfer"}
=============================================================================
