----------------------------- MODULE MCTrbRing -----------------------------
(***************************************************************************)
(* Instances of TrbRing for TLC: four TRBs and a link, as many outstanding *)
(* as the assumption allows, and three bodies to tell laps apart.          *)
(***************************************************************************)
EXTENDS TrbRing

MCItems == {"a", "b", "c"}
=============================================================================
