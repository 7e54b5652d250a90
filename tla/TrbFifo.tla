------------------------------ MODULE TrbFifo ------------------------------
(***************************************************************************)
(* What a command or transfer ring promises: the hardware executes the     *)
(* TRBs in the order they were pushed, each once and as it was pushed, and *)
(* when the driver handles a completion it still finds the TRB it issued.  *)
(* TrbRing implements this specification.                                  *)
(***************************************************************************)
EXTENDS Integers, Sequences

CONSTANTS
  Items,          \* what a TRB says, as far as anyone tells it apart
  MaxOutstanding  \* how many TRBs the callers of Push leave unhandled

VARIABLES
  pushed,   \* the TRBs the hardware has not executed
  executed  \* the TRBs whose completion the driver has not handled

fifoVars == <<pushed, executed>>

FifoInit == pushed = <<>> /\ executed = <<>>

Submit(x) ==
  /\ Len(pushed) + Len(executed) < MaxOutstanding
  /\ pushed' = Append(pushed, x)
  /\ UNCHANGED executed

Execute ==
  /\ pushed # <<>>
  /\ executed' = Append(executed, Head(pushed))
  /\ pushed' = Tail(pushed)

Acknowledge ==
  /\ executed # <<>>
  /\ executed' = Tail(executed)
  /\ UNCHANGED pushed

FifoNext == (\E x \in Items : Submit(x)) \/ Execute \/ Acknowledge

FifoSpec == FifoInit /\ [][FifoNext]_fifoVars

(* Nothing pushed is forgotten. *)
FifoFairness == WF_fifoVars(Execute) /\ WF_fifoVars(Acknowledge)
=============================================================================
