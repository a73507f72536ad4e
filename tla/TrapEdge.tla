------------------------------ MODULE TrapEdge -------------------------------
(***************************************************************************)
(* trap_edge, one for each side of the shared machine: FDC_TOP_1 remembers *)
(* a rising edge of the request, FDC_TOP_2 shows it to the clock of the    *)
(* machine, and reset clears both whatever the clocks do.                  *)
(***************************************************************************)
CONSTANT Side

VARIABLES FDC_TOP_1, FDC_TOP_2

TrapInit ==
  /\ FDC_TOP_1 = [x \in Side |-> FALSE]
  /\ FDC_TOP_2 = [x \in Side |-> FALSE]

(* A rising edge of the request of side x, reset being low or high.        *)
TrapRise(x, reset) ==
  /\ FDC_TOP_1' = [FDC_TOP_1 EXCEPT ![x] = ~reset]
  /\ UNCHANGED FDC_TOP_2

TrapReset ==
  /\ FDC_TOP_1' = [x \in Side |-> FALSE]
  /\ FDC_TOP_2' = [x \in Side |-> FALSE]

(* An edge of outclk after which reset[x] is the clear of side x.          *)
TrapClock(reset) ==
  /\ FDC_TOP_2' = [x \in Side |-> FDC_TOP_1[x] /\ ~reset[x]]
  /\ FDC_TOP_1' = [x \in Side |-> FDC_TOP_1[x] /\ ~reset[x]]
=============================================================================
