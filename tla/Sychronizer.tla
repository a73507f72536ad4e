----------------------------- MODULE Sychronizer -----------------------------
(***************************************************************************)
(* Sychronizer: four flip-flops that turn a rising edge of a slow clock    *)
(* into a pulse of the system clock. FDC_1 is clocked by the slow clock    *)
(* and cleared asynchronously by FDC_4; FDC_3 is the output.               *)
(***************************************************************************)
VARIABLES FDC_1, FDC_2, FDC_3, FDC_4

SychronizerInit == FDC_1 = FALSE /\ FDC_2 = FALSE /\ FDC_3 = FALSE /\ FDC_4 = FALSE

out_sync_sig == FDC_3

(* One rising edge of outclk; rise says whether async_sig rose since the   *)
(* edge before. A rise while FDC_4 holds FDC_1 in clear leaves no trace.   *)
SychronizerStep(rise) ==
  LET trapped == (FDC_1 \/ rise) /\ ~FDC_4 IN
  /\ FDC_2' = trapped
  /\ FDC_3' = FDC_2
  /\ FDC_4' = FDC_3
  /\ FDC_1' = (trapped /\ ~FDC_3)
=============================================================================
