------------------------------- MODULE AdcTest -------------------------------
(***************************************************************************)
(* One ADC test after the other (adc_test.c): a conversion is started, the *)
(* DMA stores its value, and the completion interrupt sets adc_ready and   *)
(* stops the ADC again.                                                    *)
(*                                                                         *)
(* adc_ready is not volatile.  The Debug build, without optimisation,      *)
(* loads it again in every turn of the loop; the Release build may load it *)
(* once and then spin, whatever the interrupt does.  Fault: "off", the     *)
(* voltage is out of tolerance.                                            *)
(***************************************************************************)
EXTENDS PeripheralTest

VARIABLES
  build,       \* which of the two is running
  adc_ready,
  adc_buf,     \* the value stored: "high", in tolerance, or "low"
  SWSTART,     \* a conversion has been started
  NDTR, TCIF   \* of the DMA stream

dma == <<NDTR, TCIF>>
vars == <<testVars, build, adc_ready, adc_buf, SWSTART, dma, history>>

Labels == {"idle", "start", "wait", "spin", "compare"}

TypeOK ==
  /\ TestTypeOK /\ pc \in Labels
  /\ build \in Builds
  /\ adc_ready \in BOOLEAN /\ adc_buf \in {"high", "low"}
  /\ SWSTART \in BOOLEAN /\ TCIF \in BOOLEAN /\ NDTR \in 0..1

Init ==
  /\ TestInit
  /\ build \in Builds
  /\ adc_ready = FALSE /\ adc_buf = "low"
  /\ SWSTART = FALSE /\ NDTR = 0 /\ TCIF = FALSE

-----------------------------------------------------------------------------
(* ADC_Test_Perform, called again and again; a pending interrupt goes      *)
(* first.                                                                  *)

Begin ==
  /\ ~TCIF
  /\ BeginTest(NoMessage, Len(faults))
  /\ UNCHANGED <<build, adc_ready, adc_buf, SWSTART, dma>>

(* HAL_ADC_Start_DMA starts the conversion whatever HAL_DMA_Start_IT said. *)
StartDMA ==
  /\ pc = "start" /\ ~TCIF
  /\ SWSTART' = TRUE
  /\ IF NDTR = 0
       THEN NDTR' = 1 /\ pc' = "wait" /\ UNCHANGED verdict
       ELSE Return("fail") /\ UNCHANGED NDTR
  /\ UNCHANGED <<msg, build, adc_ready, adc_buf, TCIF, history>>

LeaveReady == UNCHANGED adc_ready                   \* mutant
ClearReady == adc_ready' = FALSE

(* The loop, and adc_ready = 0 after it.                                   *)
WaitReady ==
  /\ pc = "wait" /\ ~TCIF
  /\ \/ adc_ready /\ ClearReady /\ pc' = "compare"
     \/ build = "Release" /\ ~adc_ready /\ pc' = "spin" /\ UNCHANGED adc_ready
  /\ UNCHANGED <<msg, verdict, build, adc_buf, SWSTART, dma, history>>

Compare ==
  /\ pc = "compare" /\ ~TCIF
  /\ Return(IF adc_buf = "high" THEN "pass" ELSE "fail")
  /\ UNCHANGED <<msg, build, adc_ready, adc_buf, SWSTART, dma, history>>

(* ADC_DMAConvCplt and HAL_ADC_ConvCpltCallback, which stops the ADC.      *)
ConvCplt ==
  /\ TCIF
  /\ TCIF' = FALSE
  /\ adc_ready' = TRUE
  /\ SWSTART' = FALSE
  /\ UNCHANGED <<testVars, build, adc_buf, NDTR, history>>

(* The ADC converts, the DMA stores.                                       *)
Store(value) ==
  /\ SWSTART /\ NDTR = 1
  /\ adc_buf' = value
  /\ SWSTART' = FALSE
  /\ NDTR' = 0 /\ TCIF' = TRUE
  /\ UNCHANGED <<testVars, build, adc_ready>>

Convert    == Store("high") /\ UNCHANGED history
ConvertOff == Store("low") /\ Fault("off") /\ Damage("high", "low")

-----------------------------------------------------------------------------
MainStep == StartDMA \/ WaitReady \/ Compare
IrqStep  == ConvCplt
WireStep == Convert \/ ConvertOff

Next == Begin \/ MainStep \/ IrqStep \/ WireStep

Spec == Init /\ [][Next]_vars

-----------------------------------------------------------------------------
(* The flag that ends a wait was set in the same test: it is clear when a  *)
(* conversion is started, and when one is compared nothing is under way    *)
(* that could overwrite the value or set the flag for the next test.       *)
CleanBetweenTests ==
  pc \in {"start", "compare", "idle"} => ~adc_ready /\ ~SWSTART /\ NDTR = 0 /\ ~TCIF

(* What may keep the test waiting for ever, apart from the Release build's *)
(* loop: nothing.                                                          *)
Breaking == {}
Spins == pc = "spin"
=============================================================================
