------------------------------ MODULE TimerTest ------------------------------
(***************************************************************************)
(* One timer test after the other (timer_test.c): at every update of TIM6  *)
(* the DMA samples the counter of TIM2 and an interrupt counts the update; *)
(* after N_SAMPLES updates the samples must be EXPECTED_INTERVAL apart.    *)
(*                                                                         *)
(* Nobody resets a counter, a sample or the enabled requests between the   *)
(* tests: TIM6 goes on from where it was stopped.  The calls ignore what   *)
(* HAL_DMA_Start_IT and the timer functions return.                        *)
(*                                                                         *)
(* Timing assumed: the DMA and pending interrupts are served before the    *)
(* test goes on and within a count; from the start of TIM6 to that of the  *)
(* DMA, and from the last update counted to the stop of TIM6, pass at most *)
(* MaxDelay counts.  Fault: "drift", TIM2 makes one count too many or too  *)
(* few.                                                                    *)
(***************************************************************************)
EXTENDS PeripheralTest

htim2 == 2
htim6 == 6
Timers == {htim2, htim6}

VARIABLES
  tim6_count,   \* updates counted
  samples,      \* tim2_samples
  CEN,          \* the timers that run, of which the handles are BUSY
  CNT,          \* their counters
  UIF,          \* TIM6: the update interrupt is pending
  UDR,          \* TIM6: its DMA request is latched
  NDTR, TCIF,   \* of the DMA stream
  delay         \* counts since the start, or since the last update (timing)

dma    == <<NDTR, TCIF>>
clocks == <<CEN, CNT, UIF, UDR>>
vars == <<testVars, tim6_count, samples, clocks, dma, delay, history>>

Labels == {"idle", "start", "start2", "dma", "wait", "stop2", "stop6", "compare"}

TypeOK ==
  /\ TestTypeOK /\ pc \in Labels
  /\ tim6_count \in 0..N_SAMPLES
  /\ samples \in [1..N_SAMPLES -> 0..Wrap - 1]
  /\ CEN \in [Timers -> BOOLEAN]
  /\ CNT \in [Timers -> 0..Wrap - 1] /\ CNT[htim6] < EXPECTED_INTERVAL
  /\ UIF \in BOOLEAN /\ UDR \in BOOLEAN /\ TCIF \in BOOLEAN
  /\ NDTR \in 0..N_SAMPLES
  /\ delay \in 0..MaxDelay

Init ==
  /\ TestInit
  /\ tim6_count = 0 /\ samples = [i \in 1..N_SAMPLES |-> 0]
  /\ CEN = [t \in Timers |-> FALSE] /\ CNT = [t \in Timers |-> 0]
  /\ UIF = FALSE /\ UDR = FALSE
  /\ NDTR = 0 /\ TCIF = FALSE
  /\ delay = 0

-----------------------------------------------------------------------------
(* TIM_Test_Perform, called again and again.                               *)

DmaRequest == UDR /\ NDTR > 0
Settled == ~UIF /\ ~TCIF /\ ~DmaRequest

CountOn == UNCHANGED tim6_count                     \* mutant
ResetCount == tim6_count' = 0

Begin ==
  /\ Settled
  /\ BeginTest(NoMessage, Len(faults))
  /\ ResetCount
  /\ delay' = 0
  /\ UNCHANGED <<samples, clocks, dma>>

Go(here, next) ==
  /\ pc = here /\ Settled
  /\ pc' = next
  /\ UNCHANGED <<msg, verdict, tim6_count, samples, history>>

(* HAL_TIM_Base_Start_IT, HAL_TIM_Base_Start and HAL_TIM_Base_Stop.        *)
Switch(t, on, here, next) ==
  /\ Go(here, next)
  /\ CEN' = [CEN EXCEPT ![t] = on]
  /\ UNCHANGED <<CNT, UIF, UDR, dma, delay>>

(* HAL_DMA_Start_IT, refused while the stream is busy.                     *)
StartDMA(here, next) ==
  /\ Go(here, next)
  /\ NDTR' = IF NDTR = 0 /\ ~TCIF THEN N_SAMPLES ELSE NDTR
  /\ delay' = 0
  /\ UNCHANGED <<clocks, TCIF>>

OneEarly == tim6_count >= N_SAMPLES - 1             \* mutant
AllCounted == tim6_count >= N_SAMPLES

WaitCount(here, next) ==
  /\ AllCounted
  /\ Go(here, next)
  /\ UNCHANGED <<clocks, dma, delay>>

Spaced ==
  \A i \in 2..N_SAMPLES : (samples[i] - samples[i - 1]) % Wrap = EXPECTED_INTERVAL

Compare ==
  /\ pc = "compare" /\ Settled
  /\ Return(IF Spaced THEN "pass" ELSE "fail")
  /\ UNCHANGED <<msg, tim6_count, samples, clocks, dma, delay, history>>

TIM_Test_Perform ==
  \/ Switch(htim6, TRUE, "start", "start2") \/ Switch(htim2, TRUE, "start2", "dma")
  \/ StartDMA("dma", "wait") \/ WaitCount("wait", "stop2")
  \/ Switch(htim2, FALSE, "stop2", "stop6") \/ Switch(htim6, FALSE, "stop6", "compare")
  \/ Compare

-----------------------------------------------------------------------------
(* Interrupts and the DMA.                                                 *)

(* HAL_TIM_IRQHandler and HAL_TIM_PeriodElapsedCallback.                   *)
PeriodElapsed ==
  /\ UIF
  /\ UIF' = FALSE
  /\ tim6_count' = tim6_count + 1
  /\ UNCHANGED <<testVars, samples, CEN, CNT, UDR, dma, delay, history>>

(* HAL_DMA_IRQHandler: the stream is ready again.                          *)
SamplesComplete ==
  /\ TCIF
  /\ TCIF' = FALSE
  /\ UNCHANGED <<testVars, tim6_count, samples, clocks, NDTR, delay, history>>

Sample ==
  /\ DmaRequest
  /\ samples' = [samples EXCEPT ![N_SAMPLES - NDTR + 1] = CNT[htim2]]
  /\ UDR' = FALSE
  /\ NDTR' = NDTR - 1
  /\ TCIF' = (NDTR = 1)
  /\ UNCHANGED <<testVars, tim6_count, CEN, CNT, UIF, delay, history>>

-----------------------------------------------------------------------------
(* The clock of both timers.                                               *)

InCall == pc # "wait" \/ AllCounted

Count(n) ==
  /\ CEN[htim6] /\ Settled
  /\ InCall => delay < MaxDelay
  /\ delay' = IF InCall THEN delay + 1 ELSE 0
  /\ CNT' = [CNT EXCEPT ![htim6] = (@ + 1) % EXPECTED_INTERVAL,
                        ![htim2] = IF CEN[htim2] THEN (@ + n) % Wrap ELSE @]
  /\ UIF' = (CNT'[htim6] = 0)
  /\ UDR' = (UDR \/ CNT'[htim6] = 0)
  /\ UNCHANGED <<testVars, tim6_count, samples, CEN, dma>>

Tick == Count(1) /\ UNCHANGED history

(* It matters between the first and the last sample.                       *)
Drift ==
  \E n \in {0, 2} :
    /\ CEN[htim2] /\ Count(n)
    /\ Fault("drift")
    /\ IF NDTR \in 1..N_SAMPLES - 1 THEN Damage(1, n) ELSE UNCHANGED damaged

-----------------------------------------------------------------------------
MainStep == TIM_Test_Perform
IrqStep  == PeriodElapsed \/ SamplesComplete
DmaStep  == Sample
WireStep == Tick \/ Drift

Next == Begin \/ MainStep \/ IrqStep \/ DmaStep \/ WireStep

Spec == Init /\ [][Next]_vars

-----------------------------------------------------------------------------
(* The samples that are compared were all taken in this test: neither does *)
(* the count run ahead of the DMA, nor does a stream that is still busy    *)
(* leave the samples of an earlier test in place.                          *)
NothingUnwrittenRead ==
  /\ pc = "compare" => NDTR = 0 /\ ~TCIF
  /\ pc = "dma" => NDTR = 0 /\ ~TCIF /\ ~UDR

(* What may keep the test waiting for ever: nothing.                       *)
Breaking == {}
=============================================================================
