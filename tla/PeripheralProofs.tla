--------------------------- MODULE PeripheralProofs ---------------------------
(***************************************************************************)
(* Proofs that every step keeps the invariants of PeripheralInvariants,    *)
(* and what follows from them for the tests of the peripherals (the SPI    *)
(* and the I2C have the module BusProofs):                                 *)
(*   AdcLeftClean           the ADC is idle between its tests              *)
(*   TimerReadsItsSamples   the samples compared are of this test          *)
(*   UartLeftClean, UartIsNeverBusy, UartReadsWhatItGot                    *)
(* and for the tests of all five together:                                 *)
(*   TypesAreKept           no queue takes more than it holds              *)
(*   PassIsSound, FailureHasReason   what the verdicts mean                *)
(***************************************************************************)
EXTENDS BusProofs

-----------------------------------------------------------------------------
(* ADC.                                                                    *)

LEMMA AdcInit == Adc!Init => AdcInv
<1> SUFFICES ASSUME Adc!Init PROVE AdcInv
  OBVIOUS
<1> USE DEF Adc!Init, Adc!TestInit
<1>1. Adc!TestTypeOK
  BY PeripheralAssumption DEF Adc!TestTypeOK
<1>2. adc_NDTR \in 0..1
  OBVIOUS
<1>3. Adc!TypeOK
  BY <1>1, <1>2 DEF Adc!TypeOK, Adc!Labels
<1>4. AdcPhases
  BY DEF AdcPhases, Adc!CleanBetweenTests
<1>5. AdcValues
  BY DEF AdcValues, AdcValueTold
<1> QED
  BY <1>3, <1>4, <1>5 DEF AdcInv

LEMMA AdcTypes == Adc!TypeOK /\ [Adc!Next]_(Adc!vars) => (Adc!TypeOK)'
<1> SUFFICES ASSUME Adc!TypeOK, [Adc!Next]_(Adc!vars) PROVE (Adc!TypeOK)'
  OBVIOUS
<1> USE PeripheralAssumption
        DEF Adc!TypeOK, Adc!TestTypeOK, Adc!Labels, Adc!testVars, Adc!history, Adc!dma
<1>1. CASE UNCHANGED Adc!vars
  BY <1>1 DEF Adc!vars
<1>2. CASE Adc!Begin
  BY <1>2 DEF Adc!Begin, Adc!BeginTest
<1>3. CASE Adc!StartDMA
  BY <1>3 DEF Adc!StartDMA, Adc!Return
<1>4. CASE Adc!WaitReady
  BY <1>4 DEF Adc!WaitReady, Adc!ClearReady
<1>5. CASE Adc!Compare
  BY <1>5 DEF Adc!Compare, Adc!Return
<1>6. CASE Adc!ConvCplt
  BY <1>6 DEF Adc!ConvCplt
<1>7. CASE Adc!Convert
  <2>1. adc_NDTR' \in 0..1
    BY <1>7 DEF Adc!Convert, Adc!Store
  <2> QED
    BY <1>7, <2>1 DEF Adc!Convert, Adc!Store
<1>8. CASE Adc!ConvertOff
  <2>1. adc_NDTR' \in 0..1 /\ damaged' \in 0..2
    BY <1>8 DEF Adc!ConvertOff, Adc!Store, Adc!Damage
  <2>2. /\ faults' \in Seq(LineFaults) /\ Len(faults') <= MaxFaults
        /\ since' \in 0..Len(faults')
    BY <1>8 DEF Adc!ConvertOff, Adc!Fault
  <2> QED
    BY <1>8, <2>1, <2>2 DEF Adc!ConvertOff, Adc!Store
<1> QED
  BY <1>1, <1>2, <1>3, <1>4, <1>5, <1>6, <1>7, <1>8
     DEF Adc!Next, Adc!MainStep, Adc!IrqStep, Adc!WireStep

LEMMA AdcPhasesStep == AdcInv /\ [Adc!Next]_(Adc!vars) => AdcPhases'
<1> SUFFICES ASSUME AdcInv, [Adc!Next]_(Adc!vars) PROVE AdcPhases'
  OBVIOUS
<1> USE DEF AdcInv, AdcPhases, Adc!CleanBetweenTests, AdcUnderWay, AdcStored, AdcAnnounced,
            Adc!testVars, Adc!dma
<1>1. CASE UNCHANGED Adc!vars
  BY <1>1 DEF Adc!vars
<1>2. CASE Adc!Begin
  BY <1>2 DEF Adc!Begin, Adc!BeginTest
<1>3. CASE Adc!StartDMA
  BY <1>3 DEF Adc!StartDMA, Adc!Return
<1>4. CASE Adc!WaitReady
  BY <1>4 DEF Adc!WaitReady, Adc!ClearReady
<1>5. CASE Adc!Compare
  BY <1>5 DEF Adc!Compare, Adc!Return
<1>6. CASE Adc!ConvCplt
  BY <1>6 DEF Adc!ConvCplt, Adc!TypeOK, Adc!Labels
<1>7. CASE \E value : Adc!Store(value)
  BY <1>7 DEF Adc!Store, Adc!TypeOK, Adc!Labels
<1> QED
  BY <1>1, <1>2, <1>3, <1>4, <1>5, <1>6, <1>7
     DEF Adc!Next, Adc!MainStep, Adc!IrqStep, Adc!WireStep, Adc!Convert, Adc!ConvertOff

LEMMA AdcValuesStep == AdcInv /\ [Adc!Next]_(Adc!vars) => AdcValues'
<1> SUFFICES ASSUME AdcInv, [Adc!Next]_(Adc!vars) PROVE AdcValues'
  OBVIOUS
<1> USE DEF AdcInv, AdcPhases, AdcValues, AdcValueTold, OwnFault, Adc!CleanBetweenTests,
            AdcUnderWay, AdcStored, AdcAnnounced, Adc!testVars, Adc!history, Adc!dma
<1>1. CASE UNCHANGED Adc!vars
  BY <1>1 DEF Adc!vars
<1>2. CASE Adc!Begin
  BY <1>2 DEF Adc!Begin, Adc!BeginTest
<1>3. CASE Adc!StartDMA
  BY <1>3 DEF Adc!StartDMA, Adc!Return
<1>4. CASE Adc!WaitReady
  BY <1>4 DEF Adc!WaitReady, Adc!ClearReady
<1>5. CASE Adc!Compare
  BY <1>5 DEF Adc!Compare, Adc!Return
<1>6. CASE Adc!ConvCplt
  BY <1>6 DEF Adc!ConvCplt
<1>7. CASE Adc!Convert
  BY <1>7 DEF Adc!Convert, Adc!Store
<1>8. CASE Adc!ConvertOff
  BY <1>8 DEF Adc!ConvertOff, Adc!Store, Adc!Fault, Adc!Damage, Adc!TypeOK, Adc!TestTypeOK
<1> QED
  BY <1>1, <1>2, <1>3, <1>4, <1>5, <1>6, <1>7, <1>8
     DEF Adc!Next, Adc!MainStep, Adc!IrqStep, Adc!WireStep

LEMMA AdcStep == AdcInv /\ [Adc!Next]_(Adc!vars) => AdcInv'
  BY AdcTypes, AdcPhasesStep, AdcValuesStep DEF AdcInv

(* While the ADC is tested, its invariant holds.                           *)
LEMMA AdcHolds == Spec => [](device = "ADC" => AdcInv)
<1>1. Init => (device = "ADC" => AdcInv)
  BY AdcInit DEF Init
<1>2. (device = "ADC" => AdcInv) /\ [Next]_vars => (device = "ADC" => AdcInv)'
  <2> SUFFICES ASSUME device = "ADC" => AdcInv, [Next]_vars, device' = "ADC" PROVE AdcInv'
    OBVIOUS
  <2>1. device = "ADC"
    BY DEF Next, Begin, MainStep, IrqStep, DmaStep, WireStep, Only, vars
  <2>2. [Adc!Next]_(Adc!vars)
    BY <2>1 DEF Next, Begin, MainStep, IrqStep, DmaStep, WireStep, Only, Adc!Next,
                vars, testVars, history, adcVars, Adc!vars, Adc!testVars, Adc!history, Adc!dma
  <2> QED
    BY <2>1, <2>2, AdcStep
<1> QED
  BY <1>1, <1>2, PTL DEF Spec

(* Between two tests of the ADC no conversion is under way, no completion  *)
(* pending and the flag clear: the flag that ends a wait was set by a      *)
(* conversion of the same test.                                            *)
THEOREM AdcLeftClean == Spec => []AdcClean
<1>1. (device = "ADC" => AdcInv) => AdcClean
  BY DEF AdcInv, AdcPhases, AdcClean
<1> QED
  BY <1>1, AdcHolds, PTL

-----------------------------------------------------------------------------
(* Timer.                                                                  *)

LEMMA TimConstants ==
  /\ N_SAMPLES \in Nat /\ EXPECTED_INTERVAL \in Nat /\ Wrap \in Nat /\ MaxDelay \in Nat
  /\ N_SAMPLES > 1 /\ Wrap > EXPECTED_INTERVAL
  /\ EXPECTED_INTERVAL > 2 * MaxDelay /\ EXPECTED_INTERVAL > 0
  BY PeripheralAssumption

(* A counter that is counted up once.                                      *)
LEMMA OneMore ==
  ASSUME NEW n \in Nat, NEW c \in 0..n - 1
  PROVE  (c + 1) % n = IF c + 1 = n THEN 0 ELSE c + 1
  OBVIOUS

LEMMA TimTypeInit == Timer!Init => Timer!TypeOK
<1> SUFFICES ASSUME Timer!Init PROVE Timer!TypeOK
  OBVIOUS
<1> USE TimConstants DEF Timer!Init, Timer!TestInit
<1>1. Timer!TestTypeOK
  BY PeripheralAssumption DEF Timer!TestTypeOK
<1>2. /\ tim6_count \in 0..N_SAMPLES /\ tim_NDTR \in 0..N_SAMPLES /\ delay \in 0..MaxDelay
      /\ samples \in [1..N_SAMPLES -> 0..Wrap - 1]
  OBVIOUS
<1>3. CNT \in [Timer!Timers -> 0..Wrap - 1] /\ CNT[Timer!htim6] < EXPECTED_INTERVAL
  BY DEF Timer!Timers
<1>4. CEN \in [Timer!Timers -> BOOLEAN]
  OBVIOUS
<1>5. pc \in Timer!Labels /\ UIF \in BOOLEAN /\ UDR \in BOOLEAN /\ tim_TCIF \in BOOLEAN
  BY DEF Timer!Labels
<1> QED
  BY <1>1, <1>2, <1>3, <1>4, <1>5 DEF Timer!TypeOK

LEMMA TimInit == Timer!Init => TimInv
<1> SUFFICES ASSUME Timer!Init PROVE TimInv
  OBVIOUS
<1>1. Timer!TypeOK
  BY TimTypeInit
<1> USE TimConstants DEF Timer!Init, Timer!TestInit
<1>2. /\ CNT[Timer!htim6] = 0
      /\ CEN[Timer!htim2] = FALSE /\ CEN[Timer!htim6] = FALSE
  BY DEF Timer!Timers
<1>3. CNT[Timer!htim6] <= MaxDelay
  BY <1>2
<1>4. TimPhases
  <2>1. ~CEN[Timer!htim6] /\ ~CEN[Timer!htim2]
    BY <1>2
  <2> QED
    BY <1>3, <2>1 DEF TimPhases, TimAtRest
<1>5. TimCounted /\ TimSampled
  BY DEF TimCounted, TimSampled
<1>6. TimJudged
  BY DEF TimJudged
<1> QED
  BY <1>1, <1>4, <1>5, <1>6 DEF TimInv

(* What the clock does: both counters go on, TIM6 from the end of its      *)
(* period to zero; outside the loop it never gets so far.                  *)
LEMMA TimCount ==
  ASSUME TimInv, NEW n \in 0..2, Timer!Count(n)
  PROVE  /\ pc \in {"start2", "dma", "wait", "stop2", "stop6"}
         /\ ~UIF /\ ~UDR /\ ~tim_TCIF
         /\ CNT' \in [Timer!Timers -> 0..Wrap - 1]
         /\ CNT[Timer!htim6] + 1 < EXPECTED_INTERVAL =>
              CNT'[Timer!htim6] = CNT[Timer!htim6] + 1 /\ ~UIF' /\ ~UDR'
         /\ CNT[Timer!htim6] + 1 >= EXPECTED_INTERVAL =>
              /\ CNT'[Timer!htim6] = 0 /\ CNT[Timer!htim6] + 1 = EXPECTED_INTERVAL
              /\ UIF' /\ UDR'
         /\ UIF' \in BOOLEAN /\ UDR' \in BOOLEAN
         /\ CNT'[Timer!htim2] = IF CEN[Timer!htim2] THEN (CNT[Timer!htim2] + n) % Wrap
                                                    ELSE CNT[Timer!htim2]
         /\ IF pc = "wait" /\ tim6_count < N_SAMPLES
              THEN delay' = 0
              ELSE /\ delay < MaxDelay /\ delay' = delay + 1
                   /\ CNT[Timer!htim6] + 1 < EXPECTED_INTERVAL
         /\ UNCHANGED <<pc, msg, verdict, tim6_count, samples, CEN, tim_NDTR, tim_TCIF>>
<1> USE TimConstants
<1> DEFINE c == CNT[Timer!htim6]
<1>1. /\ UNCHANGED <<pc, msg, verdict, tim6_count, samples, CEN, tim_NDTR, tim_TCIF>>
      /\ CEN[Timer!htim6] /\ ~UIF /\ ~tim_TCIF /\ ~(UDR /\ tim_NDTR > 0)
  BY DEF Timer!Count, Timer!Settled, Timer!DmaRequest, Timer!testVars, Timer!dma
<1>2. pc \in {"start2", "dma", "wait", "stop2", "stop6"}
  BY <1>1 DEF TimInv, TimPhases
<1>3. ~UDR
  BY <1>1 DEF TimInv, TimPhases, TimCounted, TimAtRest
<1>4. /\ CNT \in [Timer!Timers -> 0..Wrap - 1] /\ c \in 0..EXPECTED_INTERVAL - 1
      /\ CNT[Timer!htim2] \in 0..Wrap - 1
      /\ delay \in 0..MaxDelay /\ tim6_count \in 0..N_SAMPLES
  BY DEF TimInv, Timer!TypeOK, Timer!Timers
<1>5. CNT' = [CNT EXCEPT ![Timer!htim6] = (c + 1) % EXPECTED_INTERVAL,
                         ![Timer!htim2] = IF CEN[Timer!htim2] THEN (CNT[Timer!htim2] + n) % Wrap
                                                              ELSE CNT[Timer!htim2]]
  BY DEF Timer!Count
<1>6. CNT'[Timer!htim6] = (c + 1) % EXPECTED_INTERVAL
  BY <1>4, <1>5 DEF Timer!Timers, Timer!htim2, Timer!htim6
<1>7. CNT'[Timer!htim2] = IF CEN[Timer!htim2] THEN (CNT[Timer!htim2] + n) % Wrap
                                             ELSE CNT[Timer!htim2]
  BY <1>4, <1>5 DEF Timer!Timers, Timer!htim2, Timer!htim6
<1>8. CNT'[Timer!htim6] = IF c + 1 = EXPECTED_INTERVAL THEN 0 ELSE c + 1
  BY <1>4, <1>6, OneMore
<1>9. CNT'[Timer!htim2] \in 0..Wrap - 1 /\ CNT'[Timer!htim6] \in 0..Wrap - 1
  <2>1. CNT'[Timer!htim6] \in 0..Wrap - 1
    BY <1>4, <1>8
  <2>2. (CNT[Timer!htim2] + n) % Wrap \in 0..Wrap - 1
    BY <1>4
  <2> QED
    BY <1>4, <1>7, <2>1, <2>2
<1>10. CNT' \in [Timer!Timers -> 0..Wrap - 1]
  BY <1>4, <1>5, <1>9 DEF Timer!Timers
<1>11. UIF' = (CNT'[Timer!htim6] = 0) /\ UDR' = (CNT'[Timer!htim6] = 0)
  BY <1>3 DEF Timer!Count
<1>12. UIF' \in BOOLEAN /\ UDR' \in BOOLEAN
  BY <1>11
<1>13. c + 1 < EXPECTED_INTERVAL => CNT'[Timer!htim6] = c + 1 /\ ~UIF' /\ ~UDR'
  <2>1. c + 1 < EXPECTED_INTERVAL => CNT'[Timer!htim6] = c + 1 /\ CNT'[Timer!htim6] # 0
    BY <1>4, <1>8
  <2> QED
    BY <1>11, <2>1, Zenon
<1>14. c + 1 >= EXPECTED_INTERVAL =>
         CNT'[Timer!htim6] = 0 /\ c + 1 = EXPECTED_INTERVAL /\ UIF' /\ UDR'
  <2>1. c + 1 >= EXPECTED_INTERVAL => c + 1 = EXPECTED_INTERVAL /\ CNT'[Timer!htim6] = 0
    BY <1>4, <1>8
  <2> QED
    BY <1>11, <2>1, Zenon
<1>15. IF pc = "wait" /\ tim6_count < N_SAMPLES
         THEN delay' = 0
         ELSE /\ delay < MaxDelay /\ delay' = delay + 1
              /\ c + 1 < EXPECTED_INTERVAL
  <2>1. CASE pc = "wait" /\ tim6_count < N_SAMPLES
    BY <1>4, <2>1 DEF Timer!Count, Timer!InCall, Timer!AllCounted
  <2>2. CASE ~(pc = "wait" /\ tim6_count < N_SAMPLES)
    <3>1. delay < MaxDelay /\ delay' = delay + 1
      BY <1>4, <2>2 DEF Timer!Count, Timer!InCall, Timer!AllCounted
    <3>2. c <= MaxDelay + delay
      BY <1>2, <1>4, <2>2 DEF TimInv, TimPhases, TimCounted
    <3> QED
      BY <1>4, <2>2, <3>1, <3>2
  <2> QED
    BY <2>1, <2>2
<1> QED
  BY <1>1, <1>2, <1>3, <1>7, <1>10, <1>12, <1>13, <1>14, <1>15

LEMMA TimTestTypes == TimInv /\ [Timer!Next]_(Timer!vars) => (Timer!TestTypeOK)'
<1> SUFFICES ASSUME TimInv, [Timer!Next]_(Timer!vars) PROVE (Timer!TestTypeOK)'
  OBVIOUS
<1>0. Timer!TestTypeOK
  BY DEF TimInv, Timer!TypeOK
<1> USE PeripheralAssumption DEF Timer!TestTypeOK, Timer!testVars, Timer!history
<1>1. CASE UNCHANGED Timer!vars
  BY <1>0, <1>1 DEF Timer!vars
<1>2. CASE Timer!Begin
  BY <1>0, <1>2 DEF Timer!Begin, Timer!BeginTest
<1>3. CASE Timer!TIM_Test_Perform
  BY <1>0, <1>3 DEF Timer!TIM_Test_Perform, Timer!Switch, Timer!StartDMA, Timer!WaitCount,
                    Timer!Go, Timer!Compare, Timer!Return
<1>4. CASE Timer!PeriodElapsed \/ Timer!SamplesComplete \/ Timer!Sample \/ Timer!Tick
  BY <1>0, <1>4 DEF Timer!PeriodElapsed, Timer!SamplesComplete, Timer!Sample, Timer!Tick,
                    Timer!Count
<1>5. CASE Timer!Drift
  <2>1. /\ faults' \in Seq(LineFaults) /\ Len(faults') <= MaxFaults
        /\ since' \in 0..Len(faults')
    BY <1>0, <1>5 DEF Timer!Drift, Timer!Fault
  <2>2. damaged' \in 0..2
    BY <1>0, <1>5 DEF Timer!Drift, Timer!Damage
  <2> QED
    BY <1>0, <1>5, <2>1, <2>2 DEF Timer!Drift, Timer!Count
<1> QED
  BY <1>1, <1>2, <1>3, <1>4, <1>5
     DEF Timer!Next, Timer!MainStep, Timer!IrqStep, Timer!DmaStep, Timer!WireStep

LEMMA TimTypes == TimInv /\ [Timer!Next]_(Timer!vars) => (Timer!TypeOK)'
<1> SUFFICES ASSUME TimInv, [Timer!Next]_(Timer!vars) PROVE (Timer!TypeOK)'
  OBVIOUS
<1>0. (Timer!TestTypeOK)' /\ Timer!TypeOK
  BY TimTestTypes DEF TimInv
<1> USE TimConstants DEF Timer!testVars, Timer!clocks, Timer!dma
<1>1. CASE UNCHANGED Timer!vars
  BY <1>0, <1>1 DEF Timer!vars, Timer!TypeOK
<1>2. CASE Timer!Begin
  <2>1. tim6_count' \in 0..N_SAMPLES /\ delay' \in 0..MaxDelay
    BY <1>2 DEF Timer!Begin, Timer!ResetCount
  <2> QED
    BY <1>0, <1>2, <2>1 DEF Timer!Begin, Timer!BeginTest, Timer!TypeOK, Timer!Labels
<1>3. CASE \/ \E t \in Timer!Timers, on \in BOOLEAN, here, next \in Timer!Labels :
                Timer!Switch(t, on, here, next)
           \/ \E here, next \in Timer!Labels : Timer!WaitCount(here, next)
  BY <1>0, <1>3 DEF Timer!Switch, Timer!WaitCount, Timer!Go, Timer!TypeOK
<1>4. CASE Timer!StartDMA("dma", "wait")
  <2>1. tim_NDTR' \in 0..N_SAMPLES /\ delay' \in 0..MaxDelay
    BY <1>0, <1>4 DEF Timer!StartDMA, Timer!TypeOK
  <2> QED
    BY <1>0, <1>4, <2>1 DEF Timer!StartDMA, Timer!Go, Timer!TypeOK, Timer!Labels
<1>5. CASE Timer!Compare
  BY <1>0, <1>5 DEF Timer!Compare, Timer!Return, Timer!TypeOK, Timer!Labels
<1>6. CASE Timer!PeriodElapsed
  <2>1. tim6_count' \in 0..N_SAMPLES
    <3>1. tim6_count + 1 <= N_SAMPLES
      BY <1>0, <1>6 DEF TimInv, TimPhases, TimCounted, TimAtRest, Timer!PeriodElapsed, Timer!TypeOK
    <3> QED
      BY <1>0, <1>6, <3>1 DEF Timer!PeriodElapsed, Timer!TypeOK
  <2> QED
    BY <1>0, <1>6, <2>1 DEF Timer!PeriodElapsed, Timer!TypeOK
<1>7. CASE Timer!SamplesComplete
  BY <1>0, <1>7 DEF Timer!SamplesComplete, Timer!TypeOK
<1>8. CASE Timer!Sample
  <2>1. tim_NDTR' \in 0..N_SAMPLES
    BY <1>0, <1>8 DEF Timer!Sample, Timer!DmaRequest, Timer!TypeOK
  <2>2. samples' \in [1..N_SAMPLES -> 0..Wrap - 1]
    BY <1>0, <1>8 DEF Timer!Sample, Timer!TypeOK, Timer!Timers
  <2>3. tim_TCIF' \in BOOLEAN
    BY <1>8 DEF Timer!Sample
  <2> QED
    BY <1>0, <1>8, <2>1, <2>2, <2>3 DEF Timer!Sample, Timer!TypeOK
<1>9. CASE \E n \in 0..2 : Timer!Count(n)
  <2> PICK n \in 0..2 : Timer!Count(n)
    BY <1>9
  <2>1. delay' \in 0..MaxDelay
    BY <1>0, TimCount DEF Timer!TypeOK
  <2>2. CNT'[Timer!htim6] < EXPECTED_INTERVAL
    BY <1>0, TimCount, SMTT(40) DEF Timer!TypeOK, Timer!Timers
  <2> QED
    BY <1>0, <2>1, <2>2, TimCount DEF Timer!TypeOK
<1> QED
  <2>1. CASE Timer!TIM_Test_Perform
    BY <1>3, <1>4, <1>5, <2>1 DEF Timer!TIM_Test_Perform, Timer!Timers, Timer!Labels
  <2>2. CASE Timer!Tick \/ Timer!Drift
    BY <1>9, <2>2 DEF Timer!Tick, Timer!Drift
  <2> QED
    BY <1>1, <1>2, <1>6, <1>7, <1>8, <2>1, <2>2
       DEF Timer!Next, Timer!MainStep, Timer!IrqStep, Timer!DmaStep, Timer!WireStep

LEMMA TimPhasesStep == TimInv /\ [Timer!Next]_(Timer!vars) => TimPhases'
<1> SUFFICES ASSUME TimInv, [Timer!Next]_(Timer!vars) PROVE TimPhases'
  OBVIOUS
<1>0. TimPhases /\ TimCounted
  BY DEF TimInv
<1>t. /\ CEN \in [Timer!Timers -> BOOLEAN]
      /\ CNT[Timer!htim6] \in Nat /\ delay \in 0..MaxDelay
      /\ tim6_count \in 0..N_SAMPLES /\ tim_NDTR \in 0..N_SAMPLES
  BY TimConstants DEF TimInv, Timer!TypeOK, Timer!Timers
<1> USE TimConstants DEF Timer!testVars, Timer!clocks, Timer!dma, TimAtRest, Timer!Settled,
                         Timer!DmaRequest
<1>1. CASE UNCHANGED Timer!vars
  BY <1>0, <1>1 DEF Timer!vars, TimPhases
<1>2. CASE Timer!Begin
  BY <1>0, <1>2 DEF Timer!Begin, Timer!BeginTest, Timer!ResetCount, TimPhases
<1>3. CASE Timer!Switch(Timer!htim6, TRUE, "start", "start2")
  <2>1. CEN'[Timer!htim6] /\ CEN'[Timer!htim2] = CEN[Timer!htim2]
    BY <1>t, <1>3 DEF Timer!Switch, Timer!Timers, Timer!htim2, Timer!htim6
  <2>2. CNT'[Timer!htim6] <= MaxDelay + delay' /\ tim6_count' = 0
    BY <1>0, <1>t, <1>3 DEF Timer!Switch, Timer!Go, TimPhases
  <2> QED
    BY <1>0, <1>3, <2>1, <2>2 DEF Timer!Switch, Timer!Go, TimPhases
<1>4. CASE Timer!Switch(Timer!htim2, TRUE, "start2", "dma")
  <2>1. CEN'[Timer!htim2] /\ CEN'[Timer!htim6] = CEN[Timer!htim6]
    BY <1>t, <1>4 DEF Timer!Switch, Timer!Timers, Timer!htim2, Timer!htim6
  <2> QED
    BY <1>0, <1>t, <1>4, <2>1 DEF Timer!Switch, Timer!Go, TimPhases
<1>5. CASE Timer!StartDMA("dma", "wait")
  BY <1>0, <1>5 DEF Timer!StartDMA, Timer!Go, TimPhases
<1>6. CASE Timer!WaitCount("wait", "stop2")
  <2>1. tim6_count = N_SAMPLES
    BY <1>t, <1>6 DEF Timer!WaitCount, Timer!AllCounted
  <2>2. ~UIF /\ ~UDR /\ tim_NDTR = 0 /\ ~tim_TCIF /\ CNT[Timer!htim6] = delay
    BY <1>0, <1>t, <1>6, <2>1 DEF Timer!WaitCount, Timer!Go, TimCounted
  <2> QED
    BY <1>0, <1>6, <2>2 DEF Timer!WaitCount, Timer!Go, TimPhases
<1>7. CASE Timer!Switch(Timer!htim2, FALSE, "stop2", "stop6")
  <2>1. ~CEN'[Timer!htim2] /\ CEN'[Timer!htim6] = CEN[Timer!htim6]
    BY <1>t, <1>7 DEF Timer!Switch, Timer!Timers, Timer!htim2, Timer!htim6
  <2> QED
    BY <1>0, <1>t, <1>7, <2>1 DEF Timer!Switch, Timer!Go, TimPhases
<1>8. CASE Timer!Switch(Timer!htim6, FALSE, "stop6", "compare")
  <2>1. ~CEN'[Timer!htim6] /\ CEN'[Timer!htim2] = CEN[Timer!htim2]
    BY <1>t, <1>8 DEF Timer!Switch, Timer!Timers, Timer!htim2, Timer!htim6
  <2> QED
    BY <1>0, <1>t, <1>8, <2>1 DEF Timer!Switch, Timer!Go, TimPhases
<1>9. CASE Timer!Compare
  BY <1>0, <1>9 DEF Timer!Compare, Timer!Return, TimPhases
<1>10. CASE Timer!PeriodElapsed
  BY <1>0, <1>10 DEF Timer!PeriodElapsed, TimPhases
<1>11. CASE Timer!SamplesComplete
  BY <1>0, <1>11 DEF Timer!SamplesComplete, TimPhases
<1>12. CASE Timer!Sample
  BY <1>0, <1>12 DEF Timer!Sample, TimPhases
<1>13. CASE \E n \in 0..2 : Timer!Count(n)
  <2> PICK n \in 0..2 : Timer!Count(n)
    BY <1>13
  <2>1. CASE pc = "wait"
    BY <1>0, <2>1, TimCount DEF TimPhases
  <2>2. CASE pc # "wait"
    <3>1. /\ CNT'[Timer!htim6] = CNT[Timer!htim6] + 1 /\ ~UIF' /\ ~UDR'
          /\ delay' = delay + 1
      BY <2>2, TimCount
    <3>2. pc' \in {"start2", "dma"} => CNT'[Timer!htim6] <= MaxDelay + delay'
      BY <1>0, <1>t, <3>1, TimCount DEF TimPhases
    <3>3. pc' \in {"stop2", "stop6"} => CNT'[Timer!htim6] = delay'
      BY <1>0, <1>t, <3>1, TimCount DEF TimPhases
    <3> QED
      BY <1>0, <2>2, <3>1, <3>2, <3>3, TimCount DEF TimPhases
  <2> QED
    BY <2>1, <2>2
<1> QED
  <2>1. CASE Timer!TIM_Test_Perform
    BY <1>3, <1>4, <1>5, <1>6, <1>7, <1>8, <1>9, <2>1 DEF Timer!TIM_Test_Perform
  <2>2. CASE Timer!Tick \/ Timer!Drift
    BY <1>13, <2>2 DEF Timer!Tick, Timer!Drift
  <2> QED
    BY <1>1, <1>2, <1>10, <1>11, <1>12, <2>1, <2>2
       DEF Timer!Next, Timer!MainStep, Timer!IrqStep, Timer!DmaStep, Timer!WireStep

LEMMA TimCountedStep == TimInv /\ [Timer!Next]_(Timer!vars) => TimCounted'
<1> SUFFICES ASSUME TimInv, [Timer!Next]_(Timer!vars), pc' = "wait" PROVE TimCounted'
  BY DEF TimCounted
<1>0. TimPhases /\ TimCounted
  BY DEF TimInv
<1>t. /\ CNT[Timer!htim6] \in Nat /\ delay \in 0..MaxDelay
      /\ tim6_count \in 0..N_SAMPLES /\ tim_NDTR \in 0..N_SAMPLES
      /\ UIF \in BOOLEAN /\ UDR \in BOOLEAN
  BY TimConstants DEF TimInv, Timer!TypeOK, Timer!Timers
<1> USE TimConstants DEF Timer!testVars, Timer!clocks, Timer!dma, TimCounted
<1>1. CASE UNCHANGED Timer!vars
  BY <1>0, <1>1 DEF Timer!vars
<1>2. CASE Timer!Begin \/ Timer!Compare
  BY <1>2 DEF Timer!Begin, Timer!BeginTest, Timer!Compare, Timer!Return
<1>3. CASE Timer!TIM_Test_Perform /\ pc # "dma"
  BY <1>3 DEF Timer!TIM_Test_Perform, Timer!Switch, Timer!StartDMA, Timer!WaitCount,
              Timer!Go, Timer!Compare, Timer!Return
<1>4. CASE Timer!StartDMA("dma", "wait")
  <2>1. ~UIF' /\ ~UDR' /\ ~tim_TCIF' /\ tim_NDTR' = N_SAMPLES /\ delay' = 0
    BY <1>0, <1>4 DEF Timer!StartDMA, Timer!Go, TimPhases, TimAtRest
  <2>2. tim6_count' = 0
    BY <1>0, <1>4 DEF Timer!StartDMA, Timer!Go, TimPhases
  <2> QED
    BY <2>1, <2>2
<1>5. CASE Timer!PeriodElapsed
  BY <1>0, <1>t, <1>5 DEF Timer!PeriodElapsed
<1>6. CASE Timer!SamplesComplete
  BY <1>0, <1>t, <1>6 DEF Timer!SamplesComplete
<1>7. CASE Timer!Sample
  <2>1. /\ UDR /\ ~UDR' /\ tim_NDTR > 0 /\ tim_NDTR' = tim_NDTR - 1
        /\ tim_TCIF' = (tim_NDTR = 1)
        /\ UNCHANGED <<pc, tim6_count, CNT, UIF, delay>>
    BY <1>7 DEF Timer!Sample, Timer!DmaRequest
  <2>2. tim_TCIF' => tim_NDTR' = 0
    <3>1. CASE tim_NDTR = 1
      BY <2>1, <3>1
    <3>2. CASE tim_NDTR # 1
      BY <2>1, <3>2, Zenon
    <3> QED
      BY <3>1, <3>2
  <2>3. tim6_count + (IF UIF THEN 1 ELSE 0) + tim_NDTR = N_SAMPLES + 1
    BY <1>0, <2>1
  <2>4. tim6_count' + (IF UIF' THEN 1 ELSE 0) + tim_NDTR' = N_SAMPLES
    BY <1>t, <2>1, <2>3
  <2> QED
    BY <1>0, <1>t, <2>1, <2>2, <2>4
<1>8. CASE \E n \in 0..2 : Timer!Count(n)
  <2> PICK n \in 0..2 : Timer!Count(n)
    BY <1>8
  <2>1. /\ pc = "wait" /\ ~UIF /\ ~UDR
        /\ UNCHANGED <<tim6_count, tim_NDTR, tim_TCIF>>
    BY TimCount
  <2>2. tim6_count + tim_NDTR = N_SAMPLES
    BY <1>0, <1>t, <2>1
  <2>3. CASE CNT[Timer!htim6] + 1 < EXPECTED_INTERVAL
    BY <1>0, <1>t, <2>1, <2>2, <2>3, TimCount
  <2>4. CASE CNT[Timer!htim6] + 1 >= EXPECTED_INTERVAL
    <3>1. UIF' /\ UDR' /\ CNT'[Timer!htim6] = 0
      BY <2>4, TimCount
    <3>2. tim6_count < N_SAMPLES /\ delay' = 0
      BY <1>t, <2>1, <2>4, TimCount
    <3>3. tim_NDTR > 0
      BY <1>t, <2>2, <3>2
    <3> QED
      BY <1>0, <1>t, <2>1, <2>2, <3>1, <3>2, <3>3
  <2> QED
    BY <1>t, <2>3, <2>4
<1> QED
  <2>1. CASE Timer!TIM_Test_Perform /\ pc = "dma"
    BY <1>4, <2>1 DEF Timer!TIM_Test_Perform, Timer!Switch, Timer!StartDMA, Timer!WaitCount,
                      Timer!Go, Timer!Compare
  <2>2. CASE Timer!Tick \/ Timer!Drift
    BY <1>8, <2>2 DEF Timer!Tick, Timer!Drift
  <2> QED
    BY <1>1, <1>2, <1>3, <1>5, <1>6, <1>7, <2>1, <2>2
       DEF Timer!Next, Timer!MainStep, Timer!IrqStep, Timer!DmaStep, Timer!WireStep

(* Counting on from a difference; a difference that is off by one.         *)
LEMMA CountedOn ==
  ASSUME NEW w \in Nat, NEW c \in 0..w - 1, NEW s \in 0..w - 1, NEW n \in 0..2
  PROVE  (((c + n) % w) - s) % w = (((c - s) % w) + n) % w
  OBVIOUS

LEMMA OffByOne ==
  ASSUME NEW w \in Nat, NEW e \in Nat, 0 < e, e < w, NEW d \in {-1, 1}
  PROVE  (e + d) % w # e
  OBVIOUS

LEMMA OneLater ==
  ASSUME NEW w \in Nat, NEW e \in Nat, e < w, NEW d \in {-1, 1}
  PROVE  (((e + d) % w) + 1) % w = (e + 1 + d) % w
  OBVIOUS

(* A sample ends the gap after the one before: a gap that was not drifted  *)
(* in is as long as it should be, one that was drifted in once is not.     *)
LEMMA TimSample ==
  ASSUME TimInv, Timer!Sample, tim_NDTR < N_SAMPLES
  PROVE  LET gap(i) == (samples'[i] - samples'[i - 1]) % Wrap
         IN  /\ pc = "wait" /\ tim_NDTR \in 1..N_SAMPLES - 1
             /\ damaged = 0 => \A i \in 2..TimTaken + 1 : gap(i) = EXPECTED_INTERVAL
             /\ damaged = 1 => \E i \in 2..TimTaken + 1 : gap(i) # EXPECTED_INTERVAL
<1> DEFINE gap(i) == (samples'[i] - samples'[i - 1]) % Wrap
<1> USE TimConstants
<1>1. /\ UDR /\ tim_NDTR > 0
      /\ samples' = [samples EXCEPT ![TimTaken + 1] = CNT[Timer!htim2]]
  BY DEF Timer!Sample, Timer!DmaRequest, TimTaken
<1>2. pc = "wait"
  BY <1>1 DEF TimInv, TimPhases, TimAtRest
<1>3. /\ tim_NDTR \in 1..N_SAMPLES - 1 /\ TimTaken \in 1..N_SAMPLES - 1
      /\ samples \in [1..N_SAMPLES -> 0..Wrap - 1] /\ CNT[Timer!htim2] \in 0..Wrap - 1
  BY <1>1 DEF TimInv, Timer!TypeOK, Timer!Timers, TimTaken
<1>4. \A i \in 2..TimTaken : gap(i) = TimGap(i)
  BY <1>1, <1>3 DEF TimGap
<1>5. gap(TimTaken + 1) = TimSince
  BY <1>1, <1>3 DEF TimSince
<1>6. /\ damaged = 0 =>
           /\ \A i \in 2..TimTaken : TimGap(i) = EXPECTED_INTERVAL
           /\ TimSince = EXPECTED_INTERVAL
      /\ damaged = 1 =>
           \/ \E i \in 2..TimTaken : TimGap(i) # EXPECTED_INTERVAL
           \/ \E d \in {-1, 1} : TimSince = (EXPECTED_INTERVAL + d) % Wrap
  BY <1>1, <1>2, <1>3 DEF TimInv, TimSampled, TimElapsed
<1>7. damaged = 0 => \A i \in 2..TimTaken + 1 : gap(i) = EXPECTED_INTERVAL
  <2> SUFFICES ASSUME damaged = 0, NEW i \in 2..TimTaken + 1 PROVE gap(i) = EXPECTED_INTERVAL
    OBVIOUS
  <2>1. CASE i = TimTaken + 1
    BY <1>5, <1>6, <2>1
  <2>2. CASE i \in 2..TimTaken
    BY <1>4, <1>6, <2>2
  <2> QED
    BY <1>3, <2>1, <2>2
<1>8. damaged = 1 => \E i \in 2..TimTaken + 1 : gap(i) # EXPECTED_INTERVAL
  <2> SUFFICES ASSUME damaged = 1 PROVE \E i \in 2..TimTaken + 1 : gap(i) # EXPECTED_INTERVAL
    OBVIOUS
  <2>1. CASE \E i \in 2..TimTaken : TimGap(i) # EXPECTED_INTERVAL
    <3> PICK i \in 2..TimTaken : TimGap(i) # EXPECTED_INTERVAL
      BY <2>1
    <3>1. i \in 2..TimTaken + 1 /\ gap(i) # EXPECTED_INTERVAL
      BY <1>3, <1>4
    <3> QED
      BY <3>1
  <2>2. CASE \E d \in {-1, 1} : TimSince = (EXPECTED_INTERVAL + d) % Wrap
    <3>1. TimSince # EXPECTED_INTERVAL
      BY <2>2, OffByOne
    <3>2. TimTaken + 1 \in 2..TimTaken + 1
      BY <1>3
    <3> QED
      BY <1>5, <3>1, <3>2
  <2> QED
    BY <1>6, <2>1, <2>2
<1> QED
  BY <1>2, <1>3, <1>7, <1>8

(* A drift between the first sample and the last is one damaged value      *)
(* more, and at other times none.                                          *)
LEMMA TimDrift ==
  ASSUME TimInv, Timer!Drift
  PROVE  \E n \in {0, 2} :
           /\ Timer!Count(n) /\ CEN[Timer!htim2]
           /\ damaged' = IF tim_NDTR \in 1..N_SAMPLES - 1 /\ damaged < 2
                           THEN damaged + 1 ELSE damaged
           /\ Len(faults') = Len(faults) + 1 /\ since' = since
<1> PICK n \in {0, 2} :
      /\ CEN[Timer!htim2] /\ Timer!Count(n) /\ Timer!Fault("drift")
      /\ IF tim_NDTR \in 1..N_SAMPLES - 1 THEN Timer!Damage(1, n) ELSE UNCHANGED damaged
  BY DEF Timer!Drift
<1>1. damaged' = IF tim_NDTR \in 1..N_SAMPLES - 1 /\ damaged < 2 THEN damaged + 1 ELSE damaged
  BY DEF Timer!Damage
<1>2. Len(faults') = Len(faults) + 1 /\ since' = since
  BY DEF Timer!Fault, TimInv, Timer!TypeOK, Timer!TestTypeOK
<1> QED
  BY <1>1, <1>2

LEMMA TimSampledStep == TimInv /\ [Timer!Next]_(Timer!vars) => TimSampled'
<1> SUFFICES ASSUME TimInv, [Timer!Next]_(Timer!vars),
                    pc' = "wait", tim_NDTR' \in 1..N_SAMPLES - 1
             PROVE  TimSampled'
  BY DEF TimSampled
<1>0. TimPhases /\ TimCounted /\ TimSampled
  BY DEF TimInv
<1>t. /\ CNT[Timer!htim6] \in 0..EXPECTED_INTERVAL - 1 /\ CNT[Timer!htim2] \in 0..Wrap - 1
      /\ tim_NDTR \in 0..N_SAMPLES /\ damaged \in 0..2
      /\ samples \in [1..N_SAMPLES -> 0..Wrap - 1]
  BY TimConstants DEF TimInv, Timer!TypeOK, Timer!TestTypeOK, Timer!Timers
<1> USE TimConstants DEF Timer!testVars, Timer!clocks, Timer!dma, Timer!history
<1>1. CASE pc = "wait" /\ UNCHANGED <<samples, damaged, CNT, UDR, tim_NDTR>>
  <2>1. TimTaken' = TimTaken /\ TimElapsed' = TimElapsed
    BY <1>1 DEF TimTaken, TimElapsed
  <2>2. TimSince' = TimSince /\ \A i : TimGap(i)' = TimGap(i)
    BY <1>1, <2>1 DEF TimGap, TimSince
  <2> QED
    BY <1>0, <1>1, <2>1, <2>2 DEF TimSampled
<1>2. CASE Timer!Sample
  <2> DEFINE gap(i) == (samples'[i] - samples'[i - 1]) % Wrap
  <2>1. /\ pc = "wait" /\ UDR /\ ~UDR' /\ tim_NDTR' = tim_NDTR - 1
        /\ UNCHANGED <<damaged, CNT>>
    BY <1>0, <1>2 DEF Timer!Sample, Timer!DmaRequest, TimPhases, TimAtRest
  <2>2. samples' = [samples EXCEPT ![TimTaken + 1] = CNT[Timer!htim2]]
    BY <1>2 DEF Timer!Sample, TimTaken
  <2>3. TimTaken \in 0..N_SAMPLES - 1 /\ TimTaken' = TimTaken + 1
    BY <1>t, <2>1 DEF TimTaken
  <2>4. TimSince' = 0
    <3>1. samples'[TimTaken'] = CNT'[Timer!htim2]
      BY <1>t, <2>1, <2>2, <2>3
    <3>2. \A x \in 0..Wrap - 1 : (x - x) % Wrap = 0
      OBVIOUS
    <3>3. TimSince' = (CNT[Timer!htim2] - CNT[Timer!htim2]) % Wrap
      BY <2>1, <3>1 DEF TimSince
    <3> QED
      BY <1>t, <3>2, <3>3
  <2>5. TimElapsed' = 0
    BY <1>0, <2>1 DEF TimCounted, TimElapsed
  <2>6. CASE tim_NDTR = N_SAMPLES
    <3>1. damaged' = 0
      BY <2>1, <2>6 DEF TimInv, TimJudged
    <3>2. TimTaken = 0
      BY <2>6 DEF TimTaken
    <3>3. TimTaken' = 1
      BY <2>3, <3>2
    <3> QED
      BY <2>4, <2>5, <3>1, <3>3 DEF TimSampled
  <2>7. CASE tim_NDTR < N_SAMPLES
    <3>1. /\ damaged = 0 => \A i \in 2..TimTaken + 1 : gap(i) = EXPECTED_INTERVAL
          /\ damaged = 1 => \E i \in 2..TimTaken + 1 : gap(i) # EXPECTED_INTERVAL
      BY <1>2, <2>7, TimSample
    <3>2. \A i : TimGap(i)' = gap(i)
      BY DEF TimGap
    <3> QED
      BY <2>1, <2>3, <2>4, <2>5, <3>1, <3>2 DEF TimSampled
  <2> QED
    BY <1>t, <2>6, <2>7
<1>3. CASE \E n \in 0..2 :
             /\ Timer!Count(n)
             /\ damaged' = IF n = 1 \/ damaged = 2 THEN damaged ELSE damaged + 1
  <2> PICK n \in 0..2 :
        /\ Timer!Count(n)
        /\ damaged' = IF n = 1 \/ damaged = 2 THEN damaged ELSE damaged + 1
    BY <1>3
  <2>1. pc = "wait" /\ ~UDR /\ UNCHANGED <<samples, tim_NDTR>> /\ CEN[Timer!htim2]
    BY <1>0, TimCount DEF TimPhases
  <2>2. TimTaken \in 1..N_SAMPLES - 1 /\ TimTaken' = TimTaken /\ \A i : TimGap(i)' = TimGap(i)
    BY <1>t, <2>1, SMTT(40) DEF TimTaken, TimGap
  <2>3. TimElapsed \in 0..EXPECTED_INTERVAL - 1 /\ TimElapsed' = TimElapsed + 1
    <3>1. CASE CNT[Timer!htim6] + 1 < EXPECTED_INTERVAL
      BY <1>t, <2>1, <3>1, TimCount DEF TimElapsed
    <3>2. CASE CNT[Timer!htim6] + 1 >= EXPECTED_INTERVAL
      BY <1>t, <2>1, <3>2, TimCount DEF TimElapsed
    <3> QED
      BY <1>t, <3>1, <3>2
  <2>4. TimSince' = (TimSince + n) % Wrap
    <3>1. CNT'[Timer!htim2] = (CNT[Timer!htim2] + n) % Wrap
      BY <2>1, TimCount
    <3>2. samples[TimTaken] \in 0..Wrap - 1
      BY <1>t, <2>2
    <3>3. (((CNT[Timer!htim2] + n) % Wrap) - samples[TimTaken]) % Wrap = (TimSince + n) % Wrap
      BY <1>t, <3>2, CountedOn DEF TimSince
    <3> QED
      BY <2>1, <2>2, <3>1, <3>3 DEF TimSince
  <2>5. /\ damaged = 0 =>
             /\ \A i \in 2..TimTaken : TimGap(i) = EXPECTED_INTERVAL
             /\ TimSince = TimElapsed
        /\ damaged = 1 =>
             \/ \E i \in 2..TimTaken : TimGap(i) # EXPECTED_INTERVAL
             \/ \E d \in {-1, 1} : TimSince = (TimElapsed + d) % Wrap
    BY <1>0, <2>1 DEF TimSampled
  <2>6. ASSUME damaged' = 0
        PROVE  /\ \A i \in 2..TimTaken : TimGap(i) = EXPECTED_INTERVAL
               /\ TimSince' = TimElapsed'
    <3>1. n = 1 /\ damaged = 0
      BY <1>t, <2>6
    <3>2. TimElapsed \in 0..Wrap - 1 /\ TimElapsed + 1 # Wrap
      BY <2>3
    <3>3. (TimElapsed + 1) % Wrap = TimElapsed + 1
      BY <3>2, OneMore
    <3> QED
      BY <2>3, <2>4, <2>5, <3>1, <3>3
  <2>7. ASSUME damaged' = 1
        PROVE  \/ \E i \in 2..TimTaken : TimGap(i) # EXPECTED_INTERVAL
               \/ \E d \in {-1, 1} : TimSince' = (TimElapsed' + d) % Wrap
    <3>1. CASE damaged = 1 /\ n = 1
      <4> SUFFICES ASSUME NEW d \in {-1, 1}, TimSince = (TimElapsed + d) % Wrap
                   PROVE  TimSince' = (TimElapsed' + d) % Wrap
        BY <2>5, <3>1
      <4>0. TimElapsed \in Nat /\ TimElapsed < Wrap
        BY <2>3
      <4>1. (((TimElapsed + d) % Wrap) + 1) % Wrap = (TimElapsed + 1 + d) % Wrap
        BY <4>0, OneLater
      <4>2. TimSince' = (((TimElapsed + d) % Wrap) + 1) % Wrap
        BY <2>4, <3>1
      <4>3. TimElapsed' + d = TimElapsed + 1 + d
        BY <2>3
      <4> QED
        BY <4>1, <4>2, <4>3
    <3>2. CASE damaged = 0 /\ n # 1
      <4>1. TimElapsed + n = TimElapsed' + (n - 1) /\ n - 1 \in {-1, 1}
        BY <2>3, <3>2
      <4>2. TimSince' = (TimElapsed' + (n - 1)) % Wrap
        BY <2>4, <2>5, <3>2, <4>1
      <4> QED
        BY <4>1, <4>2
    <3> QED
      BY <1>t, <2>7, <3>1, <3>2, SMTT(40)
  <2> QED
    BY <2>2, <2>6, <2>7 DEF TimSampled
<1>4. CASE UNCHANGED Timer!vars \/ Timer!PeriodElapsed \/ Timer!SamplesComplete
  <2>1. pc = "wait" /\ UNCHANGED <<samples, damaged, CNT, UDR, tim_NDTR>>
    BY <1>4 DEF Timer!vars, Timer!PeriodElapsed, Timer!SamplesComplete
  <2> QED
    BY <1>1, <2>1
<1>5. CASE Timer!Begin \/ Timer!TIM_Test_Perform
  <2>1. Timer!StartDMA("dma", "wait")
    BY <1>5 DEF Timer!Begin, Timer!BeginTest, Timer!TIM_Test_Perform, Timer!Switch,
                Timer!WaitCount, Timer!Go, Timer!Compare, Timer!Return
  <2>2. tim_NDTR' = N_SAMPLES
    BY <1>0, <2>1 DEF Timer!StartDMA, Timer!Go, TimPhases, TimAtRest
  <2> QED
    BY <2>2
<1>6. CASE Timer!Tick
  BY <1>3, <1>6 DEF Timer!Tick
<1>7. CASE Timer!Drift
  <2> PICK n \in {0, 2} :
        /\ Timer!Count(n) /\ CEN[Timer!htim2]
        /\ damaged' = IF tim_NDTR \in 1..N_SAMPLES - 1 /\ damaged < 2
                        THEN damaged + 1 ELSE damaged
    BY <1>7, TimDrift
  <2>1. tim_NDTR' = tim_NDTR
    BY TimCount
  <2>2. damaged' = IF n = 1 \/ damaged = 2 THEN damaged ELSE damaged + 1
    BY <1>t, <2>1
  <2> QED
    BY <1>3, <2>2
<1> QED
  BY <1>2, <1>4, <1>5, <1>6, <1>7
     DEF Timer!Next, Timer!MainStep, Timer!IrqStep, Timer!DmaStep, Timer!WireStep

LEMMA TimJudgedStep == TimInv /\ [Timer!Next]_(Timer!vars) => TimJudged'
<1> SUFFICES ASSUME TimInv, [Timer!Next]_(Timer!vars) PROVE TimJudged'
  OBVIOUS
<1>0. TimPhases /\ TimCounted /\ TimJudged
  BY DEF TimInv
<1>t. /\ tim_NDTR \in 0..N_SAMPLES /\ damaged \in 0..2
      /\ Len(faults) \in Nat /\ since \in 0..Len(faults) /\ tim6_count \in 0..N_SAMPLES
  BY DEF TimInv, Timer!TypeOK, Timer!TestTypeOK
<1> USE TimConstants DEF Timer!testVars, Timer!clocks, Timer!dma, Timer!history, Timer!Spaced,
                         OwnFault
<1>1. CASE UNCHANGED Timer!vars \/ Timer!PeriodElapsed \/ Timer!SamplesComplete
  BY <1>0, <1>1 DEF Timer!vars, Timer!PeriodElapsed, Timer!SamplesComplete, TimJudged
<1>2. CASE Timer!Begin
  BY <1>0, <1>2 DEF Timer!Begin, Timer!BeginTest, TimJudged
<1>3. CASE \/ Timer!Switch(Timer!htim6, TRUE, "start", "start2")
           \/ Timer!Switch(Timer!htim2, TRUE, "start2", "dma")
           \/ Timer!Switch(Timer!htim2, FALSE, "stop2", "stop6")
           \/ Timer!Switch(Timer!htim6, FALSE, "stop6", "compare")
  BY <1>0, <1>3 DEF Timer!Switch, Timer!Go, TimJudged
<1>4. CASE Timer!StartDMA("dma", "wait")
  <2>1. tim_NDTR' = N_SAMPLES
    BY <1>0, <1>4 DEF Timer!StartDMA, Timer!Go, TimPhases, TimAtRest
  <2> QED
    BY <1>0, <1>4, <2>1 DEF Timer!StartDMA, Timer!Go, TimJudged
<1>5. CASE Timer!WaitCount("wait", "stop2")
  <2>1. tim6_count = N_SAMPLES
    BY <1>t, <1>5 DEF Timer!WaitCount, Timer!AllCounted
  <2>2. tim_NDTR = 0
    BY <1>0, <1>t, <1>5, <2>1 DEF Timer!WaitCount, Timer!Go, Timer!Settled, Timer!DmaRequest,
                                  TimCounted
  <2> QED
    BY <1>0, <1>5, <2>2 DEF Timer!WaitCount, Timer!Go, TimJudged
<1>6. CASE Timer!Compare
  <2>1. damaged = 0 => Timer!Spaced
    BY <1>0, <1>6 DEF Timer!Compare, TimJudged
  <2>2. damaged = 1 => ~Timer!Spaced
    BY <1>0, <1>6 DEF Timer!Compare, TimJudged
  <2>3. pc' = "idle" /\ verdict' = (IF Timer!Spaced THEN "pass" ELSE "fail")
        /\ UNCHANGED <<damaged, faults, since>>
    BY <1>6 DEF Timer!Compare, Timer!Return
  <2>4. damaged # 0 => OwnFault
    BY <1>0, <1>t DEF TimJudged
  <2> HIDE DEF Timer!Spaced
  <2> QED
    BY <2>1, <2>2, <2>3, <2>4, <1>t DEF TimJudged
<1>7. CASE Timer!Sample
  <2>1. /\ UNCHANGED <<pc, verdict, damaged, faults, since>> /\ tim_NDTR' = tim_NDTR - 1
        /\ tim_NDTR > 0 /\ UDR
    BY <1>7 DEF Timer!Sample, Timer!DmaRequest
  <2>2. pc = "wait"
    BY <1>0, <2>1 DEF TimPhases, TimAtRest
  <2>3. ASSUME tim_NDTR' = 0
        PROVE  (damaged = 0 => Timer!Spaced') /\ (damaged = 1 => ~Timer!Spaced')
    <3>1. tim_NDTR = 1 /\ tim_NDTR < N_SAMPLES /\ TimTaken + 1 = N_SAMPLES
      BY <1>t, <2>1, <2>3 DEF TimTaken
    <3>2. LET gap(i) == (samples'[i] - samples'[i - 1]) % Wrap
          IN  /\ damaged = 0 => \A i \in 2..TimTaken + 1 : gap(i) = EXPECTED_INTERVAL
              /\ damaged = 1 => \E i \in 2..TimTaken + 1 : gap(i) # EXPECTED_INTERVAL
      BY <1>7, <3>1, TimSample
    <3> QED
      BY <3>1, <3>2
  <2>4. tim_NDTR' # N_SAMPLES
    BY <1>t, <2>1
  <2> HIDE DEF Timer!Spaced
  <2> QED
    BY <1>0, <2>1, <2>2, <2>3, <2>4 DEF TimJudged
<1>8. CASE Timer!Tick
  <2>1. /\ Timer!Count(1) /\ UNCHANGED <<damaged, faults, since>>
    BY <1>8 DEF Timer!Tick
  <2>2. UNCHANGED <<pc, verdict, samples, tim_NDTR>>
    BY <2>1 DEF Timer!Count
  <2> QED
    BY <1>0, <2>1, <2>2 DEF TimJudged
<1>9. CASE Timer!Drift
  <2> PICK n \in {0, 2} :
        /\ Timer!Count(n) /\ CEN[Timer!htim2]
        /\ damaged' = IF tim_NDTR \in 1..N_SAMPLES - 1 /\ damaged < 2
                        THEN damaged + 1 ELSE damaged
        /\ Len(faults') = Len(faults) + 1 /\ since' = since
    BY <1>9, TimDrift
  <2>1. UNCHANGED <<pc, verdict, samples, tim_NDTR>>
    BY DEF Timer!Count
  <2>2. pc \in {"dma", "wait", "stop2"}
    BY <1>0 DEF TimPhases
  <2>3. damaged' # damaged => pc = "wait" /\ tim_NDTR \in 1..N_SAMPLES - 1
    <3>1. damaged' # damaged => tim_NDTR \in 1..N_SAMPLES - 1
      OBVIOUS
    <3>2. pc # "wait" => tim_NDTR = 0
      BY <1>0 DEF TimPhases, TimAtRest
    <3> QED
      BY <3>1, <3>2
  <2>4. OwnFault'
    BY <1>t
  <2>5. verdict \notin {"pass", "fail"}
    BY <1>0, <2>2 DEF TimJudged
  <2>6. CASE damaged' = damaged
    <3>1. Timer!Spaced' <=> Timer!Spaced
      BY <2>1
    <3> HIDE DEF Timer!Spaced, OwnFault
    <3> QED
      BY <1>0, <2>1, <2>2, <2>4, <2>5, <2>6, <3>1 DEF TimJudged
  <2>7. CASE damaged' # damaged
    <3>1. pc' = "wait" /\ tim_NDTR' \in 1..N_SAMPLES - 1
      BY <2>1, <2>3, <2>7
    <3>2. tim_NDTR' # N_SAMPLES /\ tim_NDTR' # 0
      BY <3>1
    <3> QED
      BY <2>1, <2>4, <2>5, <3>1, <3>2 DEF TimJudged
  <2> QED
    BY <2>6, <2>7
<1> QED
  BY <1>1, <1>2, <1>3, <1>4, <1>5, <1>6, <1>7, <1>8, <1>9
     DEF Timer!Next, Timer!MainStep, Timer!IrqStep, Timer!DmaStep, Timer!WireStep,
         Timer!TIM_Test_Perform

(* While the timer is tested, its invariant holds.                         *)
LEMMA TimHolds == Spec => [](device = "TIM" => TimInv)
<1>1. Init => (device = "TIM" => TimInv)
  BY TimInit DEF Init
<1>2. (device = "TIM" => TimInv) /\ [Next]_vars => (device = "TIM" => TimInv)'
  <2> SUFFICES ASSUME device = "TIM" => TimInv, [Next]_vars, device' = "TIM" PROVE TimInv'
    OBVIOUS
  <2>1. device = "TIM"
    BY DEF Next, Begin, MainStep, IrqStep, DmaStep, WireStep, Only, vars
  <2>2. [Timer!Next]_(Timer!vars)
    BY <2>1 DEF Next, Begin, MainStep, IrqStep, DmaStep, WireStep, Only, Timer!Next,
                vars, testVars, history, timVars, Timer!vars, Timer!testVars, Timer!history,
                Timer!dma, Timer!clocks
  <2> QED
    BY <2>1, <2>2, TimTypes, TimPhasesStep, TimCountedStep, TimSampledStep, TimJudgedStep
       DEF TimInv
<1> QED
  BY <1>1, <1>2, PTL DEF Spec

(* The samples that are compared are all of this test: the count of the    *)
(* interrupts never runs ahead of the DMA, and no stream is still busy     *)
(* with an earlier test when it is started.                                *)
THEOREM TimerReadsItsSamples == Spec => []TimerNothingUnwrittenRead
<1>1. (device = "TIM" => TimInv) => TimerNothingUnwrittenRead
  BY DEF TimInv, TimPhases, TimAtRest, TimerNothingUnwrittenRead, Timer!NothingUnwrittenRead
<1> QED
  BY <1>1, TimHolds, PTL
-----------------------------------------------------------------------------
(* UART.                                                                   *)

LEMMA UartPorts ==
  /\ Uart!Ports = {Uart!huart4, Uart!huart5} /\ Uart!huart4 # Uart!huart5
  /\ Uart!Peer(Uart!huart4) = Uart!huart5 /\ Uart!Peer(Uart!huart5) = Uart!huart4
  BY DEF Uart!Ports, Uart!Peer, Uart!huart4, Uart!huart5

LEMMA UartTestTypes ==
  Uart!TestTypeOK /\ [Uart!Next]_(Uart!vars) => (Uart!TestTypeOK)'
<1> SUFFICES ASSUME Uart!TestTypeOK, [Uart!Next]_(Uart!vars) PROVE (Uart!TestTypeOK)'
  OBVIOUS
<1> USE PeripheralAssumption
        DEF Uart!TestTypeOK, Uart!testVars, Uart!mainVars, Uart!history
<1>1. CASE UNCHANGED Uart!vars
  BY <1>1 DEF Uart!vars
<1>2. CASE Uart!Begin
  BY <1>2 DEF Uart!Begin, Uart!BeginTest
<1>3. CASE Uart!MainStep
  <2>1. UNCHANGED <<msg, damaged, faults, since>>
    BY <1>3 DEF Uart!MainStep, Uart!UART_Test_Perform, Uart!ReceiveDMA, Uart!EnableDMAR,
                Uart!TransmitIT, Uart!WaitRxDone, Uart!MatchCRC
  <2>2. verdict' \in {"none", "pass", "fail"}
    <3>1. CASE Uart!MatchCRC
      BY <3>1 DEF Uart!MatchCRC, Uart!Return, Uart!CrcVerdicts
    <3>2. CASE ~Uart!MatchCRC
      BY <1>3, <3>2 DEF Uart!MainStep, Uart!UART_Test_Perform, Uart!ReceiveDMA,
                        Uart!EnableDMAR, Uart!TransmitIT, Uart!WaitRxDone, Uart!Return
    <3> QED
      BY <3>1, <3>2
  <2> QED
    BY <2>1, <2>2
<1>4. CASE Uart!IrqStep \/ Uart!DmaStep
  BY <1>4 DEF Uart!IrqStep, Uart!Handlers, Uart!DmaStep, Uart!ReceiveCplt, Uart!ReceiveError,
              Uart!TransmitByte, Uart!EndTransmit, Uart!DmaTransfer
<1>5. CASE Uart!WireStep
  <2> PICK p \in Uart!Ports : Uart!Line(p)
    BY <1>5 DEF Uart!WireStep
  <2>1. UNCHANGED <<msg, verdict>>
    BY DEF Uart!Line, Uart!Arrive, Uart!ArriveFlipped, Uart!ArriveWithError, Uart!Lose,
           Uart!Glitch, Uart!Shift
  <2>2. \/ UNCHANGED <<faults, since>>
        \/ \E kind \in LineFaults :
             faults' = Append(faults, kind) /\ Len(faults) < MaxFaults /\ UNCHANGED since
    BY DEF Uart!Line, Uart!Arrive, Uart!ArriveFlipped, Uart!ArriveWithError, Uart!Lose,
           Uart!Glitch, Uart!Fault
  <2>3. damaged' \in 0..2
    BY DEF Uart!Line, Uart!Arrive, Uart!ArriveFlipped, Uart!ArriveWithError, Uart!Lose,
           Uart!Glitch, Uart!Damage
  <2>4. /\ faults' \in Seq(LineFaults) /\ Len(faults') <= MaxFaults
        /\ since' \in 0..Len(faults')
    <3>1. CASE UNCHANGED <<faults, since>>
      BY <3>1
    <3>2. ASSUME NEW kind \in LineFaults, faults' = Append(faults, kind),
                 Len(faults) < MaxFaults, UNCHANGED since
          PROVE  <2>4!:
      <4>1. faults' \in Seq(LineFaults) /\ Len(faults') = Len(faults) + 1
        BY <3>2
      <4> QED
        BY <3>2, <4>1
    <3> QED
      BY <2>2, <3>1, <3>2
  <2> QED
    BY <2>1, <2>3, <2>4
<1> QED
  BY <1>1, <1>2, <1>3, <1>4, <1>5 DEF Uart!Next

(* The variables that belong to the ports.                                 *)
LEMMA UartTypes == UartInv /\ [Uart!Next]_(Uart!vars) => (Uart!TypeOK)'
<1> SUFFICES ASSUME UartInv, [Uart!Next]_(Uart!vars) PROVE (Uart!TypeOK)'
  OBVIOUS
<1>0. Uart!TypeOK /\ (Uart!TestTypeOK)' /\ msg \in Seq(Bytes)
  BY UartTestTypes DEF UartInv, Uart!TypeOK, UartProgress
<1>n. NoByte \notin Bytes /\ Uart!NoByte = NoByte
  BY PeripheralAssumption DEF NoByte, Uart!NoByte
<1>m. uart_NDTR \in [Uart!Ports -> Nat]
  BY <1>0 DEF Uart!TypeOK
<1>r. uart_RDR \in [Uart!Ports -> Bytes \cup {NoByte}]
  BY <1>0, <1>n DEF Uart!TypeOK
<1>e. errors \in [Uart!Ports -> SUBSET {"FE", "ORE"}]
  BY <1>0 DEF Uart!TypeOK
<1> USE DEF Uart!TypeOK, Uart!testVars, Uart!mainVars, Uart!txVars, Uart!rxVars, Uart!dmaVars,
            Uart!history
<1>1. CASE UNCHANGED Uart!vars
  BY <1>0, <1>1 DEF Uart!vars
<1>2. CASE Uart!Begin
  <2>1. rx' \in [Uart!Ports -> Seq(Bytes)] /\ uart_rx_done' \in [Uart!Ports -> BOOLEAN]
    BY <1>2 DEF Uart!Begin, Uart!ClearFlags, Uart!Each
  <2> QED
    BY <1>0, <1>2, <2>1 DEF Uart!Begin, Uart!BeginTest, Uart!Labels
<1>3. ASSUME NEW p \in Uart!Ports, NEW here, NEW next \in Uart!Labels, Uart!ReceiveDMA(p, here, next)
      PROVE  (Uart!TypeOK)'
  <2>1. Len(msg) \in Nat
    BY <1>0
  <2>2. /\ RxState' \in [Uart!Ports -> {"READY", "BUSY"}]
        /\ EIE' \in [Uart!Ports -> BOOLEAN]
    BY <1>0, <1>3 DEF Uart!ReceiveDMA
  <2>3. uart_NDTR' \in [Uart!Ports -> Nat]
    BY <1>0, <1>3, <2>1, ZenonT(60) DEF Uart!ReceiveDMA
  <2>4. pc' \in Uart!Labels
    BY <1>3 DEF Uart!ReceiveDMA, Uart!Return, Uart!Labels
  <2> QED
    BY <1>0, <1>3, <2>2, <2>3, <2>4 DEF Uart!ReceiveDMA
<1>4. ASSUME NEW p \in Uart!Ports, NEW here, NEW next \in Uart!Labels, Uart!EnableDMAR(p, here, next)
      PROVE  (Uart!TypeOK)'
  BY <1>0, <1>4 DEF Uart!EnableDMAR
<1>5. ASSUME NEW p \in Uart!Ports, NEW here, NEW next \in Uart!Labels, Uart!TransmitIT(p, here, next)
      PROVE  (Uart!TypeOK)'
  <2>1. Len(msg) \in Nat
    BY <1>0
  <2>2. gState' \in [Uart!Ports -> {"READY", "BUSY"}]
    BY <1>0, <1>5 DEF Uart!TransmitIT
  <2>3. TxXferCount' \in [Uart!Ports -> Nat]
    BY <1>0, <1>5, <2>1, ZenonT(60) DEF Uart!TransmitIT
  <2>4. pc' \in Uart!Labels
    BY <1>5 DEF Uart!TransmitIT, Uart!Return, Uart!Labels
  <2> QED
    BY <1>0, <1>5, <2>2, <2>3, <2>4 DEF Uart!TransmitIT
<1>6. ASSUME NEW p \in Uart!Ports, NEW here, NEW next \in Uart!Labels, Uart!WaitRxDone(p, here, next)
      PROVE  (Uart!TypeOK)'
  BY <1>0, <1>6 DEF Uart!WaitRxDone
<1>7. CASE Uart!MatchCRC
  BY <1>0, <1>7 DEF Uart!MatchCRC, Uart!Return, Uart!Labels
<1>8. ASSUME NEW p \in Uart!Ports, Uart!ReceiveCplt(p) PROVE (Uart!TypeOK)'
  BY <1>0, <1>8 DEF Uart!ReceiveCplt, Uart!RxReady, Uart!RxCpltCallback
<1>9. ASSUME NEW p \in Uart!Ports, Uart!ReceiveError(p) PROVE (Uart!TypeOK)'
  <2>1. errors' \in [Uart!Ports -> SUBSET {"FE", "ORE"}]
    BY <1>0, <1>9 DEF Uart!ReceiveError
  <2>2. /\ uart_NDTR' \in [Uart!Ports -> Nat]
        /\ uart_TCIF' \in [Uart!Ports -> BOOLEAN]
    <3>1. uart_NDTR' \in [Uart!Ports -> Nat]
      <4>1. \/ uart_NDTR' = uart_NDTR \/ uart_NDTR' = [uart_NDTR EXCEPT ![p] = 0]
            \/ uart_NDTR' = [uart_NDTR EXCEPT ![p] = uart_NDTR[p]]
        BY <1>9 DEF Uart!ReceiveError
      <4>2. uart_NDTR[p] \in Nat
        BY <1>m
      <4> QED
        BY <1>m, <4>1, <4>2
    <3>2. uart_TCIF' = uart_TCIF \/ uart_TCIF' = [uart_TCIF EXCEPT ![p] = uart_TCIF[p] /\ ~DMAR[p]]
      BY <1>9 DEF Uart!ReceiveError
    <3>3. (uart_TCIF[p] /\ ~DMAR[p]) \in BOOLEAN
      OBVIOUS
    <3> QED
      BY <1>0, <3>1, <3>2, <3>3
  <2>3. /\ RxState' \in [Uart!Ports -> {"READY", "BUSY"}]
        /\ EIE' \in [Uart!Ports -> BOOLEAN] /\ DMAR' \in [Uart!Ports -> BOOLEAN]
    BY <1>0, <1>9 DEF Uart!ReceiveError
  <2> QED
    BY <1>0, <1>9, <2>1, <2>2, <2>3 DEF Uart!ReceiveError
<1>10. ASSUME NEW p \in Uart!Ports, Uart!TransmitByte(p) PROVE (Uart!TypeOK)'
  <2>1. Uart!NextByte(p) \subseteq Bytes
    BY <1>0, UartPorts DEF Uart!NextByte, Uart!Source
  <2>2. TxXferCount' \in [Uart!Ports -> Nat]
    BY <1>0, <1>10 DEF Uart!TransmitByte, Uart!TransmitPending, Uart!MoreToSend
  <2>3. wire' \in [Uart!Ports -> Seq(Bytes)]
    BY <1>0, <1>10, <2>1 DEF Uart!TransmitByte
  <2> QED
    BY <1>0, <1>10, <2>2, <2>3 DEF Uart!TransmitByte
<1>11. ASSUME NEW p \in Uart!Ports, Uart!EndTransmit(p) PROVE (Uart!TypeOK)'
  BY <1>0, <1>11 DEF Uart!EndTransmit
<1>12. ASSUME NEW p \in Uart!Ports, Uart!DmaTransfer(p) PROVE (Uart!TypeOK)'
  <2>1. uart_RDR[p] \in Bytes /\ uart_NDTR[p] > 0
    BY <1>0, <1>n, <1>12 DEF Uart!DmaTransfer, Uart!DmaRequest
  <2>2. uart_NDTR' \in [Uart!Ports -> Nat]
    BY <1>0, <1>12, <2>1 DEF Uart!DmaTransfer
  <2>3. rx' \in [Uart!Ports -> Seq(Bytes)] /\ uart_RDR' \in [Uart!Ports -> Bytes \cup {NoByte}]
    BY <1>0, <1>n, <1>12, <2>1 DEF Uart!DmaTransfer
  <2>4. uart_TCIF' \in [Uart!Ports -> BOOLEAN]
    BY <1>0, <1>12 DEF Uart!DmaTransfer
  <2> QED
    BY <1>0, <1>n, <1>12, <2>2, <2>3, <2>4 DEF Uart!DmaTransfer
<1>13. ASSUME NEW p \in Uart!Ports, Uart!Line(p) PROVE (Uart!TypeOK)'
  <2>1. \/ UNCHANGED <<uart_RDR, errors>>
        \/ \E b \in Bytes, flags \in SUBSET {"FE"} : Uart!Receive(p, b, flags)
    <3>1. CASE Uart!Arrive(p)
      <4>1. Head(wire[Uart!Peer(p)]) \in Bytes
        BY <1>0, <3>1, UartPorts DEF Uart!Arrive, Uart!Shift
      <4> QED
        BY <3>1, <4>1 DEF Uart!Arrive
    <3>2. CASE ~Uart!Arrive(p)
      BY <1>13, <3>2 DEF Uart!Line, Uart!ArriveFlipped, Uart!ArriveWithError, Uart!Lose,
                         Uart!Glitch
    <3> QED
      BY <3>1, <3>2
  <2>2. /\ uart_RDR' \in [Uart!Ports -> Bytes \cup {NoByte}]
        /\ errors' \in [Uart!Ports -> SUBSET {"FE", "ORE"}]
    <3>1. CASE UNCHANGED <<uart_RDR, errors>>
      <4>1. uart_RDR' = uart_RDR /\ errors' = errors
        BY <3>1
      <4> QED
        BY <1>r, <1>e, <4>1
    <3>2. ASSUME NEW b \in Bytes, NEW flags \in SUBSET {"FE"}, Uart!Receive(p, b, flags)
          PROVE  <2>2!:
      <4>1. uart_RDR' = uart_RDR \/ uart_RDR' = [uart_RDR EXCEPT ![p] = b]
        BY <3>2 DEF Uart!Receive
      <4>2. \E more \in SUBSET {"FE", "ORE"} : errors' = [errors EXCEPT ![p] = errors[p] \cup more]
        BY <3>2 DEF Uart!Receive
      <4>3. uart_RDR' \in [Uart!Ports -> Bytes \cup {NoByte}]
        BY <1>r, <3>2, <4>1
      <4>4. errors' \in [Uart!Ports -> SUBSET {"FE", "ORE"}]
        <5> PICK more \in SUBSET {"FE", "ORE"} : errors' = [errors EXCEPT ![p] = errors[p] \cup more]
          BY <4>2
        <5>1. (errors[p] \cup more) \in SUBSET {"FE", "ORE"}
          BY <1>e
        <5> QED
          BY <1>e, <5>1
      <4> QED
        BY <4>3, <4>4
    <3> QED
      BY <2>1, <3>1, <3>2
  <2>3. wire' \in [Uart!Ports -> Seq(Bytes)]
    <3>1. Uart!Peer(p) \in Uart!Ports
      BY UartPorts
    <3>2. \/ wire' = wire
          \/ /\ wire[Uart!Peer(p)] # << >>
             /\ wire' = [wire EXCEPT ![Uart!Peer(p)] = Tail(wire[Uart!Peer(p)])]
      BY <1>13 DEF Uart!Line, Uart!Arrive, Uart!ArriveFlipped, Uart!ArriveWithError, Uart!Lose,
                   Uart!Glitch, Uart!Shift
    <3>3. wire[Uart!Peer(p)] # << >> => Tail(wire[Uart!Peer(p)]) \in Seq(Bytes)
      BY <1>0, <3>1
    <3> QED
      BY <1>0, <3>1, <3>2, <3>3
  <2>4. UNCHANGED <<Uart!mainVars, Uart!txVars, Uart!rxVars, Uart!dmaVars>>
    BY <1>13 DEF Uart!Line, Uart!Arrive, Uart!ArriveFlipped, Uart!ArriveWithError, Uart!Lose,
                 Uart!Glitch, Uart!Shift
  <2> QED
    BY <1>0, <1>n, <2>2, <2>3, <2>4
<1> QED
  <2>1. CASE Uart!MainStep
    BY <1>3, <1>4, <1>5, <1>6, <1>7, <2>1, UartPorts
       DEF Uart!MainStep, Uart!UART_Test_Perform, Uart!Labels
  <2> QED
    BY <1>1, <1>2, <1>8, <1>9, <1>10, <1>11, <1>12, <1>13, <2>1
       DEF Uart!Next, Uart!IrqStep, Uart!Handlers, Uart!DmaStep, Uart!WireStep

LEMMA UartInit == Uart!Init => UartInv
<1> SUFFICES ASSUME Uart!Init PROVE UartInv
  OBVIOUS
<1> USE DEF Uart!Init, Uart!TestInit, Uart!Each
<1>1. Uart!TestTypeOK
  BY PeripheralAssumption DEF Uart!TestTypeOK
<1>2. \A p \in Uart!Ports :
        /\ uart_NDTR[p] = 0 /\ TxXferCount[p] = 0 /\ wire[p] = << >> /\ uart_RDR[p] = NoByte
        /\ errors[p] = {} /\ gState[p] = "READY" /\ rx[p] = << >> /\ UartOff(p)
  BY DEF UartOff, NoByte, Uart!NoByte
<1>3. Uart!TypeOK
  <2>1. uart_NDTR \in [Uart!Ports -> Nat] /\ TxXferCount \in [Uart!Ports -> Nat]
    OBVIOUS
  <2>2. rx \in [Uart!Ports -> Seq(Bytes)] /\ wire \in [Uart!Ports -> Seq(Bytes)]
    OBVIOUS
  <2>3. pc \in Uart!Labels
    BY DEF Uart!Labels
  <2> QED
    BY <1>1, <2>1, <2>2, <2>3 DEF Uart!TypeOK
<1>4. UartReceivers
  BY <1>2 DEF UartReceivers, UartArmed, Uart!huart4, Uart!huart5
<1>5. ~UartGlitched /\ faults = << >> /\ Len(faults) = 0
  BY DEF UartGlitched, Happened
<1>6. \A p \in Uart!Ports : UartSurplus(p) = 0
  <2>1. ASSUME NEW p \in Uart!Ports PROVE UartSurplus(p) = 0
    <3>1. Uart!Peer(p) \in Uart!Ports
      BY UartPorts
    <3> QED
      BY <1>2, <2>1, <3>1 DEF UartSurplus, UartComing, UartHeld, UartAsked
  <2> QED
    BY <2>1
<1>7. UartBalance
  BY <1>2, <1>5, <1>6 DEF UartBalance
<1>8. UartSenders
  BY <1>2, UartPorts DEF UartSenders
<1>9. UartProgress
  BY <1>2 DEF UartProgress
<1>10. UartTexts
  BY <1>5 DEF UartTexts
<1> QED
  BY <1>3, <1>4, <1>7, <1>8, <1>9, <1>10 DEF UartInv

(* What a step of the program or of a handler leaves as it is.             *)
LEMMA UartSameSurplus ==
  ASSUME NEW p \in Uart!Ports,
         UNCHANGED <<TxXferCount, wire, uart_RDR, uart_NDTR, msg>>, UartAsked(p)' <=> UartAsked(p)
  PROVE  UartSurplus(p)' = UartSurplus(p)
  BY DEF UartSurplus, UartComing, UartHeld

UartRest == UartReceivers /\ UartBalance /\ UartSenders /\ UartProgress /\ UartTexts

LEMMA UartFacts ==
  ASSUME UartInv
  PROVE  /\ \A p \in Uart!Ports :
              /\ uart_NDTR[p] \in Nat /\ TxXferCount[p] \in Nat /\ rx[p] \in Seq(Bytes)
              /\ wire[p] \in Seq(Bytes) /\ uart_RDR[p] \in Bytes \cup {NoByte}
              /\ errors[p] \subseteq {"FE", "ORE"} /\ UartSurplus(p) \in Int
              /\ UartComing(p) \in Nat
         /\ msg \in Seq(Bytes) /\ Len(msg) \in Nat
         /\ damaged \in 0..2 /\ Len(faults) \in Nat /\ since \in 0..Len(faults)
<1>1. /\ msg \in Seq(Bytes) /\ Len(msg) \in Nat
      /\ damaged \in 0..2 /\ Len(faults) \in Nat /\ since \in 0..Len(faults)
  BY DEF UartInv, Uart!TypeOK, Uart!TestTypeOK, UartProgress
<1>2. ASSUME NEW p \in Uart!Ports
      PROVE  /\ uart_NDTR[p] \in Nat /\ TxXferCount[p] \in Nat /\ rx[p] \in Seq(Bytes)
             /\ wire[p] \in Seq(Bytes) /\ uart_RDR[p] \in Bytes \cup {NoByte}
             /\ errors[p] \subseteq {"FE", "ORE"}
  <2>1. Uart!TypeOK /\ Uart!NoByte = NoByte
    BY DEF UartInv, NoByte, Uart!NoByte
  <2>2. uart_NDTR[p] \in Nat /\ TxXferCount[p] \in Nat /\ rx[p] \in Seq(Bytes)
    BY <2>1 DEF Uart!TypeOK
  <2>3. /\ wire[p] \in Seq(Bytes) /\ uart_RDR[p] \in Bytes \cup {NoByte}
        /\ errors[p] \subseteq {"FE", "ORE"}
    BY <2>1 DEF Uart!TypeOK
  <2> QED
    BY <2>2, <2>3
<1>3. ASSUME NEW p \in Uart!Ports PROVE UartComing(p) \in Nat /\ UartSurplus(p) \in Int
  <2>1. TxXferCount[Uart!Peer(p)] \in Nat /\ Len(wire[Uart!Peer(p)]) \in Nat /\ uart_NDTR[p] \in Nat
    BY <1>2, UartPorts
  <2> QED
    BY <1>1, <2>1, SMTT(40) DEF UartComing, UartHeld, UartSurplus
<1> QED
  BY <1>1, <1>2, <1>3

(* HAL_UART_Receive_DMA refuses only the empty message.                    *)
LEMMA UartReceiveDMA ==
  ASSUME UartInv,
         NEW p \in Uart!Ports, NEW here, NEW next,
         <<p, here, next>> \in {<<Uart!huart5, "start", "dmar5">>, <<Uart!huart4, "receive4", "dmar4">>},
         Uart!ReceiveDMA(p, here, next)
  PROVE  UartRest'
<1> USE DEF Uart!testVars, Uart!mainVars, Uart!txVars, Uart!rxVars, Uart!dmaVars, Uart!history,
            Uart!Ports, Uart!huart4, Uart!huart5
<1>0. UartReceivers /\ UartBalance /\ UartSenders /\ UartProgress /\ UartTexts /\ Uart!TypeOK
  BY DEF UartInv
<1>1. /\ pc = here
      /\ UNCHANGED <<msg, uart_rx_done, rx, DMAR, uart_TCIF, gState, TxXferCount, wire,
                     uart_RDR, errors, damaged, faults, since>>
  BY DEF Uart!ReceiveDMA
<1>2. ~UartArmed(Uart!huart4) /\ ~UartArmed(Uart!huart5)
  BY <1>1 DEF UartArmed, Uart!huart4, Uart!huart5
<1>3. UartOff(Uart!huart4) /\ UartOff(Uart!huart5)
  BY <1>0, <1>2 DEF UartReceivers
<1>4. /\ UartGlitched' <=> UartGlitched
      /\ UartLossy' <=> UartLossy
  BY <1>1 DEF UartGlitched, UartLossy, Happened
<1>5. CASE msg = << >>
  <2>1. /\ pc = "start" /\ pc' = "idle" /\ verdict' = "fail"
        /\ UNCHANGED <<RxState, uart_NDTR, EIE>>
    BY <1>0, <1>1, <1>5 DEF UartProgress, Uart!ReceiveDMA, Uart!CanReceive, Uart!Return
  <2>2. UartReceivers'
    BY <1>1, <1>3, <2>1 DEF UartReceivers, UartArmed, UartOff, Uart!huart4, Uart!huart5
  <2>3. \A q \in Uart!Ports : UartSurplus(q)' = UartSurplus(q)
    <3>1. \A q \in Uart!Ports : UartAsked(q)' <=> UartAsked(q)
      BY <2>1 DEF UartAsked
    <3> QED
      BY <1>1, <2>1, <3>1, UartSameSurplus
  <2>4. UartBalance'
    BY <1>0, <1>1, <1>2, <1>4, <2>3 DEF UartBalance, UartStuck
  <2>5. UartSenders'
    BY <1>0, <1>1, <2>1 DEF UartSenders, Uart!TransmitComplete
  <2>6. UartProgress'
    BY <1>0, <1>1, <2>1 DEF UartProgress
  <2>7. UartTexts'
    BY <1>0, <1>1, <1>5, <2>1 DEF UartTexts, OwnFault
  <2> QED
    BY <2>2, <2>4, <2>5, <2>6, <2>7 DEF UartRest
<1>6. CASE msg # << >>
  <2>1. /\ RxState' = [RxState EXCEPT ![p] = "BUSY"]
        /\ uart_NDTR' = [uart_NDTR EXCEPT ![p] = Len(msg)]
        /\ EIE' = [EIE EXCEPT ![p] = TRUE]
        /\ pc' = next /\ verdict' = verdict
    <3>1. Uart!CanReceive(p)
      BY <1>3, <1>6 DEF UartOff, Uart!CanReceive, Uart!DmaReady
    <3> QED
      BY <3>1 DEF Uart!ReceiveDMA
  <2>2. Len(msg) > 0 /\ rx[p] = << >> /\ ~uart_rx_done[p]
    BY <1>0, <1>1, <1>6 DEF UartProgress
  <2>3. UartReceivers'
    <3>1. UartReceiving(p)'
      BY <1>0, <1>1, <1>3, <2>1, <2>2 DEF UartReceiving, UartOn, UartOff, Uart!TypeOK
    <3>2. \A q \in Uart!Ports \ {p} : UartOff(q)' /\ ~UartArmed(q)'
      BY <1>0, <1>1, <1>3, <2>1 DEF UartArmed, UartOff, Uart!huart4, Uart!huart5, Uart!TypeOK
    <3>3. UartArmed(p)'
      BY <2>1 DEF UartArmed, Uart!huart4, Uart!huart5
    <3> QED
      BY <3>1, <3>2, <3>3 DEF UartReceivers
  <2>4. \A q \in Uart!Ports : UartSurplus(q)' = UartSurplus(q)
    <3>1. \A q \in Uart!Ports \ {p} : UartAsked(q)' <=> UartAsked(q)
      BY <1>1, <2>1 DEF UartAsked, Uart!huart4, Uart!huart5
    <3>2. \A q \in Uart!Ports \ {p} : UartSurplus(q)' = UartSurplus(q)
      BY <1>0, <1>1, <2>1, <3>1 DEF UartSurplus, UartComing, UartHeld, Uart!TypeOK
    <3>3. ~UartAsked(p) /\ UartAsked(p)' /\ uart_NDTR[p] = 0 /\ uart_NDTR'[p] = Len(msg)
      BY <1>0, <1>1, <1>3, <2>1 DEF UartAsked, UartOff, Uart!huart4, Uart!huart5, Uart!TypeOK
    <3>4. UartComing(p)' = UartComing(p)
      BY <1>1 DEF UartComing, UartHeld
    <3>5. UartSurplus(p)' = UartSurplus(p)
      BY <1>1, <3>3, <3>4 DEF UartSurplus
    <3> QED
      BY <3>2, <3>5
  <2>5. UartBalance'
    BY <1>0, <1>1, <1>2, <1>4, <2>4 DEF UartBalance, UartStuck
  <2>6. UartSenders'
    BY <1>0, <1>1, <1>4, <2>1 DEF UartSenders, Uart!TransmitComplete
  <2>7. UartProgress'
    BY <1>0, <1>1, <1>6, <2>1 DEF UartProgress
  <2>8. UartTexts'
    <3>1. UartTold(Uart!huart5)' <=> UartTold(Uart!huart5)
      BY <1>1 DEF UartTold, UartSame, UartByte, UartGot, UartHeld, Uart!Source, Uart!huart4, Uart!huart5
    <3> QED
      BY <1>0, <1>1, <1>2, <1>4, <1>6, <2>1, <3>1 DEF UartTexts, UartStuck, OwnFault
  <2> QED
    BY <2>3, <2>5, <2>6, <2>7, <2>8 DEF UartRest
<1> QED
  BY <1>5, <1>6

LEMMA UartEnableDMAR ==
  ASSUME UartInv,
         NEW p \in Uart!Ports, NEW here, NEW next,
         <<p, here, next>> \in {<<Uart!huart5, "dmar5", "transmit4">>, <<Uart!huart4, "dmar4", "transmit5">>},
         Uart!EnableDMAR(p, here, next)
  PROVE  UartRest'
<1> USE DEF Uart!testVars, Uart!mainVars, Uart!txVars, Uart!rxVars, Uart!dmaVars, Uart!history,
            Uart!Ports, Uart!huart4, Uart!huart5
<1>0. UartReceivers /\ UartBalance /\ UartSenders /\ UartProgress /\ UartTexts /\ Uart!TypeOK
  BY DEF UartInv
<1>1. /\ pc = here /\ pc' = next
      /\ DMAR' = [DMAR EXCEPT ![p] = TRUE]
      /\ UNCHANGED <<msg, verdict, uart_rx_done, rx, RxState, EIE, uart_NDTR, uart_TCIF, gState,
                     TxXferCount, wire, uart_RDR, errors, damaged, faults, since>>
  BY DEF Uart!EnableDMAR
<1>2. /\ UartGlitched' <=> UartGlitched
      /\ UartLossy' <=> UartLossy
  BY <1>1 DEF UartGlitched, UartLossy, Happened
<1>3. \A q \in Uart!Ports :
        /\ UartArmed(q) <=> q = p
        /\ UartArmed(q)' <=> q = p
        /\ UartAsked(q)' <=> UartAsked(q)
  BY <1>1 DEF UartArmed, UartAsked, Uart!huart4, Uart!huart5
<1>4. UartReceiving(p) /\ \A q \in Uart!Ports \ {p} : UartOff(q)
  BY <1>0, <1>1, <1>3 DEF UartReceivers
<1>5. UartReceiving(p)'
  BY <1>0, <1>1, <1>4 DEF UartReceiving, UartOn, Uart!TypeOK
<1>6. UartReceivers'
  <2>1. \A q \in Uart!Ports \ {p} : UartOff(q)'
    BY <1>0, <1>1, <1>4 DEF UartOff, Uart!TypeOK
  <2> QED
    BY <1>1, <1>3, <1>5, <2>1 DEF UartReceivers
<1>7. \A q \in Uart!Ports : UartSurplus(q)' = UartSurplus(q)
  BY <1>1, <1>3, UartSameSurplus
<1>8. UartBalance'
  <2>1. UartStuck(p) => UartStuck(p)'
    BY <1>2, <1>3, <1>4, <1>5, <1>7 DEF UartStuck, UartReceiving, UartAborted, UartOff, UartOn
  <2>2. \A q \in Uart!Ports : "ORE" \notin errors[q]
    BY <1>0, <1>3, <1>4 DEF UartBalance, UartReceiving, UartAborted, UartOff, UartOn
  <2> QED
    BY <1>0, <1>1, <1>2, <1>3, <1>7, <2>1, <2>2 DEF UartBalance, UartStuck
<1>9. UartSenders'
  BY <1>0, <1>1, <1>2 DEF UartSenders, Uart!TransmitComplete
<1>10. UartProgress'
  BY <1>0, <1>1 DEF UartProgress
<1>11. UartTexts'
  <2>1. UartTold(Uart!huart5)' <=> UartTold(Uart!huart5)
    BY <1>1 DEF UartTold, UartSame, UartByte, UartGot, UartHeld, Uart!Source, Uart!huart4, Uart!huart5
  <2>2. pc = "dmar4" => ~UartStuck(Uart!huart5)
    BY <1>1, <1>3 DEF UartStuck, Uart!huart4, Uart!huart5
  <2> QED
    BY <1>0, <1>1, <1>2, <2>1, <2>2 DEF UartTexts, OwnFault
<1> QED
  BY <1>6, <1>8, <1>9, <1>10, <1>11 DEF UartRest

(* HAL_UART_Transmit_IT never refuses.                                     *)
LEMMA UartTransmitIT ==
  ASSUME UartInv,
         NEW p \in Uart!Ports, NEW here, NEW next,
         <<p, here, next>> \in {<<Uart!huart4, "transmit4", "wait5">>, <<Uart!huart5, "transmit5", "wait4">>},
         Uart!TransmitIT(p, here, next)
  PROVE  UartRest'
<1> DEFINE r == Uart!Peer(p)
<1> USE DEF Uart!testVars, Uart!mainVars, Uart!txVars, Uart!rxVars, Uart!dmaVars, Uart!history,
            Uart!Ports, Uart!huart4, Uart!huart5
<1>0. UartReceivers /\ UartBalance /\ UartSenders /\ UartProgress /\ UartTexts /\ Uart!TypeOK
  BY DEF UartInv
<1>1. pc = here /\ msg # << >> /\ Len(msg) > 0 /\ gState[p] = "READY" /\ TxXferCount[p] = 0 /\ wire[p] = << >>
  <2>1. pc = here
    BY DEF Uart!TransmitIT
  <2>2. msg # << >> /\ gState[p] = "READY"
    BY <1>0, <2>1 DEF UartProgress, UartSenders
  <2> QED
    BY <1>0, <2>1, <2>2 DEF UartSenders
<1>2. /\ pc' = next
      /\ gState' = [gState EXCEPT ![p] = "BUSY"]
      /\ TxXferCount' = [TxXferCount EXCEPT ![p] = Len(msg)]
      /\ UNCHANGED <<msg, verdict, uart_rx_done, rx, RxState, EIE, DMAR, uart_NDTR, uart_TCIF,
                     wire, uart_RDR, errors, damaged, faults, since>>
  BY <1>1 DEF Uart!TransmitIT, Uart!CanTransmit
<1>3. /\ UartGlitched' <=> UartGlitched
      /\ UartLossy' <=> UartLossy
  BY <1>2 DEF UartGlitched, UartLossy, Happened
<1>4. r \in Uart!Ports /\ r # p /\ Uart!Peer(r) = p /\ \A q \in Uart!Ports \ {r} : q = p
  BY DEF Uart!Peer
<1> HIDE DEF r
<1>5. \A q \in Uart!Ports :
        /\ UartArmed(q) <=> q = r
        /\ UartArmed(q)' <=> q = r
        /\ UartAsked(q) <=> q = r
        /\ ~UartAsked(q)'
  BY <1>1, <1>2, <1>4 DEF UartArmed, UartAsked, Uart!huart4, Uart!huart5, r
<1>6. \A q \in Uart!Ports :
        /\ UartOff(q)' <=> UartOff(q)
        /\ UartReceiving(q)' <=> UartReceiving(q)
        /\ UartStored(q)' <=> UartStored(q)
        /\ UartReceived(q)' <=> UartReceived(q)
        /\ UartAborted(q)' <=> UartAborted(q)
  <2>1. pc \notin {"dmar4", "dmar5"} /\ pc' \notin {"dmar4", "dmar5"}
    BY <1>1, <1>2
  <2>2. \A q \in Uart!Ports : (UartOff(q)' <=> UartOff(q)) /\ (UartOn(q)' <=> UartOn(q))
    BY <1>2, <2>1 DEF UartOn, UartOff
  <2>3. /\ rx' = rx /\ uart_NDTR' = uart_NDTR /\ uart_TCIF' = uart_TCIF /\ DMAR' = DMAR
        /\ uart_rx_done' = uart_rx_done /\ msg' = msg
    BY <1>2
  <2> TAKE q \in Uart!Ports
  <2>4. UartReceiving(q)' <=> UartReceiving(q)
    BY <2>2, <2>3 DEF UartReceiving
  <2>5. UartStored(q)' <=> UartStored(q)
    BY <2>2, <2>3 DEF UartStored
  <2>6. (UartReceived(q)' <=> UartReceived(q)) /\ (UartAborted(q)' <=> UartAborted(q))
    BY <2>2, <2>3 DEF UartReceived, UartAborted
  <2> QED
    BY <2>2, <2>4, <2>5, <2>6
<1>7. UartReceivers'
  <2>1. pc \notin {"dmar4", "dmar5"} /\ pc' \notin {"dmar4", "dmar5"}
    BY <1>1, <1>2
  <2>2. ASSUME NEW q \in Uart!Ports, q # r PROVE UartOff(q)' /\ ~UartArmed(q)'
    BY <1>0, <1>5, <1>6, <2>2 DEF UartReceivers
  <2>3. /\ UartReceiving(r)' \/ UartStored(r)' \/ UartReceived(r)' \/ (UartAborted(r)' /\ UartLossy')
        /\ UartArmed(r)'
    <3>1. UartReceiving(r) \/ UartStored(r) \/ UartReceived(r) \/ (UartAborted(r) /\ UartLossy)
      BY <1>0, <1>4, <1>5 DEF UartReceivers
    <3>2. /\ UartReceiving(r)' <=> UartReceiving(r)
          /\ UartStored(r)' <=> UartStored(r)
          /\ UartReceived(r)' <=> UartReceived(r)
          /\ UartAborted(r)' <=> UartAborted(r)
      BY <1>4, <1>6
    <3> QED
      BY <1>3, <1>4, <1>5, <3>1, <3>2
  <2> QED
    BY <1>4, <2>1, <2>2, <2>3 DEF UartReceivers
<1>8. \A q \in Uart!Ports : UartSurplus(q)' = UartSurplus(q)
  <2>1. TxXferCount'[p] = Len(msg) /\ TxXferCount'[r] = TxXferCount[r]
    BY <1>0, <1>2, <1>4 DEF Uart!TypeOK
  <2>2. UartComing(r)' = UartComing(r) + Len(msg)
    BY <1>1, <1>2, <1>4, <2>1 DEF UartComing, UartHeld
  <2>3. UartSurplus(r)' = UartSurplus(r)
    <3>1. UartComing(r) \in Nat /\ Len(msg) \in Nat /\ uart_NDTR[r] \in Nat /\ uart_NDTR' = uart_NDTR
      BY <1>2, <1>4, UartFacts
    <3>2. UartAsked(r) /\ ~UartAsked(r)' /\ msg' = msg
      BY <1>2, <1>4, <1>5
    <3> QED
      BY <2>2, <3>1, <3>2 DEF UartSurplus
  <2>4. Uart!Peer(p) = r
    BY DEF r
  <2>5. UartSurplus(p)' = UartSurplus(p)
    BY <1>2, <1>4, <1>5, <2>1, <2>4 DEF UartSurplus, UartComing, UartHeld
  <2> QED
    BY <1>4, <2>3, <2>5
<1>9. UartBalance'
  <2>1. ASSUME NEW q \in Uart!Ports PROVE UartStuck(q)' <=> UartStuck(q)
    <3>1. (UartReceiving(q)' <=> UartReceiving(q)) /\ (UartAborted(q)' <=> UartAborted(q))
      BY <1>6
    <3>2. (UartArmed(q)' <=> UartArmed(q)) /\ UartSurplus(q)' = UartSurplus(q)
      BY <1>5, <1>8
    <3> QED
      BY <1>3, <3>1, <3>2 DEF UartStuck
  <2> QED
    BY <1>0, <1>2, <1>3, <1>5, <1>6, <1>8, <2>1 DEF UartBalance
<1>10. UartSenders'
  <2>1. gState'[p] = "BUSY" /\ gState'[r] = gState[r] /\ TxXferCount'[r] = TxXferCount[r]
    BY <1>0, <1>2, <1>4 DEF Uart!TypeOK
  <2>2. CASE p = Uart!huart4
    BY <1>0, <1>1, <1>2, <1>3, <1>4, <2>1, <2>2 DEF UartSenders, Uart!TransmitComplete
  <2>3. CASE p = Uart!huart5
    BY <1>0, <1>1, <1>2, <1>3, <1>4, <2>1, <2>3 DEF UartSenders, Uart!TransmitComplete
  <2> QED
    BY <2>2, <2>3
<1>11. UartProgress'
  BY <1>0, <1>1, <1>2 DEF UartProgress
<1>12. UartTexts'
  <2>1. UartSurplus(r) = 0 => uart_RDR[r] = NoByte /\ wire[p] = << >> /\ rx[r] = << >>
    <3>1. /\ UartComing(r) \in Nat /\ Len(msg) \in Nat /\ uart_NDTR[r] \in Nat
          /\ Len(rx[r]) \in Nat /\ rx[r] \in Seq(Bytes)
      <4>1. UartComing(r) \in Nat /\ Len(msg) \in Nat /\ uart_NDTR[r] \in Nat /\ rx[r] \in Seq(Bytes)
        BY <1>4, UartFacts
      <4> QED
        BY <4>1
    <3>2. UartOff(r) \/ UartStored(r) \/ UartReceiving(r)
      BY <1>0, <1>4, <1>5 DEF UartReceivers, UartReceived, UartAborted
    <3>3. uart_NDTR[r] = 0 \/ Len(rx[r]) + uart_NDTR[r] = Len(msg)
      BY <3>2 DEF UartOff, UartStored, UartReceiving
    <3>4. UartSurplus(r) = UartComing(r) + Len(msg) - uart_NDTR[r]
      BY <1>4, <1>5 DEF UartSurplus
    <3>5. ASSUME UartSurplus(r) = 0 PROVE UartComing(r) = 0 /\ Len(rx[r]) = 0
      BY <1>1, <3>1, <3>3, <3>4, <3>5
    <3>6. UartComing(r) = 0 => uart_RDR[r] = NoByte
      BY <1>1, <1>4 DEF UartComing, UartHeld
    <3> QED
      BY <1>1, <3>1, <3>5, <3>6
  <2>2. ~UartGlitched /\ ~UartStuck(r)' => UartSurplus(r) = 0
    BY <1>0, <1>3, <1>4, <1>8, <1>9 DEF UartBalance
  <2>3. CASE p = Uart!huart4
    <3>1. r = Uart!huart5 /\ pc' = "wait5" /\ damaged' = 0 /\ Uart!Peer(r) = p
      BY <1>0, <1>1, <1>2, <1>4, <2>3 DEF UartTexts
    <3>2. ASSUME UartSurplus(r) = 0 PROVE UartSame(r)'
      <4>1. rx'[r] = << >> /\ uart_RDR'[r] = NoByte /\ wire'[p] = << >> /\ msg' = msg
        BY <1>2, <2>1, <3>2
      <4>2. ASSUME NEW k \in 1..Len(msg) PROVE UartByte(r, k)' = msg[k]
        BY <2>3, <3>1, <4>1 DEF UartByte, UartGot, UartHeld, Uart!Source
      <4> QED
        BY <4>1, <4>2 DEF UartSame
    <3>3. UartTold(r)' \/ UartGlitched \/ UartStuck(r)'
      BY <2>2, <3>1, <3>2 DEF UartTold
    <3> QED
      BY <1>0, <1>1, <1>2, <1>3, <3>1, <3>3 DEF UartTexts
  <2>4. CASE p = Uart!huart5
    <3>1. r = Uart!huart4 /\ pc = "transmit5" /\ pc' = "wait4" /\ Uart!Peer(r) = p
      BY <1>1, <1>2, <1>4, <2>4
    <3>2. UartGlitched \/ UartTold(p)
      BY <1>0, <1>4, <1>5, <2>4, <3>1 DEF UartTexts, UartStuck
    <3>3. Len(rx[p]) = Len(msg) /\ msg' = msg /\ damaged' = damaged
      BY <1>0, <1>2, <2>4, <3>1 DEF UartProgress
    <3>4. ASSUME UartSurplus(r) = 0 PROVE UartSame(r)' <=> UartSame(p)
      <4>1. rx'[r] = << >> /\ uart_RDR'[r] = NoByte /\ wire'[p] = << >> /\ rx'[p] = rx[p]
        BY <1>2, <2>1, <3>4
      <4>2. ASSUME NEW k \in 1..Len(msg) PROVE UartByte(r, k)' = rx[p][k]
        BY <2>4, <3>1, <4>1 DEF UartByte, UartGot, UartHeld, Uart!Source
      <4>3. ASSUME NEW k \in 1..Len(msg) PROVE UartByte(p, k) = rx[p][k]
        BY <3>3 DEF UartByte, UartGot, UartHeld
      <4> QED
        BY <3>3, <4>2, <4>3 DEF UartSame
    <3>5. UartTold(r)' \/ UartGlitched \/ UartStuck(r)'
      BY <2>2, <3>2, <3>3, <3>4 DEF UartTold
    <3> QED
      BY <1>0, <1>1, <1>2, <1>3, <3>1, <3>5 DEF UartTexts, OwnFault
  <2> QED
    BY <2>3, <2>4
<1> QED
  BY <1>7, <1>9, <1>10, <1>11, <1>12 DEF UartRest

(* When the test is told that everything has been received, it has been,   *)
(* and nothing more is to come but for a glitch.                           *)
LEMMA UartWaitRxDone ==
  ASSUME UartInv,
         NEW p \in Uart!Ports, NEW here, NEW next,
         <<p, here, next>> \in {<<Uart!huart5, "wait5", "receive4">>, <<Uart!huart4, "wait4", "crc">>},
         Uart!WaitRxDone(p, here, next)
  PROVE  UartRest'
<1> USE DEF Uart!testVars, Uart!mainVars, Uart!txVars, Uart!rxVars, Uart!dmaVars, Uart!history,
            Uart!Ports, Uart!huart4, Uart!huart5
<1>0. UartReceivers /\ UartBalance /\ UartSenders /\ UartProgress /\ UartTexts /\ Uart!TypeOK
  BY DEF UartInv
<1>1. /\ pc = here /\ pc' = next /\ uart_rx_done[p]
      /\ UNCHANGED <<msg, verdict, uart_rx_done, rx, RxState, EIE, DMAR, uart_NDTR, uart_TCIF,
                     gState, TxXferCount, wire, uart_RDR, errors, damaged, faults, since>>
  BY DEF Uart!WaitRxDone, Uart!RxDone
<1>2. /\ UartGlitched' <=> UartGlitched
      /\ UartLossy' <=> UartLossy
  BY <1>1 DEF UartGlitched, UartLossy, Happened
<1>3. \A q \in Uart!Ports :
        /\ UartArmed(q) <=> q = p
        /\ ~UartArmed(q)' /\ ~UartAsked(q) /\ ~UartAsked(q)'
  BY <1>1 DEF UartArmed, UartAsked
<1>4. msg # << >> /\ Len(msg) \in Nat /\ Len(msg) > 0
  BY <1>0, <1>1 DEF UartProgress
<1>5. UartReceived(p) /\ \A q \in Uart!Ports : UartOff(q)
  BY <1>0, <1>1, <1>3 DEF UartReceivers, UartReceiving, UartStored, UartReceived, UartAborted
<1>6. \A q \in Uart!Ports : UartOff(q)' <=> UartOff(q)
  BY <1>1 DEF UartOff
<1>7. UartReceivers'
  BY <1>3, <1>5, <1>6 DEF UartReceivers
<1>8. \A q \in Uart!Ports : UartSurplus(q)' = UartSurplus(q)
  BY <1>1, <1>3, UartSameSurplus
<1>9. \A q \in Uart!Ports : ~UartStuck(q)
  BY <1>1, <1>3, <1>5 DEF UartStuck, UartAborted, UartReceiving, UartOn, UartOff
<1>10. UartBalance'
  <2>1. \A q \in Uart!Ports : "ORE" \notin errors[q]
    BY <1>0, <1>1, <1>3 DEF UartBalance, UartAborted
  <2> QED
    BY <1>0, <1>1, <1>2, <1>8, <1>9, <2>1 DEF UartBalance
<1>11. rx[p] # << >>
  BY <1>4, <1>5 DEF UartReceived
<1>12. \A q \in Uart!Ports : UartComing(q) = UartSurplus(q)
  <2>1. ASSUME NEW q \in Uart!Ports PROVE UartComing(q) = UartSurplus(q)
    <3>1. UartComing(q) \in Nat /\ uart_NDTR[q] = 0 /\ ~UartAsked(q)
      BY <1>3, <1>5, UartFacts DEF UartOff
    <3> QED
      BY <3>1 DEF UartSurplus
  <2> QED
    BY <2>1
<1>13. UartSenders'
  <2>1. CASE p = Uart!huart5
    <3>1. gState[Uart!huart5] = "READY"
      BY <1>0, <1>1, <1>11, <2>1 DEF UartSenders, Uart!TypeOK
    <3>2. UartComing(Uart!huart5) = 0 => TxXferCount[Uart!huart4] = 0 /\ wire[Uart!huart4] = << >>
      <4>1. TxXferCount[Uart!huart4] \in Nat /\ wire[Uart!huart4] \in Seq(Bytes)
        BY UartFacts
      <4> QED
        BY <4>1 DEF UartComing, UartHeld, Uart!Peer
    <3>3. UartComing(Uart!huart4) = 0 => uart_RDR[Uart!huart4] = NoByte
      <4>1. TxXferCount[Uart!huart5] \in Nat /\ wire[Uart!huart5] \in Seq(Bytes)
        BY UartFacts
      <4> QED
        BY <4>1 DEF UartComing, UartHeld, Uart!Peer
    <3>4. \/ UartComing(Uart!huart5) = 0
          \/ UartGlitched /\ UartComing(Uart!huart4) = 0
      <4>1. /\ UartComing(Uart!huart4) \in Nat /\ UartComing(Uart!huart5) \in Nat
        BY UartFacts
      <4> QED
        BY <1>0, <1>9, <1>12, <4>1 DEF UartBalance
    <3>5. rx[Uart!huart4] = << >>
      BY <1>0, <1>1, <2>1 DEF UartProgress
    <3> QED
      BY <1>0, <1>1, <1>2, <2>1, <3>1, <3>2, <3>3, <3>4, <3>5 DEF UartSenders, Uart!TransmitComplete
  <2>2. CASE p = Uart!huart4
    BY <1>0, <1>1, <1>2, <2>2 DEF UartSenders, Uart!TransmitComplete
  <2> QED
    BY <2>1, <2>2
<1>14. UartProgress'
  BY <1>0, <1>1, <1>5 DEF UartProgress, UartReceived
<1>15. UartTexts'
  <2>1. UartTold(p)' <=> UartTold(p)
    <3>1. \A k \in 1..Len(msg) : UartByte(p, k)' = UartByte(p, k)
      BY <1>1 DEF UartByte, UartGot, UartHeld, Uart!Source
    <3> QED
      BY <1>1, <3>1 DEF UartTold, UartSame
  <2> QED
    BY <1>0, <1>1, <1>2, <1>9, <2>1 DEF UartTexts, OwnFault
<1> QED
  BY <1>7, <1>10, <1>13, <1>14, <1>15 DEF UartRest

LEMMA UartMatchCRC == UartInv /\ Uart!MatchCRC => UartRest'
<1> SUFFICES ASSUME UartInv, Uart!MatchCRC PROVE UartRest'
  OBVIOUS
<1> USE DEF Uart!testVars, Uart!mainVars, Uart!txVars, Uart!rxVars, Uart!dmaVars, Uart!history,
            Uart!Ports, Uart!huart4, Uart!huart5
<1>0. UartReceivers /\ UartBalance /\ UartSenders /\ UartProgress /\ UartTexts /\ Uart!TypeOK
  BY DEF UartInv
<1>1. /\ pc = "crc" /\ pc' = "idle" /\ verdict' \in Uart!CrcVerdicts(rx[Uart!huart4])
      /\ UNCHANGED <<msg, uart_rx_done, rx, RxState, EIE, DMAR, uart_NDTR, uart_TCIF,
                     gState, TxXferCount, wire, uart_RDR, errors, damaged, faults, since>>
  BY DEF Uart!MatchCRC, Uart!Return
<1>2. /\ UartGlitched' <=> UartGlitched
      /\ UartLossy' <=> UartLossy
  BY <1>1 DEF UartGlitched, UartLossy, Happened
<1>3. \A q \in Uart!Ports : ~UartArmed(q) /\ ~UartArmed(q)' /\ ~UartAsked(q) /\ ~UartAsked(q)'
  BY <1>1 DEF UartArmed, UartAsked
<1>4. \A q \in Uart!Ports : UartOff(q)' <=> UartOff(q)
  BY <1>1 DEF UartOff
<1>5. UartReceivers'
  BY <1>0, <1>3, <1>4 DEF UartReceivers
<1>6. \A q \in Uart!Ports : UartSurplus(q)' = UartSurplus(q)
  BY <1>1, <1>3, UartSameSurplus
<1>7. UartBalance'
  BY <1>0, <1>1, <1>2, <1>3, <1>6 DEF UartBalance, UartStuck
<1>8. /\ msg \in Seq(Bytes) /\ msg # << >> /\ rx[Uart!huart4] \in Seq(Bytes)
      /\ Len(rx[Uart!huart4]) = Len(msg) /\ rx[Uart!huart4] # << >>
  <2>1. rx[Uart!huart4] \in Seq(Bytes)
    BY UartFacts
  <2> QED
    BY <1>0, <1>1, <2>1 DEF UartProgress
<1>9. UartSenders'
  BY <1>0, <1>1, <1>2, <1>8 DEF UartSenders, Uart!TransmitComplete
<1>10. UartProgress'
  BY <1>0, <1>1 DEF UartProgress
<1>11. UartTexts'
  <2>1. verdict' = IF rx[Uart!huart4] = msg THEN "pass" ELSE "fail"
    BY <1>1, <1>8 DEF Uart!CrcVerdicts
  <2>2. UartSame(Uart!huart4) <=> rx[Uart!huart4] = msg
    <3>1. \A k \in 1..Len(msg) : UartByte(Uart!huart4, k) = rx[Uart!huart4][k]
      BY <1>8 DEF UartByte, UartGot, UartHeld
    <3> QED
      BY <1>8, <3>1 DEF UartSame
  <2>3. UartGlitched \/ UartTold(Uart!huart4)
    BY <1>0, <1>1, <1>3 DEF UartTexts, UartStuck
  <2>4. UartGlitched => damaged = 0
    BY <1>0 DEF UartBalance
  <2>5. damaged \in 0..2
    BY UartFacts
  <2> QED
    BY <1>0, <1>1, <1>2, <2>1, <2>2, <2>3, <2>4, <2>5 DEF UartTexts, UartTold, OwnFault
<1> QED
  BY <1>5, <1>7, <1>9, <1>10, <1>11 DEF UartRest

LEMMA UartBegin == UartInv /\ Uart!Begin => UartRest'
<1> SUFFICES ASSUME UartInv, Uart!Begin PROVE UartRest'
  OBVIOUS
<1> USE DEF Uart!testVars, Uart!mainVars, Uart!txVars, Uart!rxVars, Uart!dmaVars, Uart!history,
            Uart!Ports, Uart!huart4, Uart!huart5
<1>0. UartReceivers /\ UartBalance /\ UartSenders /\ UartProgress /\ UartTexts /\ Uart!TypeOK
  BY DEF UartInv
<1>1. /\ pc = "idle" /\ pc' = "start" /\ msg' \in Messages /\ verdict' = "none" /\ damaged' = 0
      /\ since' = Len(faults) /\ \A q \in Uart!Ports : ~Uart!TransmitComplete(q)
      /\ UNCHANGED <<faults, RxState, EIE, DMAR, uart_NDTR, uart_TCIF, gState, TxXferCount, wire,
                     uart_RDR, errors>>
  BY DEF Uart!Begin, Uart!BeginTest
<1>2. \A q \in Uart!Ports : rx'[q] = << >> /\ ~uart_rx_done'[q]
  BY DEF Uart!Begin, Uart!ClearFlags, Uart!Each
<1>3. /\ UartGlitched' <=> UartGlitched
      /\ UartLossy' <=> UartLossy
  BY <1>1 DEF UartGlitched, UartLossy, Happened
<1>4. \A q \in Uart!Ports : ~UartArmed(q) /\ ~UartArmed(q)' /\ ~UartAsked(q) /\ ~UartAsked(q)'
  BY <1>1 DEF UartArmed, UartAsked
<1>5. \A q \in Uart!Ports : UartOff(q) /\ UartOff(q)'
  BY <1>0, <1>1, <1>4 DEF UartReceivers, UartOff
<1>6. UartReceivers'
  BY <1>4, <1>5 DEF UartReceivers
<1>7. \A q \in Uart!Ports : UartSurplus(q)' = UartSurplus(q) /\ UartComing(q) = UartSurplus(q)
  <2>1. ASSUME NEW q \in Uart!Ports
        PROVE  UartSurplus(q)' = UartSurplus(q) /\ UartComing(q) = UartSurplus(q)
    <3>1. UartComing(q) \in Nat /\ uart_NDTR[q] = 0 /\ ~UartAsked(q) /\ ~UartAsked(q)'
      BY <1>4, <1>5, UartFacts DEF UartOff
    <3>2. UartComing(q)' = UartComing(q) /\ uart_NDTR' = uart_NDTR
      BY <1>1 DEF UartComing, UartHeld
    <3> QED
      BY <3>1, <3>2 DEF UartSurplus
  <2> QED
    BY <2>1
<1>8. UartBalance'
  BY <1>0, <1>1, <1>3, <1>4, <1>7 DEF UartBalance, UartStuck
<1>9. UartSenders'
  <2>1. gState[Uart!huart4] = "READY"
    BY <1>0, <1>1 DEF UartSenders, Uart!TypeOK
  <2>2. ASSUME gState[Uart!huart5] = "BUSY"
        PROVE  UartGlitched /\ uart_RDR[Uart!huart5] = NoByte
    <3>1. /\ TxXferCount[Uart!huart5] \in Nat /\ wire[Uart!huart5] \in Seq(Bytes)
          /\ TxXferCount[Uart!huart4] \in Nat /\ wire[Uart!huart4] \in Seq(Bytes)
      BY UartFacts
    <3>2. TxXferCount[Uart!huart5] # 0 \/ wire[Uart!huart5] # << >>
      BY <1>1, <2>2 DEF Uart!TransmitComplete
    <3>3. UartComing(Uart!huart4) > 0
      BY <3>1, <3>2 DEF UartComing, UartHeld, Uart!Peer
    <3>4. UartGlitched /\ UartComing(Uart!huart5) = 0
      <4>1. UartComing(Uart!huart4) \in Nat /\ UartComing(Uart!huart5) \in Nat
        BY UartFacts
      <4>2. UartGlitched
        BY <1>0, <1>4, <1>7, <3>3, <4>1 DEF UartBalance, UartStuck
      <4> QED
        BY <1>0, <1>7, <3>3, <4>1, <4>2 DEF UartBalance
    <3> QED
      BY <3>1, <3>4 DEF UartComing, UartHeld, Uart!Peer
  <2> QED
    BY <1>0, <1>1, <1>2, <1>3, <2>1, <2>2 DEF UartSenders
<1>10. UartProgress'
  BY <1>1, <1>2, PeripheralAssumption DEF UartProgress
<1>11. UartTexts'
  BY <1>1, <1>3 DEF UartTexts
<1> QED
  BY <1>6, <1>8, <1>9, <1>10, <1>11 DEF UartRest

LEMMA UartStutter == UartInv /\ UNCHANGED Uart!vars => UartRest'
<1> SUFFICES ASSUME UartInv, UNCHANGED Uart!vars PROVE UartRest'
  OBVIOUS
<1> USE DEF Uart!testVars, Uart!mainVars, Uart!txVars, Uart!rxVars, Uart!dmaVars, Uart!history
<1>0. UartReceivers /\ UartBalance /\ UartSenders /\ UartProgress /\ UartTexts /\ Uart!TypeOK
  BY DEF UartInv
<1>1. UNCHANGED <<pc, verdict, msg, uart_rx_done, rx, RxState, EIE, DMAR, uart_NDTR, uart_TCIF,
                  gState, TxXferCount, wire, uart_RDR, errors, damaged, faults, since>>
  BY DEF Uart!vars
<1>2. UartReceivers'
  BY <1>0, <1>1 DEF UartReceivers, UartArmed, UartReceiving, UartStored, UartReceived,
                    UartAborted, UartOff, UartOn, UartLossy, Happened
<1>3. UartBalance'
  BY <1>0, <1>1 DEF UartBalance, UartStuck, UartSurplus, UartComing, UartHeld, UartAsked, UartArmed,
                    UartAborted, UartOff, UartReceiving, UartOn, UartLossy, UartGlitched, Happened
<1>4. UartSenders'
  BY <1>0, <1>1 DEF UartSenders, Uart!TransmitComplete, UartGlitched, Happened
<1>5. UartProgress'
  BY <1>0, <1>1 DEF UartProgress
<1>6. UartTexts'
  BY <1>0, <1>1, ZenonT(60) DEF UartTexts, UartTold, UartSame, UartByte, UartGot, UartHeld, Uart!Source,
                    UartStuck, UartSurplus,
                    UartComing, UartAsked, UartArmed, UartAborted, UartOff, UartReceiving,
                    UartOn, UartLossy, UartGlitched, Happened, OwnFault
<1> QED
  BY <1>2, <1>3, <1>4, <1>5, <1>6 DEF UartRest

LEMMA UartReceiveCplt ==
  ASSUME UartInv, NEW p \in Uart!Ports, Uart!ReceiveCplt(p)
  PROVE  UartRest'
<1> USE DEF Uart!testVars, Uart!mainVars, Uart!txVars, Uart!rxVars, Uart!dmaVars, Uart!history,
            Uart!Ports, Uart!huart4, Uart!huart5
<1>0. UartReceivers /\ UartBalance /\ UartSenders /\ UartProgress /\ UartTexts /\ Uart!TypeOK
  BY DEF UartInv
<1>1. /\ uart_TCIF[p] /\ uart_TCIF' = [uart_TCIF EXCEPT ![p] = FALSE]
      /\ EIE' = [EIE EXCEPT ![p] = FALSE] /\ DMAR' = [DMAR EXCEPT ![p] = FALSE]
      /\ RxState' = [RxState EXCEPT ![p] = "READY"]
      /\ uart_rx_done' = [uart_rx_done EXCEPT ![p] = TRUE]
      /\ UNCHANGED <<pc, msg, verdict, rx, uart_NDTR, gState, TxXferCount, wire, uart_RDR, errors,
                     damaged, faults, since>>
  BY DEF Uart!ReceiveCplt, Uart!RxReady, Uart!RxCpltCallback
<1>2. /\ UartGlitched' <=> UartGlitched
      /\ UartLossy' <=> UartLossy
  BY <1>1 DEF UartGlitched, UartLossy, Happened
<1>3. \A q \in Uart!Ports : (UartArmed(q)' <=> UartArmed(q)) /\ (UartAsked(q)' <=> UartAsked(q))
  BY <1>1 DEF UartArmed, UartAsked
<1>4. UartArmed(p) /\ UartStored(p) /\ pc \notin {"dmar4", "dmar5"}
  BY <1>0, <1>1 DEF UartReceivers, UartReceiving, UartReceived, UartAborted, UartOff
<1>5. \A q \in Uart!Ports \ {p} : UartOff(q) /\ UartOff(q)' /\ ~UartArmed(q)
  <2>1. \A q \in Uart!Ports \ {p} : UartOff(q) /\ ~UartArmed(q)
    BY <1>0, <1>4 DEF UartReceivers, UartArmed
  <2> QED
    BY <1>0, <1>1, <2>1 DEF UartOff, Uart!TypeOK
<1>6. UartReceived(p)'
  BY <1>0, <1>1, <1>4 DEF UartReceived, UartStored, UartOff, Uart!TypeOK
<1>7. UartReceivers'
  BY <1>1, <1>3, <1>4, <1>5, <1>6 DEF UartReceivers
<1>8. \A q \in Uart!Ports : UartSurplus(q)' = UartSurplus(q)
  BY <1>1, <1>3, UartSameSurplus
<1>9. \A q \in Uart!Ports : ~UartStuck(q)
  BY <1>4, <1>5 DEF UartStuck, UartStored, UartReceiving, UartAborted, UartOn, UartOff
<1>10. UartBalance'
  <2>1. \A q \in Uart!Ports : "ORE" \notin errors[q]
    BY <1>0, <1>4, <1>5 DEF UartBalance, UartStored, UartAborted, UartOn, UartOff
  <2> QED
    BY <1>0, <1>1, <1>2, <1>8, <1>9, <2>1 DEF UartBalance
<1>11. UartSenders'
  BY <1>0, <1>1, <1>2 DEF UartSenders, Uart!TransmitComplete
<1>12. UartProgress'
  <2>1. pc = "start" => ~uart_rx_done'[Uart!huart5]
    BY <1>4 DEF UartArmed
  <2>2. pc \in {"start", "dmar5", "transmit4", "wait5", "receive4"} => ~uart_rx_done'[Uart!huart4]
    BY <1>0, <1>1, <1>4 DEF UartArmed, UartProgress, Uart!TypeOK
  <2> QED
    BY <1>0, <1>1, <2>1, <2>2 DEF UartProgress
<1>13. UartTexts'
  <2>1. \A q \in Uart!Ports : UartTold(q)' <=> UartTold(q)
    BY <1>1 DEF UartTold, UartSame, UartByte, UartGot, UartHeld, Uart!Source
  <2> QED
    BY <1>0, <1>1, <1>2, <1>9, <2>1 DEF UartTexts, OwnFault
<1> QED
  BY <1>7, <1>10, <1>11, <1>12, <1>13 DEF UartRest

(* A reception that an error ends leaves the test waiting for ever.        *)
LEMMA UartReceiveError ==
  ASSUME UartInv, NEW p \in Uart!Ports, Uart!ReceiveError(p)
  PROVE  UartRest'
<1> USE DEF Uart!testVars, Uart!mainVars, Uart!txVars, Uart!rxVars, Uart!dmaVars, Uart!history,
            Uart!Ports, Uart!huart4, Uart!huart5
<1>0. UartReceivers /\ UartBalance /\ UartSenders /\ UartProgress /\ UartTexts /\ Uart!TypeOK
  BY DEF UartInv
<1>1. /\ EIE[p] /\ errors[p] # {} /\ errors' = [errors EXCEPT ![p] = {}]
      /\ UNCHANGED <<pc, msg, verdict, uart_rx_done, rx, gState, TxXferCount, wire, uart_RDR,
                     damaged, faults, since>>
  BY DEF Uart!ReceiveError, Uart!ErrorPending
<1>2. /\ UartGlitched' <=> UartGlitched
      /\ UartLossy' <=> UartLossy
  BY <1>1 DEF UartGlitched, UartLossy, Happened
<1>3. \A q \in Uart!Ports : (UartArmed(q)' <=> UartArmed(q)) /\ (UartAsked(q)' <=> UartAsked(q))
  BY <1>1 DEF UartArmed, UartAsked
<1>4. /\ UartArmed(p) /\ UartOn(p) /\ ~uart_rx_done[p] /\ UartLossy /\ ~UartGlitched
      /\ UartReceiving(p) \/ (UartStored(p) /\ pc \notin {"dmar4", "dmar5"})
  <2>1. /\ UartArmed(p)
        /\ UartReceiving(p) \/ (UartStored(p) /\ pc \notin {"dmar4", "dmar5"})
    BY <1>0, <1>1 DEF UartReceivers, UartReceived, UartAborted, UartOff
  <2>2. UartLossy /\ ~UartGlitched
    BY <1>0, <1>1 DEF UartBalance
  <2> QED
    BY <2>1, <2>2 DEF UartReceiving, UartStored
<1>5. \A q \in Uart!Ports \ {p} : UartOff(q) /\ ~UartArmed(q)
  BY <1>0, <1>4 DEF UartReceivers, UartArmed
<1>6. \A q \in Uart!Ports : errors'[q] \subseteq errors[q] /\ "ORE" \notin errors[q]
  <2>1. \A q \in Uart!Ports : "ORE" \notin errors[q]
    BY <1>0, <1>4, <1>5 DEF UartBalance, UartAborted, UartOn, UartOff
  <2> QED
    BY <1>0, <1>1, <2>1 DEF Uart!TypeOK
<1>7. UartSenders'
  BY <1>0, <1>1, <1>2 DEF UartSenders, Uart!TransmitComplete
<1>8. UartProgress'
  BY <1>0, <1>1 DEF UartProgress
<1>9. \A q \in Uart!Ports : UartTold(q)' <=> UartTold(q)
  BY <1>1 DEF UartTold, UartSame, UartByte, UartGot, UartHeld, Uart!Source
<1>10. CASE DMAR[p]
  <2>1. /\ RxState' = [RxState EXCEPT ![p] = "READY"]
        /\ EIE' = [EIE EXCEPT ![p] = FALSE] /\ DMAR' = [DMAR EXCEPT ![p] = FALSE]
        /\ uart_NDTR' = [uart_NDTR EXCEPT ![p] = 0]
        /\ uart_TCIF' = [uart_TCIF EXCEPT ![p] = FALSE]
    <3>1. /\ RxState' = [RxState EXCEPT ![p] = "READY"]
          /\ EIE' = [EIE EXCEPT ![p] = FALSE] /\ DMAR' = [DMAR EXCEPT ![p] = FALSE]
          /\ uart_NDTR' = [uart_NDTR EXCEPT ![p] = IF DMAR[p] THEN 0 ELSE uart_NDTR[p]]
      BY <1>10 DEF Uart!ReceiveError
    <3>2. uart_TCIF' = [uart_TCIF EXCEPT ![p] = uart_TCIF[p] /\ ~DMAR[p]]
      BY <1>10 DEF Uart!ReceiveError
    <3>3. (uart_TCIF[p] /\ ~DMAR[p]) = FALSE
      BY <1>10
    <3>4. uart_TCIF' = [uart_TCIF EXCEPT ![p] = FALSE]
      BY <3>2, <3>3
    <3> QED
      BY <1>10, <3>1, <3>4
  <2>2. pc \notin {"dmar4", "dmar5"}
    BY <1>4, <1>10 DEF UartOn
  <2>3. UartAborted(p)'
    BY <1>0, <1>1, <1>4, <2>1 DEF UartAborted, UartOff, Uart!TypeOK
  <2>4. \A q \in Uart!Ports \ {p} : UartOff(q)'
    BY <1>0, <1>5, <2>1 DEF UartOff, Uart!TypeOK
  <2>5. UartReceivers'
    BY <1>1, <1>2, <1>3, <1>4, <1>5, <2>2, <2>3, <2>4 DEF UartReceivers
  <2>6. UartStuck(p)' /\ \A q \in Uart!Ports \ {p} : ~UartStuck(q)
    BY <1>2, <1>3, <1>4, <1>5, <2>3 DEF UartStuck
  <2>7. \A q \in Uart!Ports \ {p} : UartSurplus(q)' = UartSurplus(q)
    BY <1>0, <1>1, <1>3, <2>1 DEF UartSurplus, UartComing, UartHeld, Uart!TypeOK
  <2>8. UartBalance'
    BY <1>0, <1>2, <1>4, <1>6, <2>6, <2>7 DEF UartBalance
  <2>9. UartTexts'
    BY <1>0, <1>1, <1>2, <1>3, <1>4, <1>5, <1>9, <2>6 DEF UartTexts, OwnFault, UartArmed
  <2> QED
    BY <1>7, <1>8, <2>5, <2>8, <2>9 DEF UartRest
<1>11. CASE ~DMAR[p]
  <2>1. UNCHANGED <<RxState, EIE, DMAR, uart_NDTR, uart_TCIF>>
    BY <1>6, <1>11 DEF Uart!ReceiveError
  <2>2. \A q \in Uart!Ports :
          /\ UartOff(q)' <=> UartOff(q)
          /\ UartReceiving(q)' <=> UartReceiving(q)
          /\ UartAborted(q)' <=> UartAborted(q)
    BY <1>1, <2>1 DEF UartOff, UartOn, UartReceiving, UartAborted
  <2>3. pc \in {"dmar4", "dmar5"} /\ UartReceiving(p)
    BY <1>4, <1>11 DEF UartOn
  <2>4. UartReceivers'
    BY <1>1, <1>3, <1>4, <1>5, <2>2, <2>3 DEF UartReceivers
  <2>5. \A q \in Uart!Ports : UartSurplus(q)' = UartSurplus(q)
    BY <1>1, <1>3, <2>1, UartSameSurplus
  <2>6. \A q \in Uart!Ports : UartStuck(q)' <=> UartStuck(q)
    BY <1>2, <1>3, <2>2, <2>5 DEF UartStuck
  <2>7. UartBalance'
    BY <1>0, <1>2, <1>4, <1>6, <2>5, <2>6 DEF UartBalance
  <2>8. UartTexts'
    BY <1>0, <1>1, <1>2, <1>9, <2>6 DEF UartTexts, OwnFault
  <2> QED
    BY <1>7, <1>8, <2>4, <2>7, <2>8 DEF UartRest
<1> QED
  BY <1>10, <1>11

LEMMA UartEndTransmit ==
  ASSUME UartInv, NEW p \in Uart!Ports, Uart!EndTransmit(p)
  PROVE  UartRest'
<1> USE DEF Uart!testVars, Uart!mainVars, Uart!txVars, Uart!rxVars, Uart!dmaVars, Uart!history,
            Uart!Ports, Uart!huart4, Uart!huart5
<1>0. UartReceivers /\ UartBalance /\ UartSenders /\ UartProgress /\ UartTexts /\ Uart!TypeOK
  BY DEF UartInv
<1>1. /\ TxXferCount[p] = 0 /\ wire[p] = << >> /\ gState' = [gState EXCEPT ![p] = "READY"]
      /\ UNCHANGED <<pc, msg, verdict, uart_rx_done, rx, RxState, EIE, DMAR, uart_NDTR, uart_TCIF,
                     TxXferCount, wire, uart_RDR, errors, damaged, faults, since>>
  BY DEF Uart!EndTransmit, Uart!TransmitComplete
<1>2. UartReceivers'
  BY <1>0, <1>1 DEF UartReceivers, UartArmed, UartReceiving, UartStored, UartReceived,
                    UartAborted, UartOff, UartOn, UartLossy, Happened
<1>3. UartBalance'
  BY <1>0, <1>1 DEF UartBalance, UartStuck, UartSurplus, UartComing, UartHeld, UartAsked, UartArmed,
                    UartAborted, UartOff, UartReceiving, UartOn, UartLossy, UartGlitched, Happened
<1>4. UartSenders'
  <2>1. \A q \in Uart!Ports : gState'[q] = IF q = p THEN "READY" ELSE gState[q]
    BY <1>0, <1>1 DEF Uart!TypeOK
  <2> QED
    BY <1>0, <1>1, <2>1 DEF UartSenders, Uart!TransmitComplete, UartGlitched, Happened
<1>5. UartProgress'
  BY <1>0, <1>1 DEF UartProgress
<1>6. UartTexts'
  <2>1. \A q \in Uart!Ports : UartTold(q)' <=> UartTold(q)
    BY <1>1 DEF UartTold, UartSame, UartByte, UartGot, UartHeld, Uart!Source
  <2>2. \A q \in Uart!Ports : UartStuck(q)' <=> UartStuck(q)
    BY <1>1 DEF UartStuck, UartSurplus, UartComing, UartHeld, UartAsked, UartArmed, UartAborted, UartOff,
                UartReceiving, UartOn, UartLossy, Happened
  <2>3. UartGlitched' <=> UartGlitched
    BY <1>1 DEF UartGlitched, Happened
  <2> QED
    BY <1>0, <1>1, <2>1, <2>2, <2>3 DEF UartTexts, OwnFault
<1> QED
  BY <1>2, <1>3, <1>4, <1>5, <1>6 DEF UartRest

LEMMA UartDmaTransfer ==
  ASSUME UartInv, NEW p \in Uart!Ports, Uart!DmaTransfer(p)
  PROVE  UartRest'
<1> USE DEF Uart!testVars, Uart!mainVars, Uart!txVars, Uart!rxVars, Uart!dmaVars, Uart!history,
            Uart!Ports, Uart!huart4, Uart!huart5
<1>0. UartReceivers /\ UartBalance /\ UartSenders /\ UartProgress /\ UartTexts /\ Uart!TypeOK
      /\ Uart!NoByte = NoByte
  BY DEF UartInv, NoByte, Uart!NoByte
<1>1. /\ DMAR[p] /\ uart_NDTR[p] > 0 /\ uart_RDR[p] # NoByte
      /\ rx' = [rx EXCEPT ![p] = Append(@, uart_RDR[p])]
      /\ uart_RDR' = [uart_RDR EXCEPT ![p] = NoByte]
      /\ uart_NDTR' = [uart_NDTR EXCEPT ![p] = @ - 1]
      /\ uart_TCIF' = [uart_TCIF EXCEPT ![p] = (uart_NDTR[p] = 1)]
      /\ UNCHANGED <<pc, msg, verdict, uart_rx_done, RxState, EIE, DMAR, gState, TxXferCount, wire,
                     errors, damaged, faults, since>>
  BY <1>0 DEF Uart!DmaTransfer, Uart!DmaRequest
<1>2. /\ UartGlitched' <=> UartGlitched
      /\ UartLossy' <=> UartLossy
  BY <1>1 DEF UartGlitched, UartLossy, Happened
<1>3. \A q \in Uart!Ports : (UartArmed(q)' <=> UartArmed(q)) /\ (UartAsked(q)' <=> UartAsked(q))
  BY <1>1 DEF UartArmed, UartAsked
<1>4. UartArmed(p) /\ UartReceiving(p) /\ pc \notin {"dmar4", "dmar5"}
  <2>1. UartArmed(p) /\ UartReceiving(p)
    BY <1>0, <1>1 DEF UartReceivers, UartStored, UartReceived, UartAborted, UartOff
  <2> QED
    BY <1>1, <2>1 DEF UartReceiving, UartOn
<1>5. \A q \in Uart!Ports \ {p} : UartOff(q) /\ ~UartArmed(q)
  BY <1>0, <1>4 DEF UartReceivers, UartArmed
<1>6. /\ rx[p] \in Seq(Bytes) /\ uart_NDTR[p] \in Nat /\ Len(msg) \in Nat /\ uart_RDR[p] \in Bytes
      /\ Len(rx[p]) \in Nat /\ Len(rx[p]) + uart_NDTR[p] = Len(msg)
      /\ wire[Uart!Peer(p)] \in Seq(Bytes) /\ TxXferCount[Uart!Peer(p)] \in Nat
  <2>1. rx[p] \in Seq(Bytes) /\ uart_NDTR[p] \in Nat /\ Len(msg) \in Nat
        /\ uart_RDR[p] \in Bytes \cup {NoByte}
    BY UartFacts
  <2>2. wire[Uart!Peer(p)] \in Seq(Bytes) /\ TxXferCount[Uart!Peer(p)] \in Nat
    BY UartFacts, UartPorts
  <2> QED
    BY <1>1, <1>4, <2>1, <2>2 DEF UartReceiving
<1>7. /\ rx'[p] = Append(rx[p], uart_RDR[p]) /\ uart_RDR'[p] = NoByte /\ uart_NDTR'[p] = uart_NDTR[p] - 1
      /\ \A q \in Uart!Ports \ {p} :
           rx'[q] = rx[q] /\ uart_RDR'[q] = uart_RDR[q] /\ uart_NDTR'[q] = uart_NDTR[q]
           /\ uart_TCIF'[q] = uart_TCIF[q]
  BY <1>0, <1>1 DEF Uart!TypeOK
<1>8. uart_TCIF'[p] <=> uart_NDTR[p] = 1
  BY <1>0, <1>1 DEF Uart!TypeOK
<1>9. Len(rx'[p]) = Len(rx[p]) + 1
  BY <1>6, <1>7
<1>10. /\ uart_NDTR[p] = 1 => UartStored(p)'
       /\ uart_NDTR[p] # 1 => UartReceiving(p)'
  <2>1. UartOn(p)'
    BY <1>1, <1>4 DEF UartReceiving, UartOn
  <2>2. CASE uart_NDTR[p] = 1
    BY <1>1, <1>4, <1>6, <1>7, <1>8, <1>9, <2>1, <2>2 DEF UartReceiving, UartStored
  <2>3. CASE uart_NDTR[p] # 1
    BY <1>1, <1>4, <1>6, <1>7, <1>8, <1>9, <2>1, <2>3 DEF UartReceiving
  <2> QED
    BY <2>2, <2>3
<1>11. \A q \in Uart!Ports \ {p} : UartOff(q)'
  BY <1>1, <1>5, <1>7 DEF UartOff
<1>12. UartReceivers'
  BY <1>1, <1>3, <1>4, <1>5, <1>10, <1>11 DEF UartReceivers
<1>13. \A q \in Uart!Ports : UartSurplus(q)' = UartSurplus(q)
  <2>1. UartSurplus(p)' = UartSurplus(p)
    <3>1. UartComing(p)' = UartComing(p) - 1 /\ UartComing(p) \in Nat
      <4>1. UartComing(p) = TxXferCount[Uart!Peer(p)] + Len(wire[Uart!Peer(p)]) + 1
        BY <1>1 DEF UartComing, UartHeld
      <4>2. UartComing(p)' = TxXferCount[Uart!Peer(p)] + Len(wire[Uart!Peer(p)]) + 0
        BY <1>1, <1>7 DEF UartComing, UartHeld
      <4> QED
        BY <1>6, <4>1, <4>2
    <3>2. (UartAsked(p)' <=> UartAsked(p)) /\ msg' = msg /\ uart_NDTR'[p] = uart_NDTR[p] - 1
      BY <1>1, <1>3, <1>7
    <3>3. uart_NDTR[p] \in Nat /\ Len(msg) \in Nat
      BY <1>6
    <3>4. CASE UartAsked(p)
      BY <3>1, <3>2, <3>3, <3>4, SMTT(40) DEF UartSurplus
    <3>5. CASE ~UartAsked(p)
      BY <3>1, <3>2, <3>3, <3>5 DEF UartSurplus
    <3> QED
      BY <3>4, <3>5
  <2>2. \A q \in Uart!Ports \ {p} : UartSurplus(q)' = UartSurplus(q)
    BY <1>1, <1>3, <1>7 DEF UartSurplus, UartComing, UartHeld
  <2> QED
    BY <2>1, <2>2
<1>14. \A q \in Uart!Ports : UartStuck(q)' <=> UartStuck(q)
  <2>1. ASSUME UartSurplus(p) < 0 PROVE uart_NDTR[p] # 1
    <3>1. UartComing(p) = TxXferCount[Uart!Peer(p)] + Len(wire[Uart!Peer(p)]) + 1
      BY <1>1 DEF UartComing, UartHeld
    <3>2. UartSurplus(p) = UartComing(p) + (IF UartAsked(p) THEN Len(msg) ELSE 0) - uart_NDTR[p]
      BY DEF UartSurplus
    <3> QED
      BY <1>6, <2>1, <3>1, <3>2
  <2>2. UartStuck(p)' <=> UartStuck(p)
    <3>1. ~UartAborted(p) /\ ~UartAborted(p)'
      BY <1>1, <1>4 DEF UartAborted, UartOff, UartReceiving, UartOn
    <3> QED
      BY <1>2, <1>3, <1>4, <1>10, <1>13, <2>1, <3>1 DEF UartStuck, UartStored, UartReceiving
  <2>3. \A q \in Uart!Ports \ {p} : ~UartStuck(q) /\ ~UartStuck(q)'
    BY <1>3, <1>5 DEF UartStuck
  <2> QED
    BY <2>2, <2>3
<1>15. UartBalance'
  <2>1. \A q \in Uart!Ports : "ORE" \notin errors[q]
    BY <1>0, <1>4, <1>5 DEF UartBalance, UartReceiving, UartAborted, UartOn, UartOff
  <2> QED
    BY <1>0, <1>1, <1>2, <1>13, <1>14, <2>1 DEF UartBalance
<1>16. UartSenders'
  <2>1. CASE p = Uart!huart4
    BY <1>0, <1>1, <1>2, <1>7, <2>1 DEF UartSenders, Uart!TransmitComplete
  <2>2. CASE p = Uart!huart5
    BY <1>0, <1>1, <1>2, <1>7, <2>2 DEF UartSenders, Uart!TransmitComplete
  <2> QED
    BY <2>1, <2>2
<1>17. UartProgress'
  <2>1. CASE p = Uart!huart4
    BY <1>0, <1>1, <1>4, <1>7, <2>1 DEF UartProgress, UartArmed
  <2>2. CASE p = Uart!huart5
    BY <1>0, <1>1, <1>4, <1>7, <2>2 DEF UartProgress, UartArmed
  <2> QED
    BY <2>1, <2>2
<1>18. UartTexts'
  <2>1. ASSUME NEW k \in 1..Len(msg) PROVE UartByte(p, k)' = UartByte(p, k)
    <3>1. Uart!Source(Uart!Peer(p))' = Uart!Source(Uart!Peer(p))
      BY <1>1, <1>7 DEF Uart!Source, Uart!Peer
    <3>2. UartByte(p, k) =
            IF k <= Len(rx[p]) THEN rx[p][k]
            ELSE IF k <= Len(rx[p]) + 1 THEN uart_RDR[p]
            ELSE IF k <= Len(rx[p]) + 1 + Len(wire[Uart!Peer(p)])
                   THEN wire[Uart!Peer(p)][k - (Len(rx[p]) + 1)]
            ELSE Uart!Source(Uart!Peer(p))[k]
      BY <1>1 DEF UartByte, UartGot, UartHeld
    <3>3. UartByte(p, k)' =
            IF k <= Len(rx[p]) + 1 THEN rx'[p][k]
            ELSE IF k <= Len(rx[p]) + 1 + Len(wire[Uart!Peer(p)])
                   THEN wire[Uart!Peer(p)][k - (Len(rx[p]) + 1)]
            ELSE Uart!Source(Uart!Peer(p))[k]
      <4>1. wire' = wire /\ uart_RDR'[p] = NoByte
        BY <1>1, <1>7
      <4>2. Len(rx'[p]) = Len(rx[p]) + 1 /\ Len(rx'[p]) + 0 = Len(rx[p]) + 1
        BY <1>6, <1>9
      <4> QED
        BY <3>1, <4>1, <4>2 DEF UartByte, UartGot, UartHeld
    <3>4. /\ k <= Len(rx[p]) => rx'[p][k] = rx[p][k]
          /\ rx'[p][Len(rx[p]) + 1] = uart_RDR[p]
      BY <1>6, <1>7
    <3>5. k \in Int /\ Len(wire[Uart!Peer(p)]) \in Nat
      BY <1>6
    <3>6. Len(rx[p]) \in Nat
      BY <1>6
    <3>7. CASE k <= Len(rx[p])
      <4>1. k <= Len(rx[p]) + 1
        BY <3>5, <3>6, <3>7
      <4> QED
        BY <3>2, <3>3, <3>4, <3>7, <4>1
    <3>8. CASE k = Len(rx[p]) + 1
      BY <1>9, <3>2, <3>3, <3>4, <3>5, <3>6, <3>8
    <3>9. CASE k > Len(rx[p]) + 1
      <4>1. ~(k <= Len(rx[p]) + 1) /\ ~(k <= Len(rx[p]))
        BY <3>5, <3>6, <3>9
      <4> QED
        BY <3>2, <3>3, <4>1
    <3> QED
      BY <3>5, <3>6, <3>7, <3>8, <3>9
  <2>2. UartTold(p)' <=> UartTold(p)
    BY <1>1, <2>1 DEF UartTold, UartSame
  <2>3. CASE p = Uart!huart4
    <3>1. \A k \in 1..Len(msg) : UartByte(Uart!huart5, k)' = UartByte(Uart!huart5, k)
      <4>1. /\ rx'[Uart!huart5] = rx[Uart!huart5] /\ uart_RDR'[Uart!huart5] = uart_RDR[Uart!huart5]
            /\ wire' = wire /\ msg' = msg
        BY <1>1, <1>7, <2>3
      <4> QED
        BY <4>1 DEF UartByte, UartGot, UartHeld, Uart!Source, Uart!Peer
    <3>2. UartTold(Uart!huart5)' <=> UartTold(Uart!huart5)
      BY <1>1, <3>1 DEF UartTold, UartSame
    <3> QED
      BY <1>0, <1>1, <1>2, <1>14, <2>2, <2>3, <3>2 DEF UartTexts, OwnFault
  <2>4. CASE p = Uart!huart5
    BY <1>0, <1>1, <1>2, <1>4, <1>14, <2>2, <2>4 DEF UartTexts, OwnFault, UartArmed
  <2> QED
    BY <2>3, <2>4
<1> QED
  BY <1>12, <1>15, <1>16, <1>17, <1>18 DEF UartRest

(* The byte that is sent next is the one that the receiver lacks.          *)
LEMMA UartNextByte ==
  ASSUME UartInv, NEW p \in Uart!Ports, NEW r \in Uart!Ports, r = Uart!Peer(p),
         TxXferCount[p] > 0, ~UartGlitched, ~UartStuck(r),
         pc \in IF r = Uart!huart5 THEN {"wait5", "receive4", "dmar4", "transmit5"}
                                   ELSE {"wait4", "crc"}
  PROVE  /\ UartGot(r) \in Nat /\ UartGot(r) + Len(wire[p]) + 1 \in 1..Len(msg)
         /\ Uart!NextByte(p) = {Uart!Source(p)[UartGot(r) + Len(wire[p]) + 1]}
<1> USE DEF Uart!Ports, Uart!huart4, Uart!huart5
<1>0. UartReceivers /\ UartBalance /\ UartProgress
  BY DEF UartInv
<1>1. UartSurplus(r) = 0
  BY <1>0 DEF UartBalance
<1>2. ~UartAsked(r) /\ pc \notin {"dmar5", "transmit4"} /\ (r = Uart!huart4 => pc \in {"wait4", "crc"})
  BY DEF UartAsked
<1>3. /\ rx[r] \in Seq(Bytes) /\ uart_NDTR[r] \in Nat /\ TxXferCount[p] \in Nat /\ wire[p] \in Seq(Bytes)
      /\ Len(msg) \in Nat /\ msg \in Seq(Bytes)
  BY UartFacts
<1>h. UartHeld(r) \in Nat
  BY DEF UartHeld
<1>4. Len(rx[r]) \in Nat /\ Len(wire[p]) \in Nat /\ UartGot(r) \in Nat
  <2>1. Len(rx[r]) \in Nat /\ Len(wire[p]) \in Nat
    BY <1>3
  <2> QED
    BY <1>h, <2>1 DEF UartGot
<1>5. TxXferCount[p] + Len(wire[p]) + UartHeld(r) = uart_NDTR[r]
  <2>1. Uart!Peer(r) = p
    BY DEF Uart!Peer
  <2>2. UartSurplus(r) =
          TxXferCount[p] + Len(wire[p]) + UartHeld(r) + 0 - uart_NDTR[r]
    BY <1>2, <2>1 DEF UartSurplus, UartComing
  <2>3. TxXferCount[p] + Len(wire[p]) + UartHeld(r) \in Nat /\ uart_NDTR[r] \in Nat
    BY <1>3, <1>4, <1>h, SMTT(40)
  <2> QED
    BY <1>1, <2>2, <2>3
<1>6. uart_NDTR[r] # 0
  BY <1>3, <1>4, <1>5, <1>h
<1>7. Len(rx[r]) + uart_NDTR[r] = Len(msg)
  BY <1>0, <1>6 DEF UartReceivers, UartReceiving, UartStored, UartReceived, UartAborted, UartOff
<1>8. /\ Len(msg) - TxXferCount[p] + 1 = UartGot(r) + Len(wire[p]) + 1
      /\ UartGot(r) + Len(wire[p]) + 1 \in 1..Len(msg)
  <2>t. PICK t \in Nat : t = TxXferCount[p]
    BY <1>3
  <2>w. PICK w \in Nat : w = Len(wire[p])
    BY <1>4
  <2>h. PICK h \in Nat : h = UartHeld(r)
    BY <1>h
  <2>n. PICK n \in Nat : n = Len(rx[r])
    BY <1>4
  <2>l. PICK l \in Nat : l = Len(msg)
    BY <1>3
  <2>1. n + (t + w + h) = l /\ t > 0
    BY <1>5, <1>7, <2>t, <2>w, <2>h, <2>n, <2>l
  <2>2. UartGot(r) = n + h
    BY <2>h, <2>n DEF UartGot
  <2>3. l - t + 1 = n + h + w + 1 /\ n + h + w + 1 \in 1..l
    BY <2>1
  <2> QED
    BY <2>t, <2>w, <2>l, <2>2, <2>3
<1>9. Uart!OfThisTest(p)
  BY DEF Uart!OfThisTest, Uart!Peer
<1>10. DOMAIN Uart!Source(p) = 1..Len(msg)
  <2>1. CASE p = Uart!huart4
    BY <1>3, <2>1 DEF Uart!Source
  <2>2. CASE p = Uart!huart5
    <3>1. Len(rx[Uart!huart5]) = Len(msg) /\ rx[Uart!huart5] \in Seq(Bytes)
      <4>1. rx[Uart!huart5] \in Seq(Bytes)
        BY UartFacts
      <4> QED
        BY <1>0, <1>2, <2>2, <4>1 DEF UartProgress, Uart!Peer
    <3> QED
      BY <2>2, <3>1 DEF Uart!Source
  <2> QED
    BY <2>1, <2>2
<1> QED
  BY <1>4, <1>8, <1>9, <1>10 DEF Uart!NextByte

LEMMA UartTransmitByte ==
  ASSUME UartInv, NEW p \in Uart!Ports, Uart!TransmitByte(p)
  PROVE  UartRest'
<1> USE DEF Uart!testVars, Uart!mainVars, Uart!txVars, Uart!rxVars, Uart!dmaVars, Uart!history,
            Uart!Ports, Uart!huart4, Uart!huart5
<1>0. UartReceivers /\ UartBalance /\ UartSenders /\ UartProgress /\ UartTexts /\ Uart!TypeOK
  BY DEF UartInv
<1>1. /\ gState[p] = "BUSY" /\ TxXferCount[p] > 0
      /\ TxXferCount' = [TxXferCount EXCEPT ![p] = @ - 1]
      /\ UNCHANGED <<pc, msg, verdict, uart_rx_done, rx, RxState, EIE, DMAR, uart_NDTR, uart_TCIF,
                     gState, uart_RDR, errors, damaged, faults, since>>
  BY DEF Uart!TransmitByte, Uart!TransmitPending, Uart!MoreToSend
<1> PICK b \in Uart!NextByte(p) : wire' = [wire EXCEPT ![p] = Append(@, b)]
  BY DEF Uart!TransmitByte
<1> PICK r \in Uart!Ports : r = Uart!Peer(p) /\ r # p /\ p = Uart!Peer(r)
  BY DEF Uart!Peer
<1>2. /\ wire'[p] = Append(wire[p], b) /\ TxXferCount'[p] = TxXferCount[p] - 1
      /\ \A q \in Uart!Ports \ {p} : wire'[q] = wire[q] /\ TxXferCount'[q] = TxXferCount[q]
  BY <1>0, <1>1 DEF Uart!TypeOK
<1>3. wire[p] \in Seq(Bytes) /\ TxXferCount[p] \in Nat
  BY UartFacts
<1>4. UartReceivers'
  BY <1>0, <1>1 DEF UartReceivers, UartArmed, UartReceiving, UartStored, UartReceived,
                    UartAborted, UartOff, UartOn, UartLossy, Happened
<1>5. \A q \in Uart!Ports : UartSurplus(q)' = UartSurplus(q)
  <2>1. UartComing(r)' = UartComing(r)
    <3>1. TxXferCount'[p] + Len(wire'[p]) = TxXferCount[p] + Len(wire[p])
      BY <1>2, <1>3
    <3> QED
      BY <1>1, <3>1 DEF UartComing, UartHeld
  <2>2. UartComing(p)' = UartComing(p)
    BY <1>1, <1>2 DEF UartComing, UartHeld
  <2>3. \A q \in Uart!Ports : UartComing(q)' = UartComing(q) /\ (UartAsked(q)' <=> UartAsked(q))
    BY <1>1, <2>1, <2>2 DEF UartAsked
  <2> QED
    BY <1>1, <2>3 DEF UartSurplus
<1>6. /\ UartGlitched' <=> UartGlitched
      /\ UartLossy' <=> UartLossy
  BY <1>1 DEF UartGlitched, UartLossy, Happened
<1>7. \A q \in Uart!Ports : UartStuck(q)' <=> UartStuck(q)
  BY <1>1, <1>5, <1>6 DEF UartStuck, UartArmed, UartAborted, UartOff, UartReceiving, UartOn
<1>8. UartBalance'
  BY <1>0, <1>1, <1>5, <1>6, <1>7 DEF UartBalance, UartArmed, UartAborted, UartOff
<1>9. UartSenders'
  <2>1. CASE p = Uart!huart4
    BY <1>0, <1>1, <1>2, <1>6, <2>1 DEF UartSenders, Uart!TransmitComplete
  <2>2. CASE p = Uart!huart5
    BY <1>0, <1>1, <1>2, <1>6, <2>2 DEF UartSenders, Uart!TransmitComplete
  <2> QED
    BY <2>1, <2>2
<1>10. UartProgress'
  BY <1>0, <1>1 DEF UartProgress
<1>11. UartTold(p)' <=> UartTold(p)
  BY <1>1, <1>2 DEF UartTold, UartSame, UartByte, UartGot, UartHeld, Uart!Source
<1>12. ASSUME ~UartGlitched, ~UartStuck(r),
              pc \in IF r = Uart!huart5 THEN {"wait5", "receive4", "dmar4", "transmit5"}
                                        ELSE {"wait4", "crc"}
       PROVE  UartTold(r)' <=> UartTold(r)
  <2>m. PICK m : m = UartGot(r)
    OBVIOUS
  <2>1. /\ m \in Nat /\ m + Len(wire[p]) + 1 \in 1..Len(msg)
        /\ b = Uart!Source(p)[m + Len(wire[p]) + 1]
    <3>1. r = Uart!Peer(p) /\ TxXferCount[p] > 0
      BY <1>1
    <3>2. /\ m \in Nat /\ m + Len(wire[p]) + 1 \in 1..Len(msg)
          /\ Uart!NextByte(p) = {Uart!Source(p)[m + Len(wire[p]) + 1]}
      BY <1>12, <2>m, <3>1, UartNextByte
    <3> QED
      BY <3>2
  <2>2. Uart!Source(p)' = Uart!Source(p)
    BY <1>1 DEF Uart!Source
  <2>3. ASSUME NEW k \in 1..Len(msg) PROVE UartByte(r, k)' = UartByte(r, k)
    <3>1. UartByte(r, k) =
            IF k <= Len(rx[r]) THEN rx[r][k]
            ELSE IF k <= m THEN uart_RDR[r]
            ELSE IF k <= m + Len(wire[p]) THEN wire[p][k - m]
            ELSE Uart!Source(p)[k]
      BY <2>m DEF UartByte
    <3>2. UartByte(r, k)' =
            IF k <= Len(rx[r]) THEN rx[r][k]
            ELSE IF k <= m THEN uart_RDR[r]
            ELSE IF k <= m + Len(wire'[p]) THEN wire'[p][k - m]
            ELSE Uart!Source(p)[k]
      <4>1. rx' = rx /\ UartGot(r)' = UartGot(r) /\ uart_RDR' = uart_RDR
        BY <1>1 DEF UartHeld, UartGot
      <4>2. UartByte(r, k)' =
              IF k <= Len(rx'[r]) THEN rx'[r][k]
              ELSE IF k <= UartGot(r)' THEN uart_RDR'[r]
              ELSE IF k <= UartGot(r)' + Len(wire'[Uart!Peer(r)])
                     THEN wire'[Uart!Peer(r)][k - UartGot(r)']
              ELSE Uart!Source(Uart!Peer(r))'[k]
        BY DEF UartByte
      <4> QED
        BY <2>2, <2>m, <4>1, <4>2
    <3>3. /\ Len(wire[p]) \in Nat /\ Len(wire'[p]) = Len(wire[p]) + 1
          /\ \A i \in 1..Len(wire[p]) : wire'[p][i] = wire[p][i]
          /\ wire'[p][Len(wire[p]) + 1] = b
      BY <1>2, <1>3
    <3>4. k \in Int /\ m \in Nat /\ Len(wire[p]) \in Nat /\ Len(wire'[p]) = Len(wire[p]) + 1
      BY <2>1, <3>3
    <3>5. CASE k <= m
      BY <3>1, <3>2, <3>5
    <3>6. CASE k > m /\ k <= m + Len(wire[p])
      <4>1. /\ ~(k <= m) /\ k <= m + Len(wire[p]) /\ k <= m + Len(wire'[p])
            /\ k - m \in 1..Len(wire[p])
        BY <3>4, <3>6
      <4>2. wire'[p][k - m] = wire[p][k - m]
        BY <3>3, <4>1
      <4> QED
        BY <3>1, <3>2, <4>1, <4>2
    <3>7. CASE k = m + Len(wire[p]) + 1
      <4>1. /\ ~(k <= m) /\ ~(k <= m + Len(wire[p])) /\ k <= m + Len(wire'[p])
            /\ k - m = Len(wire[p]) + 1
        BY <3>4, <3>7
      <4>2. wire'[p][k - m] = Uart!Source(p)[k]
        BY <2>1, <3>3, <3>7, <4>1
      <4> QED
        BY <3>1, <3>2, <4>1, <4>2
    <3>8. CASE k > m + Len(wire[p]) + 1
      <4>1. ~(k <= m) /\ ~(k <= m + Len(wire[p])) /\ ~(k <= m + Len(wire'[p]))
        BY <3>4, <3>8
      <4> QED
        BY <3>1, <3>2, <4>1
    <3> QED
      BY <3>4, <3>5, <3>6, <3>7, <3>8
  <2> QED
    BY <1>1, <2>3 DEF UartTold, UartSame
<1>13. UartTexts'
  <2>1. CASE p = Uart!huart4
    <3>1. r = Uart!huart5
      BY <2>1 DEF Uart!Peer
    <3> QED
      BY <1>0, <1>1, <1>6, <1>7, <1>11, <1>12, <2>1, <3>1 DEF UartTexts, OwnFault
  <2>2. CASE p = Uart!huart5
    <3>1. r = Uart!huart4
      BY <2>2 DEF Uart!Peer
    <3> QED
      BY <1>0, <1>1, <1>6, <1>7, <1>11, <1>12, <2>2, <3>1 DEF UartTexts, OwnFault
  <2> QED
    BY <2>1, <2>2
<1> QED
  BY <1>4, <1>8, <1>9, <1>10, <1>13 DEF UartRest

(* When a byte gets to p, it is the turn of its sender: the phase is the   *)
(* one in which p receives, unless a glitch has upset them.                *)
LEMMA UartTurn ==
  ASSUME UartInv, NEW p \in Uart!Ports, Uart!Shift(p)
  PROVE  /\ gState[Uart!Peer(p)] = "BUSY"
         /\ \A q \in Uart!Ports : ~Uart!TransmitComplete(q)
         /\ ~UartAsked(p)
         /\ pc \in {"start", "dmar5", "transmit4", "wait5"} /\ gState[Uart!huart5] = "BUSY" =>
              p = Uart!huart4
         /\ pc \in {"receive4", "dmar4", "transmit5", "wait4", "crc"} /\ gState[Uart!huart4] = "BUSY" =>
              p = Uart!huart5
<1> USE DEF Uart!Ports, Uart!huart4, Uart!huart5
<1> PICK s \in Uart!Ports : s = Uart!Peer(p) /\ s # p /\ p = Uart!Peer(s)
  BY DEF Uart!Peer
<1>0. UartSenders /\ Uart!TypeOK
  BY DEF UartInv
<1>1. wire[s] # << >> /\ ~Uart!LeftOver(p) /\ Uart!Settled
  BY DEF Uart!Shift
<1>2. gState[s] = "BUSY"
  BY <1>0, <1>1 DEF UartSenders, Uart!TypeOK
<1>3. \A q \in Uart!Ports : ~Uart!TransmitComplete(q) /\ ~Uart!TransmitPending(q)
  BY <1>1 DEF Uart!Settled
<1>4. ~UartAsked(p)
  BY <1>0, <1>2 DEF UartAsked, UartSenders, Uart!Peer
<1>5. ASSUME gState[p] = "BUSY" PROVE wire[p] # << >>
  <2>1. TxXferCount[p] \in Nat
    BY UartFacts
  <2>2. wire[p] = << >> => Len(wire[p]) = 0
    OBVIOUS
  <2> QED
    BY <1>3, <1>5, <2>1, <2>2 DEF Uart!TransmitComplete, Uart!TransmitPending, Uart!MoreToSend
<1>6. ASSUME gState[p] = "BUSY" PROVE pc = IF p = Uart!huart4 THEN "wait5" ELSE "wait4"
  BY <1>1, <1>5, <1>6 DEF Uart!LeftOver
<1> QED
  BY <1>2, <1>3, <1>4, <1>6

(* A receiver that still holds a byte when the next one comes has stopped  *)
(* receiving.                                                              *)
LEMMA UartOverrun ==
  ASSUME UartInv, NEW p \in Uart!Ports, Uart!Shift(p)
  PROVE  /\ uart_RDR[p] # NoByte => ~UartGlitched /\ UartStuck(p) /\ UartAborted(p)
         /\ ~UartGlitched =>
              /\ UartArmed(p) /\ pc = IF p = Uart!huart4 THEN "wait4" ELSE "wait5"
              /\ UartStuck(p) \/ (UartReceiving(p) /\ UartSurplus(p) = 0)
<1> USE DEF Uart!Ports, Uart!huart4, Uart!huart5
<1>p. PICK s \in Uart!Ports : s = Uart!Peer(p) /\ s # p /\ p = Uart!Peer(s)
  BY DEF Uart!Peer
<1>0. UartReceivers /\ UartSenders /\ UartBalance
  BY DEF UartInv
<1>1. /\ wire[s] # << >> /\ ~Uart!DmaRequest(p) /\ gState[s] = "BUSY"
      /\ \A q \in Uart!Ports : ~Uart!TransmitComplete(q)
      /\ ~UartAsked(p)
  BY <1>p, UartTurn DEF Uart!Shift, Uart!Settled
<1>t. PICK t \in Nat : t = TxXferCount[s]
  BY UartFacts
<1>w. PICK w \in Nat : w = Len(wire[s]) /\ w > 0
  <2>1. wire[s] \in Seq(Bytes)
    BY UartFacts
  <2> QED
    BY <1>1, <2>1
<1>n. PICK n \in Nat : n = uart_NDTR[p]
  BY UartFacts
<1>2. UartSurplus(p) = t + w + UartHeld(p) + 0 - n
  BY <1>1, <1>p, <1>t, <1>w, <1>n DEF UartSurplus, UartComing
<1>h. UartHeld(p) = IF uart_RDR[p] = NoByte THEN 0 ELSE 1
  BY DEF UartHeld
<1>3. UartReceiving(p) /\ pc \notin {"dmar4", "dmar5"} => uart_RDR[p] = NoByte
  <2>1. NoByte = Uart!NoByte
    BY DEF NoByte, Uart!NoByte
  <2> QED
    BY <1>1, <2>1 DEF UartReceiving, UartOn, Uart!DmaRequest
<1>4. UartReceiving(p) => pc \notin {"dmar4", "dmar5"}
  <2>1. pc \in {"dmar4", "dmar5"} /\ UartReceiving(p) => UartArmed(p)
    BY <1>0 DEF UartReceivers, UartReceiving, UartOn, UartOff
  <2>2. pc \in {"dmar4", "dmar5"} /\ UartArmed(p) => UartAsked(p)
    BY DEF UartArmed, UartAsked
  <2> QED
    BY <1>1, <2>1, <2>2
<1>5. CASE n = 0
  <2>1. UartSurplus(p) > 0 /\ UartSurplus(p) >= UartHeld(p) + 1
    <3>1. UartHeld(p) \in Nat
      BY <1>h
    <3> QED
      BY <1>2, <1>5, <1>w, <3>1
  <2>2. UartGlitched => uart_RDR[p] = NoByte
    <3>1. ASSUME UartGlitched PROVE UartSurplus(p) <= 1
      <4>1. UartSurplus(p) + UartSurplus(s) = 1 /\ UartSurplus(s) >= 0
        <5>1. UartSurplus(4) + UartSurplus(5) = 1 /\ UartSurplus(4) >= 0 /\ UartSurplus(5) >= 0
          BY <1>0, <3>1 DEF UartBalance
        <5>2. UartSurplus(4) \in Int /\ UartSurplus(5) \in Int
          BY UartFacts
        <5>3. (p = 4 /\ s = 5) \/ (p = 5 /\ s = 4)
          BY <1>p
        <5> QED
          BY <5>1, <5>2, <5>3
      <4>2. UartSurplus(p) \in Int /\ UartSurplus(s) \in Int
        BY UartFacts
      <4> QED
        BY <4>1, <4>2
    <3>2. UartSurplus(p) \in Int
      BY UartFacts
    <3>3. uart_RDR[p] # NoByte => UartHeld(p) = 1
      BY <1>h
    <3> QED
      BY <2>1, <3>1, <3>2, <3>3
  <2>3. ~UartGlitched => UartStuck(p)
    BY <1>0, <2>1 DEF UartBalance
  <2>4. ~UartGlitched => UartAborted(p)
    BY <1>5, <1>n, <2>3 DEF UartStuck, UartReceiving
  <2>5. UartStuck(p) => UartArmed(p)
    BY DEF UartStuck
  <2>6. ~UartGlitched => pc = IF p = Uart!huart4 THEN "wait4" ELSE "wait5"
    BY <1>1, <2>3, <2>5 DEF UartArmed, UartAsked
  <2> QED
    BY <2>2, <2>3, <2>4, <2>5, <2>6
<1>6. CASE n # 0
  <2>1. UartReceiving(p) /\ UartArmed(p)
    BY <1>0, <1>6, <1>n DEF UartReceivers, UartStored, UartReceived, UartAborted, UartOff
  <2>2. uart_RDR[p] = NoByte
    BY <1>3, <1>4, <2>1
  <2>3. pc = IF p = Uart!huart4 THEN "wait4" ELSE "wait5"
    BY <1>1, <2>1 DEF UartArmed, UartAsked
  <2> QED
    BY <1>0, <2>1, <2>2, <2>3 DEF UartBalance
<1> QED
  BY <1>5, <1>6

(* What arrives, or gets lost, changes only what its receiver holds.       *)
LEMMA UartShifted ==
  ASSUME UartInv, NEW p \in Uart!Ports, Uart!Shift(p),
         \A q \in Uart!Ports \ {p} : uart_RDR'[q] = uart_RDR[q],
         UartGlitched' <=> UartGlitched, UartLossy => UartLossy'
  PROVE  /\ UartReceivers' /\ UartSenders' /\ UartProgress'
         /\ \A q \in Uart!Ports :
              /\ UartArmed(q)' <=> UartArmed(q)
              /\ UartAborted(q)' <=> UartAborted(q)
              /\ UartReceiving(q)' <=> UartReceiving(q)
         /\ \A q \in Uart!Ports \ {p} :
              /\ UartSurplus(q)' = UartSurplus(q)
              /\ \A k \in 1..Len(msg) : UartByte(q, k)' = UartByte(q, k)
         /\ UartSurplus(p)' = UartSurplus(p) - 1 + UartHeld(p)' - UartHeld(p)
<1> USE DEF Uart!testVars, Uart!mainVars, Uart!txVars, Uart!rxVars, Uart!dmaVars, Uart!history,
            Uart!Ports, Uart!huart4, Uart!huart5
<1>0. UartReceivers /\ UartBalance /\ UartSenders /\ UartProgress /\ UartTexts /\ Uart!TypeOK
  BY DEF UartInv
<1>p. PICK s \in Uart!Ports : s = Uart!Peer(p) /\ s # p /\ p = Uart!Peer(s) /\ \A q \in Uart!Ports : q = s \/ q = p
  BY DEF Uart!Peer
<1>1. /\ wire[s] # << >> /\ wire' = [wire EXCEPT ![s] = Tail(wire[s])]
      /\ UNCHANGED <<pc, msg, verdict, uart_rx_done, rx, RxState, EIE, DMAR, uart_NDTR, uart_TCIF,
                     gState, TxXferCount>>
  BY <1>p DEF Uart!Shift
<1>2. /\ gState[s] = "BUSY"
      /\ \A q \in Uart!Ports : ~Uart!TransmitComplete(q)
      /\ ~UartAsked(p)
      /\ pc \in {"start", "dmar5", "transmit4", "wait5"} /\ gState[Uart!huart5] = "BUSY" =>
           p = Uart!huart4
      /\ pc \in {"receive4", "dmar4", "transmit5", "wait4", "crc"} /\ gState[Uart!huart4] = "BUSY" =>
           p = Uart!huart5
  BY <1>p, UartTurn
<1>3. wire'[s] = Tail(wire[s]) /\ wire'[p] = wire[p]
  BY <1>0, <1>1, <1>p DEF Uart!TypeOK
<1>4. \A q \in Uart!Ports :
        /\ UartArmed(q)' <=> UartArmed(q)
        /\ UartAsked(q)' <=> UartAsked(q)
        /\ UartOff(q)' <=> UartOff(q)
        /\ UartOn(q)' <=> UartOn(q)
  BY <1>1 DEF UartArmed, UartAsked, UartOff, UartOn
<1>5. \A q \in Uart!Ports :
        /\ UartReceiving(q)' <=> UartReceiving(q)
        /\ UartStored(q)' <=> UartStored(q)
        /\ UartReceived(q)' <=> UartReceived(q)
        /\ UartAborted(q)' <=> UartAborted(q)
  <2>1. /\ uart_rx_done' = uart_rx_done /\ rx' = rx /\ uart_NDTR' = uart_NDTR
        /\ uart_TCIF' = uart_TCIF /\ DMAR' = DMAR /\ msg' = msg
    BY <1>1
  <2> TAKE q \in Uart!Ports
  <2>2. (UartOff(q)' <=> UartOff(q)) /\ (UartOn(q)' <=> UartOn(q))
    BY <1>4
  <2>3. UartReceiving(q)' <=> UartReceiving(q)
    BY <2>1, <2>2 DEF UartReceiving
  <2>4. UartStored(q)' <=> UartStored(q)
    BY <2>1, <2>2 DEF UartStored
  <2>5. (UartReceived(q)' <=> UartReceived(q)) /\ (UartAborted(q)' <=> UartAborted(q))
    BY <2>1, <2>2 DEF UartReceived, UartAborted
  <2> QED
    BY <2>3, <2>4, <2>5
<1>6. UartReceivers'
  BY <1>0, <1>1, <1>4, <1>5 DEF UartReceivers
<1>7. UartSenders'
  <2>1. \A q \in Uart!Ports : gState[q] = "READY" => TxXferCount[q] = 0 /\ wire'[q] = << >>
    BY <1>0, <1>2, <1>3, <1>p DEF UartSenders
  <2>2. pc = "idle" => gState[Uart!huart4] # "BUSY"
    BY <1>0, <1>2 DEF UartSenders
  <2>3. p = 5 => uart_RDR'[4] = uart_RDR[4]
    OBVIOUS
  <2>4. p = 4 => uart_RDR'[5] = uart_RDR[5]
    OBVIOUS
  <2>5. CASE p = 4
    BY <1>0, <1>1, <1>2, <2>1, <2>2, <2>4, <2>5 DEF UartSenders
  <2>6. CASE p = 5
    BY <1>0, <1>1, <1>2, <2>1, <2>2, <2>3, <2>6 DEF UartSenders
  <2> QED
    BY <2>5, <2>6
<1>8. UartProgress'
  BY <1>0, <1>1 DEF UartProgress
<1>9. ASSUME NEW q \in Uart!Ports \ {p}
      PROVE  /\ UartSurplus(q)' = UartSurplus(q)
             /\ \A k \in 1..Len(msg) : UartByte(q, k)' = UartByte(q, k)
  <2>1. /\ uart_RDR'[q] = uart_RDR[q] /\ Uart!Peer(q) = p /\ wire'[p] = wire[p]
        /\ UartHeld(q)' = UartHeld(q)
    BY <1>3, <1>p DEF UartHeld
  <2>2. UartSurplus(q)' = UartSurplus(q)
    BY <1>1, <1>4, <2>1 DEF UartSurplus, UartComing
  <2>3. UartGot(q)' = UartGot(q)
    BY <1>1, <2>1 DEF UartGot
  <2>4. ASSUME NEW k \in 1..Len(msg) PROVE UartByte(q, k)' = UartByte(q, k)
    <3>1. UartByte(q, k)' =
            IF k <= Len(rx'[q]) THEN rx'[q][k]
            ELSE IF k <= UartGot(q)' THEN uart_RDR'[q]
            ELSE IF k <= UartGot(q)' + Len(wire'[Uart!Peer(q)])
                   THEN wire'[Uart!Peer(q)][k - UartGot(q)']
            ELSE Uart!Source(Uart!Peer(q))'[k]
      BY DEF UartByte
    <3>2. Uart!Source(Uart!Peer(q))' = Uart!Source(Uart!Peer(q)) /\ rx' = rx
      BY <1>1 DEF Uart!Source
    <3> QED
      BY <2>1, <2>3, <3>1, <3>2 DEF UartByte
  <2> QED
    BY <2>2, <2>4
<1>10. UartSurplus(p)' = UartSurplus(p) - 1 + UartHeld(p)' - UartHeld(p)
  <2>t. PICK t \in Nat : t = TxXferCount[s]
    BY UartFacts
  <2>w. PICK w \in Nat : w = Len(wire[s]) /\ Len(wire'[s]) = w - 1
    <3>1. wire[s] \in Seq(Bytes)
      BY UartFacts
    <3>2. wire[s] # << >>
      BY <1>1
    <3>3. Len(wire[s]) \in Nat /\ Len(Tail(wire[s])) = Len(wire[s]) - 1
      BY <3>1, <3>2
    <3> QED
      BY <1>3, <3>3
  <2>n. PICK n \in Nat : n = uart_NDTR[p]
    BY UartFacts
  <2>h. UartHeld(p) \in Nat /\ UartHeld(p)' \in Nat
    BY DEF UartHeld
  <2>1. UartSurplus(p) = t + w + UartHeld(p) + 0 - n
    BY <1>2, <1>p, <2>t, <2>w, <2>n DEF UartSurplus, UartComing
  <2>2. UartSurplus(p)' = t + (w - 1) + UartHeld(p)' + 0 - n
    <3>1. UartSurplus(p)' = TxXferCount'[s] + Len(wire'[s]) + UartHeld(p)' + 0 - uart_NDTR'[p]
      <4>1. ~UartAsked(p)'
        BY <1>2, <1>4
      <4> QED
        BY <1>p, <4>1 DEF UartSurplus, UartComing
    <3> QED
      BY <1>1, <2>t, <2>w, <2>n, <3>1
  <2> QED
    BY <2>1, <2>2, <2>h
<1> QED
  BY <1>4, <1>5, <1>6, <1>7, <1>8, <1>9, <1>10

LEMMA UartFault ==
  ASSUME UartInv, NEW kind, Uart!Fault(kind)
  PROVE  /\ ~UartGlitched /\ since' = since /\ Len(faults') = Len(faults) + 1
         /\ UartGlitched' <=> kind = "glitch"
         /\ kind = "glitch" => faults = << >> /\ faults' = <<"glitch">>
         /\ UartLossy => UartLossy'
         /\ kind \in {"error", "lose"} => UartLossy'
<1>1. /\ ~Uart!Happened({"glitch"}) /\ since' = since /\ faults' = Append(faults, kind)
      /\ kind = "glitch" => faults = << >>
  BY DEF Uart!Fault
<1>2. faults \in Seq(LineFaults)
  BY DEF UartInv, Uart!TypeOK, Uart!TestTypeOK
<1>3. ~UartGlitched
  BY <1>1 DEF UartGlitched, Happened, Uart!Happened
<1>4. /\ Len(faults') = Len(faults) + 1 /\ Len(faults) \in Nat
      /\ \A i \in DOMAIN faults : i \in DOMAIN faults' /\ faults'[i] = faults[i]
      /\ Len(faults) + 1 \in DOMAIN faults' /\ faults'[Len(faults) + 1] = kind
      /\ \A i \in DOMAIN faults' : i \in DOMAIN faults \/ i = Len(faults) + 1
  <2> PICK L : faults \in Seq(L \cup {kind})
    <3>1. faults \in Seq(LineFaults \cup {kind})
      BY <1>2
    <3> QED
      BY <3>1
  <2> QED
    BY <1>1
<1>5. UartGlitched' <=> kind = "glitch"
  BY <1>3, <1>4 DEF UartGlitched, Happened
<1>6. UartLossy => UartLossy'
  BY <1>4 DEF UartLossy, Happened
<1>7. kind \in {"error", "lose"} => UartLossy'
  BY <1>4 DEF UartLossy, Happened
<1>8. kind = "glitch" => faults = << >> /\ faults' = <<"glitch">>
  BY <1>1
<1> QED
  BY <1>1, <1>3, <1>4, <1>5, <1>6, <1>7, <1>8

(* A byte that arrives changed makes the text wrong, in one place.         *)
LEMMA UartText ==
  ASSUME UartInv, NEW p \in Uart!Ports, Uart!Shift(p), NEW b,
         uart_RDR[p] = NoByte, uart_RDR'[p] = b, b # NoByte, UartReceiving(p)
  PROVE  LET sent == Head(wire[Uart!Peer(p)]) IN
         /\ b = sent => (UartSame(p)' <=> UartSame(p))
         /\ b # sent => ~(UartSame(p) /\ UartSame(p)')
<1> USE DEF Uart!testVars, Uart!mainVars, Uart!txVars, Uart!rxVars, Uart!dmaVars, Uart!history
<1>p. PICK s \in Uart!Ports : s = Uart!Peer(p)
  BY UartPorts
<1>0. wire \in [Uart!Ports -> Seq(Bytes)] /\ rx[p] \in Seq(Bytes) /\ uart_NDTR[p] \in Nat /\ Len(msg) \in Nat
  BY UartFacts DEF UartInv, Uart!TypeOK
<1>1. /\ wire[s] # << >> /\ wire' = [wire EXCEPT ![s] = Tail(wire[s])]
      /\ rx' = rx /\ msg' = msg
  BY <1>p DEF Uart!Shift
<1>n. PICK n \in Nat : n = Len(rx[p])
  BY <1>0
<1>w. PICK w \in Nat : w = Len(wire[s]) /\ w > 0 /\ Len(Tail(wire[s])) = w - 1
  <2>1. wire[s] \in Seq(Bytes) /\ wire[s] # << >>
    BY <1>0, <1>1
  <2>2. Len(wire[s]) \in Nat /\ Len(wire[s]) > 0 /\ Len(Tail(wire[s])) = Len(wire[s]) - 1
    BY <2>1
  <2> QED
    BY <2>2
<1>2. /\ wire'[s] = Tail(wire[s]) /\ Head(wire[s]) = wire[s][1]
      /\ \A j \in 1..w - 1 : wire'[s][j] = wire[s][j + 1]
  <2>1. wire'[s] = Tail(wire[s])
    BY <1>0, <1>1
  <2>2. wire[s] \in Seq(Bytes) /\ wire[s] # << >>
    BY <1>0, <1>1
  <2>3. Head(wire[s]) = wire[s][1] /\ \A j \in 1..Len(wire[s]) - 1 : Tail(wire[s])[j] = wire[s][j + 1]
    BY <2>2
  <2> QED
    BY <1>w, <2>1, <2>3
<1>3. n + 1 \in 1..Len(msg)
  <2>1. n + uart_NDTR[p] = Len(msg) /\ uart_NDTR[p] > 0
    BY <1>n DEF UartReceiving
  <2> QED
    BY <1>0, <2>1
<1>4. UartGot(p) = n /\ UartGot(p)' = n + 1
  <2>1. UartHeld(p) = 0 /\ UartHeld(p)' = 1
    BY DEF UartHeld
  <2> QED
    BY <1>1, <1>n, <2>1 DEF UartGot
<1>5. ASSUME NEW k \in 1..Len(msg)
      PROVE  /\ UartByte(p, k) = IF k <= n THEN rx[p][k]
                                 ELSE IF k <= n + w THEN wire[s][k - n]
                                 ELSE Uart!Source(s)[k]
             /\ UartByte(p, k)' = IF k <= n THEN rx[p][k]
                                  ELSE IF k <= n + 1 THEN b
                                  ELSE IF k <= n + 1 + (w - 1) THEN wire'[s][k - (n + 1)]
                                  ELSE Uart!Source(s)[k]
  <2>1. UartByte(p, k) = IF k <= n THEN rx[p][k]
                         ELSE IF k <= n THEN uart_RDR[p]
                         ELSE IF k <= n + w THEN wire[s][k - n]
                         ELSE Uart!Source(s)[k]
    BY <1>p, <1>n, <1>w, <1>4 DEF UartByte
  <2>2. UartByte(p, k)' =
          IF k <= Len(rx'[p]) THEN rx'[p][k]
          ELSE IF k <= UartGot(p)' THEN uart_RDR'[p]
          ELSE IF k <= UartGot(p)' + Len(wire'[Uart!Peer(p)])
                 THEN wire'[Uart!Peer(p)][k - UartGot(p)']
          ELSE Uart!Source(Uart!Peer(p))'[k]
    BY DEF UartByte
  <2>3. Uart!Source(Uart!Peer(p))' = Uart!Source(Uart!Peer(p))
    BY <1>1 DEF Uart!Source
  <2>4. Len(wire'[s]) = w - 1
    BY <1>2, <1>w
  <2>5. UartByte(p, k)' = IF k <= n THEN rx[p][k]
                          ELSE IF k <= n + 1 THEN b
                          ELSE IF k <= n + 1 + (w - 1) THEN wire'[s][k - (n + 1)]
                          ELSE Uart!Source(s)[k]
    BY <1>1, <1>p, <1>n, <1>4, <2>2, <2>3, <2>4
  <2> QED
    BY <2>1, <2>5
<1>6. UartByte(p, n + 1) = Head(wire[s]) /\ UartByte(p, n + 1)' = b
  <2>1. ~(n + 1 <= n) /\ n + 1 <= n + w /\ n + 1 - n = 1 /\ n + 1 <= n + 1
    BY <1>w
  <2> QED
    BY <1>2, <1>3, <1>5, <2>1
<1>7. ASSUME NEW k \in 1..Len(msg), k # n + 1 PROVE UartByte(p, k)' = UartByte(p, k)
  <2>k. k \in Int
    OBVIOUS
  <2>1. CASE k <= n
    BY <1>5, <2>1
  <2>2. CASE k > n + 1 /\ k <= n + w
    <3>1. /\ ~(k <= n) /\ ~(k <= n + 1) /\ k <= n + w /\ k <= n + 1 + (w - 1)
          /\ k - (n + 1) \in 1..w - 1 /\ (k - (n + 1)) + 1 = k - n
      BY <1>w, <2>k, <2>2, SMTT(40)
    <3>2. wire'[s][k - (n + 1)] = wire[s][k - n]
      BY <1>2, <3>1
    <3> QED
      BY <1>5, <3>1, <3>2
  <2>3. CASE k > n + w
    <3>1. ~(k <= n) /\ ~(k <= n + 1) /\ ~(k <= n + w) /\ ~(k <= n + 1 + (w - 1))
      BY <1>w, <2>k, <2>3
    <3> QED
      BY <1>5, <3>1
  <2> QED
    BY <1>7, <2>k, <2>1, <2>2, <2>3
<1>8. UartSame(p) <=> \A k \in 1..Len(msg) : UartByte(p, k) = msg[k]
  BY DEF UartSame
<1>9. UartSame(p)' <=> \A k \in 1..Len(msg) : UartByte(p, k)' = msg[k]
  BY <1>1 DEF UartSame
<1> HIDE DEF UartSame, UartByte
<1>10. ASSUME b = Head(wire[s]) PROVE UartSame(p)' <=> UartSame(p)
  BY <1>6, <1>7, <1>8, <1>9, <1>10
<1>11. ASSUME b # Head(wire[s]), UartSame(p), UartSame(p)' PROVE FALSE
  BY <1>3, <1>6, <1>8, <1>9, <1>11
<1> QED
  BY <1>p, <1>10, <1>11

LEMMA UartArrival ==
  ASSUME UartInv, NEW p \in Uart!Ports, Uart!Shift(p),
         NEW b \in Bytes, NEW flags \in SUBSET {"FE"}, Uart!Receive(p, b, flags),
         NEW sent, sent = Head(wire[Uart!Peer(p)]),
         damaged' = IF sent # b /\ damaged < 2 THEN damaged + 1 ELSE damaged,
         since' = since, UartGlitched' <=> UartGlitched, UartLossy => UartLossy',
         flags # {} => UartLossy',
         \/ Len(faults') = Len(faults) /\ faults' = faults /\ b = sent /\ flags = {}
         \/ Len(faults') = Len(faults) + 1 /\ ~UartGlitched
  PROVE  UartRest'
<1> USE DEF Uart!testVars, Uart!mainVars, Uart!txVars, Uart!rxVars, Uart!dmaVars, Uart!history,
            Uart!Ports, Uart!huart4, Uart!huart5
<1>0. UartReceivers /\ UartBalance /\ UartSenders /\ UartProgress /\ UartTexts /\ Uart!TypeOK
  BY DEF UartInv
<1>1. UNCHANGED <<pc, msg, verdict>>
  BY DEF Uart!Shift
<1>n. NoByte = Uart!NoByte /\ b # NoByte
  BY PeripheralAssumption DEF NoByte, Uart!NoByte
<1>2. /\ uart_RDR[p] = NoByte => uart_RDR'[p] = b /\ errors'[p] = errors[p] \cup flags
      /\ uart_RDR[p] # NoByte => uart_RDR'[p] = uart_RDR[p] /\ errors'[p] = errors[p] \cup {"ORE"}
      /\ \A q \in Uart!Ports \ {p} : uart_RDR'[q] = uart_RDR[q] /\ errors'[q] = errors[q]
  BY <1>0, <1>n DEF Uart!Receive, Uart!TypeOK
<1>3. /\ UartReceivers' /\ UartSenders' /\ UartProgress'
      /\ \A q \in Uart!Ports :
           /\ UartArmed(q)' <=> UartArmed(q)
           /\ UartAborted(q)' <=> UartAborted(q)
           /\ UartReceiving(q)' <=> UartReceiving(q)
      /\ \A q \in Uart!Ports \ {p} :
           /\ UartSurplus(q)' = UartSurplus(q)
           /\ \A k \in 1..Len(msg) : UartByte(q, k)' = UartByte(q, k)
      /\ UartSurplus(p)' = UartSurplus(p) - 1 + UartHeld(p)' - UartHeld(p)
  BY <1>2, UartShifted
<1>4. /\ uart_RDR[p] # NoByte => ~UartGlitched /\ UartStuck(p) /\ UartAborted(p)
      /\ ~UartGlitched =>
           /\ UartArmed(p) /\ pc = IF p = Uart!huart4 THEN "wait4" ELSE "wait5"
           /\ UartStuck(p) \/ (UartReceiving(p) /\ UartSurplus(p) = 0)
  BY UartOverrun
<1>5. \A q \in Uart!Ports : UartSurplus(q) \in Int
  BY UartFacts
<1>6. /\ uart_RDR[p] = NoByte => UartSurplus(p)' = UartSurplus(p)
      /\ UartSurplus(p)' <= UartSurplus(p)
  <2>1. CASE uart_RDR[p] = NoByte
    <3>1. UartHeld(p) = 0 /\ UartHeld(p)' = 1
      BY <1>2, <1>n, <2>1 DEF UartHeld
    <3> QED
      BY <1>3, <1>5, <3>1
  <2>2. CASE uart_RDR[p] # NoByte
    <3>1. UartHeld(p) = 1 /\ UartHeld(p)' = 1
      BY <1>2, <2>2 DEF UartHeld
    <3> QED
      BY <1>3, <1>5, <2>2, <3>1
  <2> QED
    BY <2>1, <2>2
<1>7. \A q \in Uart!Ports : UartStuck(q) => UartStuck(q)'
  <2>1. ASSUME NEW q \in Uart!Ports, UartStuck(q) PROVE UartStuck(q)'
    <3>1. UartSurplus(q) < 0 => UartSurplus(q)' < 0
      <4>1. CASE q = p
        <5>1. UartSurplus(p)' \in Int
          <6>1. UartHeld(p) \in Int /\ UartHeld(p)' \in Int
            BY DEF UartHeld
          <6> QED
            BY <1>3, <1>5, <6>1
        <5> QED
          BY <1>5, <1>6, <4>1, <5>1
      <4>2. CASE q # p
        BY <1>3, <4>2
      <4> QED
        BY <4>1, <4>2
    <3> QED
      BY <1>3, <2>1, <3>1 DEF UartStuck
  <2> QED
    BY <2>1
<1>8. UartBalance'
  <2>1. CASE UartGlitched
    <3>1. /\ faults' = faults /\ b = sent /\ flags = {} /\ uart_RDR[p] = NoByte
      BY <1>4, <2>1
    <3>2. damaged' = damaged
      BY <3>1
    <3>3. \A q \in Uart!Ports : errors'[q] = errors[q] /\ UartSurplus(q)' = UartSurplus(q)
      BY <1>2, <1>3, <1>6, <3>1
    <3> QED
      BY <1>0, <2>1, <3>1, <3>2, <3>3 DEF UartBalance
  <2>2. CASE ~UartGlitched
    <3>1. \A q \in Uart!Ports : UartSurplus(q)' = 0 \/ UartStuck(q)'
      BY <1>0, <1>3, <1>4, <1>6, <1>7, <2>2 DEF UartBalance
    <3>2. \A q \in Uart!Ports : errors'[q] # {} => UartLossy'
      BY <1>0, <1>2, <1>4 DEF UartBalance, UartStuck
    <3>3. \A q \in Uart!Ports : "ORE" \in errors'[q] => UartArmed(q) /\ UartAborted(q)
      BY <1>0, <1>2, <1>4 DEF UartBalance, UartStuck
    <3> QED
      BY <1>3, <2>2, <3>1, <3>2, <3>3 DEF UartBalance
  <2> QED
    BY <2>1, <2>2
<1>9. damaged \in 0..2 /\ Len(faults) \in Nat /\ since \in 0..Len(faults)
  BY UartFacts
<1>10. UartTexts'
  <2>1. CASE UartGlitched
    <3>1. damaged' = damaged /\ faults' = faults
      BY <1>4, <2>1
    <3> QED
      BY <1>0, <1>1, <2>1, <3>1 DEF UartTexts, OwnFault
  <2>2. CASE ~UartGlitched
    <3>1. pc = IF p = Uart!huart4 THEN "wait4" ELSE "wait5"
      BY <1>4, <2>2
    <3>2. damaged' > 0 => OwnFault'
      <4>1. CASE faults' = faults /\ b = sent
        BY <1>0, <4>1 DEF UartTexts, OwnFault
      <4>2. CASE Len(faults') = Len(faults) + 1
        BY <1>9, <4>2 DEF OwnFault
      <4> QED
        BY <4>1, <4>2
    <3>3. verdict' \notin {"pass", "fail"}
      BY <1>0, <1>1, <3>1 DEF UartTexts
    <3>4. ASSUME ~UartStuck(p)' PROVE UartTold(p)'
      <4>1. ~UartStuck(p)
        BY <1>7, <3>4
      <4>2. UartReceiving(p) /\ uart_RDR[p] = NoByte /\ uart_RDR'[p] = b
        BY <1>2, <1>4, <2>2, <4>1
      <4>3. UartTold(p)
        BY <1>0, <2>2, <3>1, <4>1 DEF UartTexts
      <4>4. /\ b = sent => (UartSame(p)' <=> UartSame(p))
            /\ b # sent => ~(UartSame(p) /\ UartSame(p)')
        BY <1>n, <4>2, UartText
      <4>5. damaged' # 0 \/ damaged = 0
        BY <1>9
      <4>6. CASE b = sent
        BY <4>3, <4>4, <4>6 DEF UartTold
      <4>7. CASE b # sent
        <5>1. damaged' # 0
          BY <1>9, <4>7
        <5>2. damaged' = 1 => damaged = 0
          BY <1>9, <4>7
        <5> QED
          BY <4>3, <4>4, <4>7, <5>1, <5>2 DEF UartTold
      <4> QED
        BY <4>6, <4>7
    <3>5. CASE p = Uart!huart4
      BY <1>1, <3>1, <3>2, <3>3, <3>4, <3>5 DEF UartTexts
    <3>6. CASE p = Uart!huart5
      BY <1>1, <3>1, <3>2, <3>3, <3>4, <3>6 DEF UartTexts
    <3> QED
      BY <3>5, <3>6
  <2> QED
    BY <2>1, <2>2
<1> QED
  BY <1>3, <1>8, <1>10 DEF UartRest

LEMMA UartLose ==
  ASSUME UartInv, NEW p \in Uart!Ports, Uart!Lose(p)
  PROVE  UartRest'
<1> USE DEF Uart!testVars, Uart!mainVars, Uart!txVars, Uart!rxVars, Uart!dmaVars, Uart!history,
            Uart!Ports, Uart!huart4, Uart!huart5
<1>0. UartReceivers /\ UartBalance /\ UartSenders /\ UartProgress /\ UartTexts /\ Uart!TypeOK
  BY DEF UartInv
<1>1. Uart!Shift(p) /\ Uart!Fault("lose") /\ UNCHANGED <<uart_RDR, errors, damaged, pc, msg, verdict>>
  BY DEF Uart!Lose, Uart!Shift
<1>2. /\ ~UartGlitched /\ ~UartGlitched' /\ UartLossy' /\ since' = since
      /\ Len(faults') = Len(faults) + 1
  BY <1>1, UartFault
<1>3. /\ UartReceivers' /\ UartSenders' /\ UartProgress'
      /\ \A q \in Uart!Ports :
           /\ UartArmed(q)' <=> UartArmed(q)
           /\ UartAborted(q)' <=> UartAborted(q)
           /\ UartReceiving(q)' <=> UartReceiving(q)
      /\ \A q \in Uart!Ports \ {p} : UartSurplus(q)' = UartSurplus(q)
      /\ UartSurplus(p)' = UartSurplus(p) - 1 + UartHeld(p)' - UartHeld(p)
  BY <1>1, <1>2, UartShifted
<1>4. /\ UartArmed(p) /\ pc = IF p = Uart!huart4 THEN "wait4" ELSE "wait5"
      /\ UartStuck(p) \/ (UartReceiving(p) /\ UartSurplus(p) = 0)
  BY <1>1, <1>2, UartOverrun
<1>5. UartStuck(p)'
  <2>1. UartAborted(p) \/ (UartReceiving(p) /\ UartSurplus(p) <= 0)
    <3>1. UartSurplus(p) \in Int
      BY UartFacts
    <3> QED
      BY <1>4, <3>1 DEF UartStuck
  <2>2. UartSurplus(p)' = UartSurplus(p) - 1 /\ UartSurplus(p) \in Int
    <3>1. UartHeld(p)' = UartHeld(p) /\ UartHeld(p) \in Int /\ UartSurplus(p) \in Int
      BY <1>1, UartFacts, SMTT(40) DEF UartHeld
    <3> QED
      BY <1>3, <3>1
  <2>3. UartSurplus(p) <= 0 => UartSurplus(p)' < 0
    BY <2>2
  <2> QED
    BY <1>2, <1>3, <1>4, <2>1, <2>3 DEF UartStuck
<1>6. \A q \in Uart!Ports \ {p} : UartStuck(q) => UartStuck(q)'
  BY <1>2, <1>3 DEF UartStuck
<1>7. UartBalance'
  BY <1>0, <1>1, <1>2, <1>3, <1>5, <1>6 DEF UartBalance
<1>8. Len(faults) \in Nat /\ since \in 0..Len(faults) /\ damaged \in 0..2
  BY UartFacts
<1>9. UartTexts'
  <2>1. OwnFault'
    BY <1>2, <1>8 DEF OwnFault
  <2>2. verdict' \notin {"pass", "fail"}
    BY <1>0, <1>1, <1>4 DEF UartTexts
  <2>3. CASE p = Uart!huart4
    BY <1>1, <1>4, <1>5, <2>1, <2>2, <2>3 DEF UartTexts
  <2>4. CASE p = Uart!huart5
    BY <1>1, <1>4, <1>5, <2>1, <2>2, <2>4 DEF UartTexts
  <2> QED
    BY <2>3, <2>4
<1> QED
  BY <1>3, <1>7, <1>9 DEF UartRest

(* A byte arrives: as it was sent, changed without notice, or with an error*)
(* that the receiver notices.                                              *)
LEMMA UartArrives ==
  ASSUME UartInv, NEW p \in Uart!Ports,
         Uart!Arrive(p) \/ Uart!ArriveFlipped(p) \/ Uart!ArriveWithError(p)
  PROVE  UartRest'
<1>1. Uart!Shift(p)
  BY DEF Uart!Arrive, Uart!ArriveFlipped, Uart!ArriveWithError
<1>2. PICK sent \in Bytes : sent = Head(wire[Uart!Peer(p)])
  <2>1. wire[Uart!Peer(p)] \in Seq(Bytes) /\ wire[Uart!Peer(p)] # << >>
    BY <1>1, UartPorts, UartFacts DEF Uart!Shift
  <2> QED
    BY <2>1
<1>3. CASE Uart!Arrive(p)
  <2>1. Uart!Receive(p, sent, {}) /\ UNCHANGED <<damaged, faults, since>>
    BY <1>2, <1>3 DEF Uart!Arrive, Uart!history
  <2>2. /\ UartGlitched' <=> UartGlitched
        /\ UartLossy' <=> UartLossy
    BY <2>1 DEF UartGlitched, UartLossy, Happened
  <2>3. {} \in SUBSET {"FE"}
    OBVIOUS
  <2> QED
    BY <1>1, <1>2, <2>1, <2>2, <2>3, UartArrival
<1>4. CASE Uart!ArriveFlipped(p)
  <2>1. PICK b \in Bytes : Uart!Receive(p, b, {}) /\ Uart!Damage(sent, b)
    BY <1>2, <1>4 DEF Uart!ArriveFlipped
  <2>2. Uart!Fault("flip")
    BY <1>4 DEF Uart!ArriveFlipped
  <2>3. /\ ~UartGlitched /\ ~UartGlitched' /\ since' = since
        /\ Len(faults') = Len(faults) + 1
        /\ UartLossy => UartLossy'
    BY <2>2, UartFault
  <2>4. damaged' = IF sent # b /\ damaged < 2 THEN damaged + 1 ELSE damaged
    BY <2>1 DEF Uart!Damage
  <2>5. {} \in SUBSET {"FE"}
    OBVIOUS
  <2> QED
    BY <1>1, <1>2, <2>1, <2>3, <2>4, <2>5, UartArrival
<1>5. CASE Uart!ArriveWithError(p)
  <2>1. PICK b \in Bytes : Uart!Receive(p, b, {"FE"}) /\ Uart!Damage(sent, b)
    BY <1>2, <1>5 DEF Uart!ArriveWithError
  <2>2. Uart!Fault("error")
    BY <1>5 DEF Uart!ArriveWithError
  <2>3. /\ ~UartGlitched /\ ~UartGlitched' /\ since' = since
        /\ Len(faults') = Len(faults) + 1 /\ UartLossy'
    BY <2>2, UartFault
  <2>4. damaged' = IF sent # b /\ damaged < 2 THEN damaged + 1 ELSE damaged
    BY <2>1 DEF Uart!Damage
  <2>5. {"FE"} \in SUBSET {"FE"}
    OBVIOUS
  <2> QED
    BY <1>1, <1>2, <2>1, <2>3, <2>4, <2>5, UartArrival
<1> QED
  BY <1>3, <1>4, <1>5

(* A byte that nobody has sent comes first of all faults, and to a receiver*)
(* that holds none.                                                        *)
LEMMA UartGlitch ==
  ASSUME UartInv, NEW p \in Uart!Ports, Uart!Glitch(p)
  PROVE  UartRest'
<1> USE DEF Uart!testVars, Uart!mainVars, Uart!txVars, Uart!rxVars, Uart!dmaVars, Uart!history,
            Uart!Ports, Uart!huart4, Uart!huart5
<1>0. UartReceivers /\ UartBalance /\ UartSenders /\ UartProgress /\ UartTexts /\ Uart!TypeOK
  BY DEF UartInv
<1>p. PICK s \in Uart!Ports : s = Uart!Peer(p) /\ s # p /\ \A q \in Uart!Ports : q = s \/ q = p
  BY DEF Uart!Peer
<1>1. /\ Uart!Settled /\ wire[s] = << >> /\ Uart!Fault("glitch")
      /\ UNCHANGED <<pc, msg, verdict, uart_rx_done, rx, RxState, EIE, DMAR, uart_NDTR, uart_TCIF,
                     gState, TxXferCount, wire, damaged>>
  BY <1>p DEF Uart!Glitch
<1>2. /\ ~UartGlitched /\ UartGlitched' /\ since' = since
      /\ faults = << >> /\ faults' = <<"glitch">> /\ ~UartLossy
  BY <1>1, UartFault DEF UartLossy, Happened
<1>3. \A q \in Uart!Ports : ~UartStuck(q) /\ UartSurplus(q) = 0 /\ errors[q] = {}
  BY <1>0, <1>2 DEF UartBalance, UartStuck
<1>n. NoByte = Uart!NoByte
  BY DEF NoByte, Uart!NoByte
<1>h. \A q \in Uart!Ports : UartHeld(q) = IF uart_RDR[q] = NoByte THEN 0 ELSE 1
  BY DEF UartHeld
<1>4. TxXferCount[s] = 0 /\ Len(wire[s]) = 0
  <2>1. TxXferCount[s] \in Nat /\ gState[s] \in {"READY", "BUSY"}
    BY <1>0, UartFacts DEF Uart!TypeOK
  <2>2. ~Uart!TransmitPending(s) /\ Len(wire[s]) = 0
    BY <1>1 DEF Uart!Settled
  <2> QED
    BY <1>0, <2>1, <2>2 DEF UartSenders, Uart!TransmitPending, Uart!MoreToSend
<1>5. uart_RDR[p] = NoByte
  <2>1. ASSUME uart_RDR[p] # NoByte PROVE FALSE
    <3>n. PICK n \in Nat : n = uart_NDTR[p]
      BY UartFacts
    <3>l. PICK l \in Nat : l = Len(msg)
      BY UartFacts
    <3>1. 1 + (IF UartAsked(p) THEN l ELSE 0) - n = 0
      <4>1. UartComing(p) = 1
        BY <1>p, <1>4, <1>h, <2>1 DEF UartComing
      <4> QED
        BY <1>3, <3>n, <3>l, <4>1 DEF UartSurplus
    <3>2. n > 0
      BY <3>1
    <3>3. UartReceiving(p) /\ UartArmed(p)
      BY <1>0, <1>2, <3>2, <3>n DEF UartReceivers, UartStored, UartReceived, UartAborted, UartOff
    <3>4. ~Uart!DmaRequest(p)
      BY <1>1 DEF Uart!Settled
    <3>5. UartAsked(p)
      <4>1. ~DMAR[p]
        BY <1>n, <2>1, <3>n, <3>2, <3>4 DEF Uart!DmaRequest
      <4>2. pc \in {"dmar4", "dmar5"}
        BY <3>3, <4>1 DEF UartReceiving, UartOn
      <4> QED
        BY <3>3, <4>2 DEF UartArmed, UartAsked
    <3>6. n <= l
      <4>1. Len(rx[p]) + n = l /\ Len(rx[p]) \in Nat
        <5>1. rx[p] \in Seq(Bytes)
          BY UartFacts
        <5> QED
          BY <3>3, <3>n, <3>l, <5>1 DEF UartReceiving
      <4> QED
        BY <4>1
    <3> QED
      BY <3>1, <3>5, <3>6
  <2> QED
    BY <2>1
<1>6. PICK b \in Bytes : uart_RDR' = [uart_RDR EXCEPT ![p] = b] /\ errors' = [errors EXCEPT ![p] = errors[p] \cup {}]
  BY <1>5, <1>n DEF Uart!Glitch, Uart!Receive
<1>7. /\ b # NoByte /\ uart_RDR'[p] = b
      /\ \A q \in Uart!Ports \ {p} : uart_RDR'[q] = uart_RDR[q]
      /\ \A q \in Uart!Ports : errors'[q] = {}
  BY <1>0, <1>3, <1>6, PeripheralAssumption, SMTT(40) DEF Uart!TypeOK, NoByte
<1>8. \A q \in Uart!Ports :
        UartSurplus(q)' = IF q = p THEN 1 ELSE 0
  <2>1. ASSUME NEW q \in Uart!Ports
        PROVE  UartSurplus(q)' = UartSurplus(q) + UartHeld(q)' - UartHeld(q)
    <3>t. PICK t \in Nat : t = TxXferCount[Uart!Peer(q)]
      BY UartPorts, UartFacts
    <3>w. PICK w \in Nat : w = Len(wire[Uart!Peer(q)])
      <4>1. wire[Uart!Peer(q)] \in Seq(Bytes)
        BY UartPorts, UartFacts
      <4> QED
        BY <4>1
    <3>n. PICK n \in Nat : n = uart_NDTR[q]
      BY UartFacts
    <3>a. PICK a \in Nat : a = IF UartAsked(q) THEN Len(msg) ELSE 0
      BY UartFacts
    <3>1. UartSurplus(q) = t + w + UartHeld(q) + a - n
      BY <3>t, <3>w, <3>n, <3>a DEF UartSurplus, UartComing
    <3>2. UartSurplus(q)' = t + w + UartHeld(q)' + a - n
      <4>1. a = IF UartAsked(q)' THEN Len(msg') ELSE 0
        BY <1>1, <3>a DEF UartAsked
      <4>2. UartSurplus(q)' = TxXferCount'[Uart!Peer(q)] + Len(wire'[Uart!Peer(q)]) + UartHeld(q)'
                              + (IF UartAsked(q)' THEN Len(msg') ELSE 0) - uart_NDTR'[q]
        BY DEF UartSurplus, UartComing
      <4> QED
        BY <1>1, <3>t, <3>w, <3>n, <4>1, <4>2
    <3>h. UartHeld(q) \in Nat /\ UartHeld(q)' \in Nat
      BY DEF UartHeld
    <3> QED
      BY <3>1, <3>2, <3>h
  <2>2. UartHeld(p) = 0 /\ UartHeld(p)' = 1
    BY <1>5, <1>7 DEF UartHeld
  <2>3. \A q \in Uart!Ports \ {p} : UartHeld(q)' = UartHeld(q) /\ UartHeld(q) \in Nat
    BY <1>7 DEF UartHeld
  <2>4. ASSUME NEW q \in Uart!Ports PROVE UartSurplus(q)' = IF q = p THEN 1 ELSE 0
    <3>1. UartSurplus(q) = 0 /\ UartSurplus(q)' = UartSurplus(q) + UartHeld(q)' - UartHeld(q)
      BY <1>3, <2>1
    <3>2. CASE q = p
      <4>1. UartHeld(q) = 0 /\ UartHeld(q)' = 1
        BY <2>2, <3>2
      <4> QED
        BY <3>1, <3>2, <4>1
    <3>3. CASE q # p
      <4>1. UartHeld(q)' = UartHeld(q) /\ UartHeld(q) \in Nat
        BY <2>3, <3>3
      <4> QED
        BY <3>1, <3>3, <4>1
    <3> QED
      BY <3>2, <3>3
  <2> QED
    BY <2>4
<1>9. damaged = 0 /\ OwnFault'
  <2>1. Len(faults) = 0 /\ since = 0 /\ damaged \in 0..2 /\ Len(faults') = 1
    BY <1>2, UartFacts
  <2> QED
    BY <1>0, <1>2, <2>1 DEF UartTexts, OwnFault
<1>10. UartReceivers'
  <2>1. \A q \in Uart!Ports :
          /\ UartArmed(q)' <=> UartArmed(q)
          /\ UartOff(q)' <=> UartOff(q)
          /\ UartOn(q)' <=> UartOn(q)
    BY <1>1 DEF UartArmed, UartOff, UartOn
  <2>2. /\ uart_rx_done' = uart_rx_done /\ rx' = rx /\ uart_NDTR' = uart_NDTR
        /\ uart_TCIF' = uart_TCIF /\ DMAR' = DMAR /\ msg' = msg
    BY <1>1
  <2>3. \A q \in Uart!Ports : UartReceiving(q)' <=> UartReceiving(q)
    BY <2>1, <2>2 DEF UartReceiving
  <2>4. \A q \in Uart!Ports : UartStored(q)' <=> UartStored(q)
    BY <2>1, <2>2 DEF UartStored
  <2>5. \A q \in Uart!Ports : UartReceived(q)' <=> UartReceived(q)
    BY <2>1, <2>2 DEF UartReceived
  <2> QED
    BY <1>0, <1>1, <1>2, <2>1, <2>3, <2>4, <2>5 DEF UartReceivers
<1>11. UartBalance'
  <2>1. \A q \in Uart!Ports : errors'[q] = {} /\ UartSurplus(q)' >= 0
    <3>1. \A q \in Uart!Ports : UartSurplus(q)' \in {0, 1}
      BY <1>8
    <3> QED
      BY <1>7, <3>1
  <2>2. UartSurplus(Uart!huart4)' + UartSurplus(Uart!huart5)' = 1
    BY <1>8
  <2>3. \A q \in Uart!Ports : errors'[q] = {}
    BY <1>7
  <2> QED
    BY <1>1, <1>2, <1>9, <2>1, <2>2, <2>3 DEF UartBalance
<1>12. UartSenders'
  <2>1. \A q \in Uart!Ports : Uart!TransmitComplete(q)' <=> Uart!TransmitComplete(q)
    BY <1>1 DEF Uart!TransmitComplete
  <2> QED
    BY <1>0, <1>1, <1>2, <2>1 DEF UartSenders
<1>13. UartProgress'
  BY <1>0, <1>1 DEF UartProgress
<1>14. UartTexts'
  BY <1>0, <1>1, <1>2, <1>9 DEF UartTexts
<1> QED
  BY <1>10, <1>11, <1>12, <1>13, <1>14 DEF UartRest

LEMMA UartStep == UartInv /\ [Uart!Next]_(Uart!vars) => UartInv'
<1> SUFFICES ASSUME UartInv, [Uart!Next]_(Uart!vars) PROVE UartInv'
  OBVIOUS
<1>1. CASE UNCHANGED Uart!vars
  BY <1>1, UartTypes, UartStutter DEF UartInv, UartRest
<1>2. CASE Uart!Next
  <2>1. UartRest'
    <3>1. CASE Uart!Begin
      BY <3>1, UartBegin
    <3>2. CASE Uart!MainStep
      <4>1. Uart!huart4 \in Uart!Ports /\ Uart!huart5 \in Uart!Ports
        BY DEF Uart!Ports
      <4>2. ASSUME NEW p \in Uart!Ports, NEW here, NEW next,
                   <<p, here, next>> \in {<<Uart!huart5, "start", "dmar5">>, <<Uart!huart4, "receive4", "dmar4">>},
                   Uart!ReceiveDMA(p, here, next)
            PROVE  UartRest'
        BY <4>2, UartReceiveDMA
      <4>3. ASSUME NEW p \in Uart!Ports, NEW here, NEW next,
                   <<p, here, next>> \in {<<Uart!huart5, "dmar5", "transmit4">>, <<Uart!huart4, "dmar4", "transmit5">>},
                   Uart!EnableDMAR(p, here, next)
            PROVE  UartRest'
        BY <4>3, UartEnableDMAR
      <4>4. ASSUME NEW p \in Uart!Ports, NEW here, NEW next,
                   <<p, here, next>> \in {<<Uart!huart4, "transmit4", "wait5">>, <<Uart!huart5, "transmit5", "wait4">>},
                   Uart!TransmitIT(p, here, next)
            PROVE  UartRest'
        BY <4>4, UartTransmitIT
      <4>5. ASSUME NEW p \in Uart!Ports, NEW here, NEW next,
                   <<p, here, next>> \in {<<Uart!huart5, "wait5", "receive4">>, <<Uart!huart4, "wait4", "crc">>},
                   Uart!WaitRxDone(p, here, next)
            PROVE  UartRest'
        BY <4>5, UartWaitRxDone
      <4> QED
        BY <3>2, <4>1, <4>2, <4>3, <4>4, <4>5, UartMatchCRC DEF Uart!MainStep, Uart!UART_Test_Perform
    <3>3. CASE Uart!IrqStep
      BY <3>3, UartReceiveCplt, UartReceiveError, UartTransmitByte, UartEndTransmit
         DEF Uart!IrqStep, Uart!Handlers
    <3>4. CASE Uart!DmaStep
      BY <3>4, UartDmaTransfer DEF Uart!DmaStep
    <3>5. CASE Uart!WireStep
      BY <3>5, UartArrives, UartLose, UartGlitch DEF Uart!WireStep, Uart!Line
    <3> QED
      BY <1>2, <3>1, <3>2, <3>3, <3>4, <3>5 DEF Uart!Next
  <2> QED
    BY <1>2, <2>1, UartTypes DEF UartInv, UartRest
<1> QED
  BY <1>1, <1>2

(* While the UARTs are tested, their invariant holds.                      *)
LEMMA UartHolds == Spec => [](device = "UART" => UartInv)
<1>1. Init => (device = "UART" => UartInv)
  BY UartInit DEF Init
<1>2. (device = "UART" => UartInv) /\ [Next]_vars => (device = "UART" => UartInv)'
  <2> SUFFICES ASSUME device = "UART" => UartInv, [Next]_vars, device' = "UART" PROVE UartInv'
    OBVIOUS
  <2>1. device = "UART"
    BY DEF Next, Begin, MainStep, IrqStep, DmaStep, WireStep, Only, vars
  <2>2. [Uart!Next]_(Uart!vars)
    BY <2>1 DEF Next, Begin, MainStep, IrqStep, DmaStep, WireStep, Only, Uart!Next,
                vars, testVars, history, uartVars, Uart!vars, Uart!testVars, Uart!history,
                Uart!txVars, Uart!rxVars, Uart!dmaVars
  <2> QED
    BY <2>1, <2>2, UartStep
<1> QED
  BY <1>1, <1>2, PTL DEF Spec

(* A UART test that has returned has left no reception armed and no DMA    *)
(* stream enabled, and no byte on a line or unread unless a glitch has     *)
(* brought one too many: nothing can write to the frame it has left.       *)
THEOREM UartLeftClean == Spec => []UartClean
<1>1. (device = "UART" => UartInv) => UartClean
  <2> SUFFICES ASSUME UartInv, pc = "idle", NEW p \in Uart!Ports
               PROVE  /\ RxState[p] = "READY" /\ Uart!DmaReady(p) /\ ~DMAR[p]
                      /\ Uart!Lingering \/ (wire[p] = << >> /\ uart_RDR[p] = Uart!NoByte)
    BY DEF UartClean, Uart!CleanBetweenTests
  <2>1. UartOff(p) /\ \A q \in Uart!Ports : ~UartArmed(q)
    BY DEF UartInv, UartReceivers, UartArmed
  <2>2. ASSUME ~UartGlitched PROVE wire[p] = << >> /\ uart_RDR[p] = Uart!NoByte
    <3>1. \A q \in Uart!Ports :
            /\ uart_NDTR[q] = 0 /\ UartSurplus(q) = 0 /\ ~UartAsked(q)
            /\ TxXferCount[Uart!Peer(q)] \in Nat /\ wire[Uart!Peer(q)] \in Seq(Bytes)
      <4>1. \A q \in Uart!Ports : uart_NDTR[q] = 0 /\ UartSurplus(q) = 0 /\ ~UartAsked(q)
        BY <2>1, <2>2 DEF UartInv, UartReceivers, UartBalance, UartStuck, UartAsked, UartOff
      <4> QED
        BY <4>1, UartPorts, UartFacts
    <3>2. \A q \in Uart!Ports : UartComing(q) = 0
      <4>1. \A q \in Uart!Ports : UartComing(q) \in Nat
        BY UartFacts
      <4> QED
        BY <3>1, <4>1 DEF UartSurplus
    <3>3. \A q \in Uart!Ports : Len(wire[Uart!Peer(q)]) = 0 /\ UartHeld(q) = 0
      <4> TAKE q \in Uart!Ports
      <4>1. UartHeld(q) \in Nat /\ TxXferCount[Uart!Peer(q)] \in Nat /\ Len(wire[Uart!Peer(q)]) \in Nat
        BY <3>1 DEF UartHeld
      <4> QED
        BY <3>2, <4>1 DEF UartComing
    <3>4. Uart!Peer(p) \in Uart!Ports /\ p = Uart!Peer(Uart!Peer(p))
      BY DEF Uart!Ports, Uart!Peer, Uart!huart4, Uart!huart5
    <3>5. wire[p] \in Seq(Bytes) /\ Len(wire[p]) = 0
      BY <3>3, <3>4, UartFacts
    <3> QED
      BY <3>3, <3>5 DEF UartHeld, NoByte, Uart!NoByte
  <2>3. UartGlitched => Uart!Lingering
    BY DEF UartGlitched, Uart!Lingering, Happened, Uart!Happened
  <2> QED
    BY <2>1, <2>2, <2>3 DEF UartOff, Uart!DmaReady
<1> QED
  BY <1>1, UartHolds, PTL

(* HAL_UART_Receive_DMA and HAL_UART_Transmit_IT find their handle ready   *)
(* whenever the test calls them, although it never awaits the end of a     *)
(* transmission and a glitch makes one outlive its test: they refuse the   *)
(* empty message only.                                                     *)
THEOREM UartIsNeverBusy == Spec => []UartNeverBusy
<1>1. (device = "UART" => UartInv) => UartNeverBusy
  <2> SUFFICES ASSUME UartInv, msg # << >>
               PROVE  /\ pc = "start" => Uart!CanReceive(Uart!huart5)
                      /\ pc = "transmit4" => Uart!CanTransmit(Uart!huart4)
                      /\ pc = "receive4" => Uart!CanReceive(Uart!huart4)
                      /\ pc = "transmit5" => Uart!CanTransmit(Uart!huart5)
    BY DEF UartNeverBusy, Uart!NeverBusy
  <2> USE DEF Uart!Ports, Uart!huart4, Uart!huart5
  <2>1. pc \in {"start", "receive4"} => UartOff(Uart!huart4) /\ UartOff(Uart!huart5)
    BY DEF UartInv, UartReceivers, UartArmed
  <2>2. /\ pc = "transmit4" => gState[Uart!huart4] = "READY"
        /\ pc = "transmit5" => gState[Uart!huart5] = "READY"
    BY DEF UartInv, UartSenders
  <2> QED
    BY <2>1, <2>2 DEF UartOff, Uart!CanReceive, Uart!CanTransmit, Uart!DmaReady
<1> QED
  BY <1>1, UartHolds, PTL

(* The test compares uart4_rx, and huart5 sends back uart5_rx, only when   *)
(* the DMA has written all of it in this test: nothing of the stack is     *)
(* ever read as if it had been received (but for what a glitch leaves).    *)
THEOREM UartReadsWhatItGot == Spec => []UartNothingUnwrittenRead
<1>1. (device = "UART" => UartInv) => UartNothingUnwrittenRead
  <2> SUFFICES ASSUME UartInv
               PROVE  /\ pc = "crc" => Len(rx[Uart!huart4]) = Len(msg)
                      /\ TxXferCount[Uart!huart5] > 0 /\ ~Uart!Lingering => Len(rx[Uart!huart5]) = Len(msg)
    BY DEF UartNothingUnwrittenRead, Uart!NothingUnwrittenRead
  <2>1. pc = "crc" => Len(rx[Uart!huart4]) = Len(msg)
    BY DEF UartInv, UartProgress
  <2>2. ASSUME TxXferCount[Uart!huart5] > 0, ~UartGlitched PROVE Len(rx[Uart!huart5]) = Len(msg)
    <3>1. gState[Uart!huart5] = "BUSY"
      BY <2>2, UartPorts DEF UartInv, UartSenders, Uart!TypeOK
    <3>2. pc \in {"receive4", "dmar4", "transmit5", "wait4", "crc", "idle"}
      BY <2>2, <3>1 DEF UartInv, UartSenders, Uart!TypeOK, Uart!Labels
    <3>3. pc # "idle"
      <4>1. ASSUME pc = "idle" PROVE FALSE
        <5>1. UartSurplus(Uart!huart4) = 0 /\ uart_NDTR[Uart!huart4] = 0 /\ ~UartAsked(Uart!huart4)
          BY <2>2, <4>1, UartPorts DEF UartInv, UartReceivers, UartBalance, UartStuck, UartArmed, UartAsked, UartOff
        <5>2. TxXferCount[Uart!huart5] \in Nat /\ wire[Uart!huart5] \in Seq(Bytes) /\ UartHeld(Uart!huart4) \in Nat
          BY UartPorts, UartFacts DEF UartHeld
        <5>3. UartSurplus(Uart!huart4) = TxXferCount[Uart!huart5] + Len(wire[Uart!huart5]) + UartHeld(Uart!huart4) + 0 - 0
          BY <5>1 DEF UartSurplus, UartComing, Uart!Peer
        <5>4. Len(wire[Uart!huart5]) \in Nat
          BY <5>2
        <5> QED
          BY <2>2, <5>1, <5>2, <5>3, <5>4
      <4> QED
        BY <4>1
    <3> QED
      BY <3>2, <3>3 DEF UartInv, UartProgress
  <2>3. UartGlitched => Uart!Lingering
    BY DEF UartGlitched, Uart!Lingering, Happened, Uart!Happened
  <2> QED
    BY <2>1, <2>2, <2>3
<1> QED
  BY <1>1, UartHolds, PTL

-----------------------------------------------------------------------------
(* The five together.                                                      *)
AllInv ==
  /\ device \in Devices
  /\ device = "UART" => UartInv
  /\ device = "SPI" => SpiInv
  /\ device = "I2C" => I2cInv
  /\ device = "TIM" => TimInv
  /\ device = "ADC" => AdcInv

LEMMA DeviceStays == Spec => [](device \in Devices)
<1>1. Init => device \in Devices
  BY DEF Init
<1>2. device \in Devices /\ [Next]_vars => (device \in Devices)'
  BY DEF Next, Begin, MainStep, IrqStep, DmaStep, WireStep, Only, vars
<1> QED
  BY <1>1, <1>2, PTL DEF Spec

LEMMA AllHold == Spec => []AllInv
<1>1. /\ device \in Devices
      /\ device = "UART" => UartInv
      /\ device = "SPI" => SpiInv
      /\ device = "I2C" => I2cInv
      /\ device = "TIM" => TimInv
      /\ device = "ADC" => AdcInv
      => AllInv
  BY DEF AllInv
<1> QED
  BY <1>1, DeviceStays, UartHolds, SpiHolds, I2cHolds, TimHolds, AdcHolds, PTL

(* Whichever peripheral is tested, every variable keeps its type: no FIFO, *)
(* register pair or buffer takes more than it holds, no counter goes below *)
(* zero, and the DMA never writes beyond the length it was given.          *)
THEOREM TypesAreKept == Spec => []TypeOK
<1>1. AllInv => TypeOK
  BY DEF AllInv, TypeOK, UartInv, SpiInv, I2cInv, TimInv, AdcInv
<1> QED
  BY <1>1, AllHold, PTL

(* A test of any peripheral in which exactly one byte, sample or reading   *)
(* was changed on its way does not pass, whatever the handlers, the DMA    *)
(* and the other faults do meanwhile and whatever the tests before it have *)
(* left.                                                                   *)
THEOREM PassIsSound == Spec => []SoundPass
<1>1. AllInv => SoundPass
  <2>1. UartInv => SoundPass
    BY DEF UartInv, UartTexts, SoundPass
  <2>2. SpiInv => SoundPass
    BY DEF SpiInv, SpiTexts, SoundPass
  <2>3. I2cInv => SoundPass
    BY DEF I2cInv, I2cTexts, SoundPass
  <2>4. TimInv => SoundPass
    BY DEF TimInv, TimJudged, SoundPass
  <2>5. AdcInv => SoundPass
    BY DEF AdcInv, AdcValues, SoundPass
  <2> QED
    BY <2>1, <2>2, <2>3, <2>4, <2>5, BenchAssumption DEF AllInv
<1> QED
  BY <1>1, AllHold, PTL

(* A test fails only for the empty message, for a fault in its own time,   *)
(* for the byte that an earlier glitch has left in a UART, or for the      *)
(* slave that a held I2C bus has left armed: no order of handlers and DMA  *)
(* makes it fail on sound wires.                                           *)
THEOREM FailureHasReason == Spec => []NoFalseAlarm
<1>1. AllInv => NoFalseAlarm
  <2>1. UartInv => NoFalseAlarm
    BY DEF UartInv, UartTexts, UartGlitched, NoFalseAlarm, Lingering, Happened
  <2>2. SpiInv => NoFalseAlarm
    BY DEF SpiInv, SpiTexts, NoFalseAlarm
  <2>3. I2cInv => NoFalseAlarm
    <3>1. Happened({"hold"}) => Lingering
      BY DEF Happened, Lingering
    <3> QED
      BY <3>1 DEF I2cInv, I2cTexts, NoFalseAlarm
  <2>4. TimInv => NoFalseAlarm
    BY DEF TimInv, TimJudged, NoFalseAlarm
  <2>5. AdcInv => NoFalseAlarm
    BY DEF AdcInv, AdcValues, NoFalseAlarm
  <2> QED
    BY <2>1, <2>2, <2>3, <2>4, <2>5, BenchAssumption DEF AllInv
<1> QED
  BY <1>1, AllHold, PTL
=============================================================================
