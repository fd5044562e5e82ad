------------------------- MODULE PeripheralInvariants -------------------------
(***************************************************************************)
(* What holds in every state while one peripheral is tested: for each of   *)
(* them an invariant that every step keeps, from which the properties of   *)
(* PeripheralBench follow.                                                 *)
(***************************************************************************)
EXTENDS PeripheralBench

-----------------------------------------------------------------------------
(* ADC: a conversion that was started is under way, stored or announced,   *)
(* one of the three and only while the test waits for it.                  *)
AdcUnderWay  == SWSTART /\ adc_NDTR = 1 /\ ~adc_TCIF /\ ~adc_ready
AdcStored    == ~SWSTART /\ adc_NDTR = 0 /\ adc_TCIF /\ ~adc_ready
AdcAnnounced == ~SWSTART /\ adc_NDTR = 0 /\ ~adc_TCIF /\ adc_ready

(* The value that the test is going to judge.                              *)
AdcValueTold ==
  IF adc_buf = "high" THEN damaged = 0 ELSE damaged = 1 /\ OwnFault

AdcPhases ==
  /\ Adc!CleanBetweenTests
  /\ pc \in {"wait", "spin"} => AdcUnderWay \/ AdcStored \/ AdcAnnounced

AdcValues ==
  /\ pc = "start" \/ SWSTART => damaged = 0
  /\ pc = "compare" \/ adc_TCIF \/ adc_ready => AdcValueTold
  /\ verdict = "pass" => pc = "idle" /\ damaged = 0
  /\ verdict = "fail" => pc = "idle" /\ OwnFault

AdcInv == Adc!TypeOK /\ AdcPhases /\ AdcValues

-----------------------------------------------------------------------------
(* Timer: the interrupt counts what the DMA samples, update by update, and *)
(* outside the loop neither is under way.                                  *)
TimAtRest == ~UIF /\ ~UDR /\ tim_NDTR = 0 /\ ~tim_TCIF

TimPhases ==
  /\ CEN[Timer!htim6] <=> (pc \in {"start2", "dma", "wait", "stop2", "stop6"})
  /\ CEN[Timer!htim2] <=> (pc \in {"dma", "wait", "stop2"})
  /\ pc # "wait" => TimAtRest
  /\ pc = "start" => delay = 0
  /\ pc \in {"start", "start2", "dma"} => tim6_count = 0
  /\ pc \in {"idle", "start", "compare"} => CNT[Timer!htim6] <= MaxDelay
  /\ pc \in {"start2", "dma"} => CNT[Timer!htim6] <= MaxDelay + delay
  /\ pc \in {"stop2", "stop6"} => CNT[Timer!htim6] = delay

TimCounted ==
  pc = "wait" =>
    /\ tim6_count + (IF UIF THEN 1 ELSE 0) + tim_NDTR = N_SAMPLES + (IF UDR THEN 1 ELSE 0)
    /\ UDR => tim_NDTR > 0 /\ CNT[Timer!htim6] = 0 /\ delay = 0
    /\ UIF => CNT[Timer!htim6] = 0 /\ delay = 0
    /\ tim_TCIF => tim_NDTR = 0
    /\ tim6_count < N_SAMPLES => delay = 0
    /\ tim6_count = N_SAMPLES => CNT[Timer!htim6] = delay

(* What TIM2 has counted since the last sample is what TIM6 has, unless    *)
(* TIM2 drifted; a single drift shows in the samples.                      *)
TimTaken   == N_SAMPLES - tim_NDTR
TimElapsed == IF UDR THEN EXPECTED_INTERVAL ELSE CNT[Timer!htim6]
TimGap(i)  == (samples[i] - samples[i - 1]) % Wrap
TimSince   == (CNT[Timer!htim2] - samples[TimTaken]) % Wrap

TimSampled ==
  pc = "wait" /\ tim_NDTR \in 1..N_SAMPLES - 1 =>
    /\ damaged = 0 =>
         /\ \A i \in 2..TimTaken : TimGap(i) = EXPECTED_INTERVAL
         /\ TimSince = TimElapsed
    /\ damaged = 1 =>
         \/ \E i \in 2..TimTaken : TimGap(i) # EXPECTED_INTERVAL
         \/ \E d \in {-1, 1} : TimSince = (TimElapsed + d) % Wrap

TimJudged ==
  /\ pc \in {"start", "start2", "dma"} => damaged = 0
  /\ pc = "wait" /\ tim_NDTR = N_SAMPLES => damaged = 0
  /\ (pc = "wait" /\ tim_NDTR = 0) \/ pc \in {"stop2", "stop6", "compare"} =>
       (damaged = 0 => Timer!Spaced) /\ (damaged = 1 => ~Timer!Spaced)
  /\ damaged > 0 => OwnFault
  /\ verdict = "pass" => pc = "idle" /\ damaged # 1
  /\ verdict = "fail" => pc = "idle" /\ OwnFault

TimInv == Timer!TypeOK /\ TimPhases /\ TimCounted /\ TimSampled /\ TimJudged

-----------------------------------------------------------------------------
(* UART: p's reception is off, armed, stored or announced, or an error has *)
(* aborted it, and then the test waits for ever.                           *)
UartArmed(p) ==
  pc \in IF p = Uart!huart5 THEN {"dmar5", "transmit4", "wait5"}
                            ELSE {"dmar4", "transmit5", "wait4"}
UartAsked(p) ==
  pc \in IF p = Uart!huart5 THEN {"dmar5", "transmit4"} ELSE {"dmar4", "transmit5"}

UartOff(p) ==
  RxState[p] = "READY" /\ ~EIE[p] /\ ~DMAR[p] /\ uart_NDTR[p] = 0 /\ ~uart_TCIF[p]
UartOn(p) ==
  RxState[p] = "BUSY" /\ EIE[p] /\ (DMAR[p] <=> pc \notin {"dmar4", "dmar5"})

UartReceiving(p) ==
  /\ UartOn(p) /\ uart_NDTR[p] > 0 /\ ~uart_TCIF[p] /\ ~uart_rx_done[p]
  /\ Len(rx[p]) + uart_NDTR[p] = Len(msg)
UartStored(p) ==
  /\ UartOn(p) /\ DMAR[p] /\ uart_NDTR[p] = 0 /\ uart_TCIF[p] /\ ~uart_rx_done[p]
  /\ Len(rx[p]) = Len(msg)
UartReceived(p) == UartOff(p) /\ uart_rx_done[p] /\ Len(rx[p]) = Len(msg)
UartAborted(p)  == UartOff(p) /\ ~uart_rx_done[p]

UartLossy == Happened({"error", "lose"})
UartGlitched == Happened({"glitch"})

UartReceivers ==
  \A p \in Uart!Ports :
    IF UartArmed(p)
      THEN /\ UartReceiving(p) \/ UartStored(p) \/ UartReceived(p)
              \/ (UartAborted(p) /\ UartLossy)
           /\ pc \in {"dmar4", "dmar5"} => UartReceiving(p)
      ELSE UartOff(p)

(* The bytes on their way to p, and those that are to be sent to it, are   *)
(* those it waits for; a glitch adds one to them, for ever, and what is    *)
(* lost is missing until the end.                                          *)
UartHeld(p) == IF uart_RDR[p] = NoByte THEN 0 ELSE 1
UartComing(p) == TxXferCount[Uart!Peer(p)] + Len(wire[Uart!Peer(p)]) + UartHeld(p)
UartSurplus(p) ==
  UartComing(p) + (IF UartAsked(p) THEN Len(msg) ELSE 0) - uart_NDTR[p]

UartStuck(p) ==
  UartLossy /\ UartArmed(p) /\ (UartAborted(p) \/ (UartReceiving(p) /\ UartSurplus(p) < 0))

UartBalance ==
  /\ UartGlitched =>
       /\ faults = <<"glitch">> /\ damaged = 0
       /\ \A p \in Uart!Ports : errors[p] = {} /\ UartSurplus(p) >= 0
       /\ UartSurplus(Uart!huart4) + UartSurplus(Uart!huart5) = 1
  /\ ~UartGlitched =>
       \A p \in Uart!Ports : UartSurplus(p) = 0 \/ UartStuck(p)
  /\ \A p \in Uart!Ports :
       /\ errors[p] # {} => UartLossy
       /\ "ORE" \in errors[p] => UartArmed(p) /\ UartAborted(p)

(* A sender is at work in its own phase only, or a glitch has let it       *)
(* outlive its phase: then the phase of the other one waits for it.        *)
UartSenders ==
  /\ \A p \in Uart!Ports : gState[p] = "READY" => TxXferCount[p] = 0 /\ wire[p] = << >>
  /\ pc \in {"start", "dmar5", "transmit4"} => gState[Uart!huart4] = "READY"
  /\ pc \in {"receive4", "dmar4", "transmit5"} => gState[Uart!huart5] = "READY"
  /\ pc \in {"start", "dmar5", "transmit4", "wait5"} /\ gState[Uart!huart5] = "BUSY" =>
       UartGlitched /\ rx[Uart!huart5] = << >> /\ uart_RDR[Uart!huart5] = NoByte
  /\ pc \in {"receive4", "dmar4", "transmit5", "wait4", "crc"} /\ gState[Uart!huart4] = "BUSY" =>
       \/ Uart!TransmitComplete(Uart!huart4)
       \/ UartGlitched /\ rx[Uart!huart4] = << >> /\ uart_RDR[Uart!huart4] = NoByte
  /\ pc = "idle" /\ gState[Uart!huart4] = "BUSY" => Uart!TransmitComplete(Uart!huart4)

(* What the test has by now.                                               *)
UartProgress ==
  /\ msg \in Seq(Bytes)
  /\ pc \notin {"idle", "start"} => msg # << >>
  /\ pc = "start" => rx[Uart!huart5] = << >> /\ ~uart_rx_done[Uart!huart5]
  /\ pc \in {"start", "dmar5", "transmit4", "wait5", "receive4"} =>
       rx[Uart!huart4] = << >> /\ ~uart_rx_done[Uart!huart4]
  /\ pc \in {"receive4", "dmar4", "transmit5", "wait4", "crc"} => Len(rx[Uart!huart5]) = Len(msg)
  /\ pc = "crc" => Len(rx[Uart!huart4]) = Len(msg)

(* The k-th byte of those that p gets, wherever it is by now.              *)
UartGot(p) == Len(rx[p]) + UartHeld(p)
UartByte(p, k) ==
  LET s == Uart!Peer(p)
      m == UartGot(p)
  IN  IF k <= Len(rx[p]) THEN rx[p][k]
      ELSE IF k <= m THEN uart_RDR[p]
      ELSE IF k <= m + Len(wire[s]) THEN wire[s][k - m]
      ELSE Uart!Source(s)[k]
UartSame(p) == \A k \in 1..Len(msg) : UartByte(p, k) = msg[k]

(* As long as nothing is missing and nothing is too many, the bytes that   *)
(* get there are the message but for those that were damaged.              *)
UartTold(p) == (damaged = 0 => UartSame(p)) /\ (damaged = 1 => ~UartSame(p))
UartTexts ==
  /\ damaged > 0 => OwnFault
  /\ pc \in {"start", "dmar5", "transmit4"} => damaged = 0
  /\ ~UartGlitched =>
       /\ pc \in {"wait5", "receive4", "dmar4", "transmit5"} /\ ~UartStuck(Uart!huart5) =>
            UartTold(Uart!huart5)
       /\ pc \in {"wait4", "crc"} /\ ~UartStuck(Uart!huart4) => UartTold(Uart!huart4)
  /\ verdict = "pass" => pc = "idle" /\ damaged # 1
  /\ verdict = "fail" => pc = "idle" /\ (msg = << >> \/ OwnFault \/ UartGlitched)

UartInv ==
  Uart!TypeOK /\ UartReceivers /\ UartBalance /\ UartSenders /\ UartProgress /\ UartTexts
-----------------------------------------------------------------------------
(* SPI: who is at rest, who sends and who receives.  A sender is sending,  *)
(* about to be told that the DMA is through, polling, or through itself;   *)
(* the slave may also have given up to poll, and then nobody ever says     *)
(* that it has sent.                                                       *)
SpiNotSending(p) == txNDTR[p] = 0 /\ ~txTCIF[p] /\ txFifo[p] = << >> /\ polling # p
SpiNotReceiving(p) == rxNDTR[p] = 0 /\ ~rxTCIF[p]
SpiAtRest(p) ==
  spi_State[p] = "READY" /\ SpiNotSending(p) /\ SpiNotReceiving(p) /\ rxFifo[p] = << >>

SpiSends(p) ==
  \/ /\ spi_State[p] = "BUSY_TX" /\ ~spi_tx_done[p]
     /\ \/ txNDTR[p] > 0 /\ ~txTCIF[p] /\ polling # p
        \/ txNDTR[p] = 0 /\ txTCIF[p] /\ polling # p
        \/ txNDTR[p] = 0 /\ ~txTCIF[p] /\ polling = p
  \/ /\ spi_State[p] = "READY" /\ txNDTR[p] = 0 /\ ~txTCIF[p] /\ polling # p
     /\ spi_tx_done[p] \/ p = Spi!hspi4
     /\ spi_tx_done[p] => txFifo[p] = << >> /\ rxFifo[p] = << >>

SpiReceives(p) ==
  /\ Len(spi_buf[p]) + rxNDTR[p] = Len(msg)
  /\ \/ spi_State[p] = "BUSY_RX" /\ rxNDTR[p] > 0 /\ ~rxTCIF[p] /\ ~spi_rx_done[p]
     \/ spi_State[p] = "BUSY_RX" /\ rxNDTR[p] = 0 /\ rxTCIF[p] /\ ~spi_rx_done[p]
     \/ spi_State[p] = "READY" /\ rxNDTR[p] = 0 /\ ~rxTCIF[p] /\ spi_rx_done[p]

(* What a transmitter has still to clock out.  What the receiver waits for *)
(* is that and what it has not read, unless the slave has missed a byte:   *)
(* then one of the two waits for ever, and no later test begins.           *)
SpiMissed  == Happened({"miss"})
SpiLeft(p) == Len(txFifo[p]) + txNDTR[p]

SpiSending ==       \* the first phase
  /\ SpiSends(Spi!hspi1) /\ SpiNotReceiving(Spi!hspi1)
  /\ SpiReceives(Spi!hspi4) /\ SpiNotSending(Spi!hspi4)
  /\ LET coming == Len(rxFifo[Spi!hspi4]) + SpiLeft(Spi!hspi1)
     IN  IF SpiMissed THEN rxNDTR[Spi!hspi4] > coming ELSE rxNDTR[Spi!hspi4] = coming

SpiReturning ==     \* the second
  /\ SpiSends(Spi!hspi4) /\ SpiNotReceiving(Spi!hspi4)
  /\ SpiReceives(Spi!hspi1) /\ polling # Spi!hspi1
  /\ txTCIF[Spi!hspi1] => txNDTR[Spi!hspi1] = 0
  /\ rxNDTR[Spi!hspi1] = Len(rxFifo[Spi!hspi1]) + SpiLeft(Spi!hspi1)
  /\ IF SpiMissed THEN SpiLeft(Spi!hspi4) > SpiLeft(Spi!hspi1)
                  ELSE SpiLeft(Spi!hspi4) = SpiLeft(Spi!hspi1)

SpiPhases ==
  /\ pc \in {"idle", "start", "transmit4", "crc"} =>
       SpiAtRest(Spi!hspi1) /\ SpiAtRest(Spi!hspi4)
  /\ pc = "transmit1" =>
       /\ SpiAtRest(Spi!hspi1)
       /\ SpiReceives(Spi!hspi4) /\ SpiNotSending(Spi!hspi4)
       /\ rxFifo[Spi!hspi4] = << >> /\ rxNDTR[Spi!hspi4] = Len(msg)
  /\ pc = "wait1" => SpiSending
  /\ pc = "receive1" =>
       /\ SpiAtRest(Spi!hspi1)
       /\ SpiSends(Spi!hspi4) /\ SpiNotReceiving(Spi!hspi4)
       /\ rxFifo[Spi!hspi4] = << >> /\ SpiLeft(Spi!hspi4) = Len(msg)
  /\ pc = "wait2" => SpiReturning
  /\ SpiMissed => pc \in {"wait1", "wait2"}

(* What the test has by now.                                               *)
SpiProgress ==
  /\ msg \in Seq(Bytes)
  /\ pc \notin {"idle", "start"} => msg # << >>
  /\ pc \in {"start", "transmit1"} =>
       spi_buf[Spi!hspi4] = << >> /\ ~spi_rx_done[Spi!hspi4] /\ ~spi_tx_done[Spi!hspi1]
  /\ pc \in {"start", "transmit1", "wait1", "transmit4", "receive1"} =>
       spi_buf[Spi!hspi1] = << >> /\ ~spi_rx_done[Spi!hspi1] /\ ~spi_tx_done[Spi!hspi4]
  /\ pc \in {"transmit4", "receive1", "wait2", "crc"} => Len(spi_buf[Spi!hspi4]) = Len(msg)
  /\ pc = "crc" => Len(spi_buf[Spi!hspi1]) = Len(msg)

(* The k-th byte of a text that has got as far as these three buffers on   *)
(* its way from its source.                                                *)
OnTheWay(got, read, sent, source, k) ==
  IF k <= Len(got) THEN got[k]
  ELSE IF k <= Len(got) + Len(read) THEN read[k - Len(got)]
  ELSE IF k <= Len(got) + Len(read) + Len(sent) THEN sent[k - (Len(got) + Len(read))]
  ELSE source[k]

SpiToSlave(k) ==
  OnTheWay(spi_buf[Spi!hspi4], rxFifo[Spi!hspi4], txFifo[Spi!hspi1], msg, k)
SpiToMaster(k) ==
  OnTheWay(spi_buf[Spi!hspi1], rxFifo[Spi!hspi1], txFifo[Spi!hspi4], spi_buf[Spi!hspi4], k)

(* As long as the slave has missed nothing, the bytes that get there are   *)
(* the message but for those that were damaged.                            *)
Told(same) == (damaged = 0 => same) /\ (damaged = 1 => ~same)

SpiTexts ==
  /\ damaged > 0 => OwnFault
  /\ pc \in {"start", "transmit1"} => damaged = 0
  /\ pc \in {"wait1", "transmit4"} /\ ~SpiMissed =>
       Told(\A k \in 1..Len(msg) : SpiToSlave(k) = msg[k])
  /\ pc \in {"receive1", "wait2", "crc"} /\ ~SpiMissed =>
       Told(\A k \in 1..Len(msg) : SpiToMaster(k) = msg[k])
  /\ verdict = "pass" => pc = "idle" /\ damaged # 1
  /\ verdict = "fail" => pc = "idle" /\ (msg = << >> \/ OwnFault)

SpiInv == Spi!TypeOK /\ SpiPhases /\ SpiProgress /\ SpiTexts

-----------------------------------------------------------------------------
(* I2C: between the transfers nothing is under way, except that a test     *)
(* that found the bus busy has left the slave armed for good.  Whether the *)
(* bus is free does not concern the test until it addresses the slave.     *)
I2cUnused   == bus \in {"free", "held"}
I2cQuiet(p) == TXDR[p] = << >> /\ i2c_RDR[p] = NoByte /\ ~NACKF[p] /\ ~STOPF[p]
I2cAtRest(p) ==
  i2c_State[p] = "READY" /\ i2c_NDTR[p] = 0 /\ ~i2c_TCIF[p] /\ ~DMAEN[p] /\ I2cQuiet(p)
I2cArmed(busy) ==
  /\ i2c_State[I2c!hi2c2] = busy /\ i2c_NDTR[I2c!hi2c2] = Len(msg)
  /\ ~i2c_TCIF[I2c!hi2c2] /\ I2cQuiet(I2c!hi2c2)
I2cLeftArmed ==
  /\ i2c_State[I2c!hi2c2] = "BUSY_RX" /\ ~i2c_TCIF[I2c!hi2c2] /\ I2cQuiet(I2c!hi2c2)
  /\ Happened({"hold"})

(* The address, or a byte of the master, was not acknowledged: the master  *)
(* is going to give up, sets no flag, and the test waits for ever.         *)
I2cRefused == NACKF[I2c!hi2c1] \/ AF

(* The stream of the master has bytes to transfer, has just transferred    *)
(* the last one, or has been switched off in favour of the STOP interrupt. *)
I2cMasterDma ==
  \/ i2c_NDTR[I2c!hi2c1] > 0 /\ DMAEN[I2c!hi2c1] /\ ~i2c_TCIF[I2c!hi2c1] /\ ~STOPI
  \/ i2c_NDTR[I2c!hi2c1] = 0 /\ DMAEN[I2c!hi2c1] /\ i2c_TCIF[I2c!hi2c1] /\ ~STOPI
  \/ i2c_NDTR[I2c!hi2c1] = 0 /\ ~DMAEN[I2c!hi2c1] /\ ~i2c_TCIF[I2c!hi2c1] /\ STOPI

I2cMasterUp(busy, done) ==       \* before the STOP condition
  i2c_State[I2c!hi2c1] = busy /\ I2cMasterDma /\ ~STOPF[I2c!hi2c1] /\ ~done
I2cMasterEnds(busy, done) ==     \* after it
  \/ i2c_State[I2c!hi2c1] = busy /\ I2cMasterDma /\ STOPF[I2c!hi2c1] /\ ~done
  \/ /\ i2c_State[I2c!hi2c1] = "READY" /\ ~DMAEN[I2c!hi2c1] /\ ~i2c_TCIF[I2c!hi2c1]
     /\ ~STOPF[I2c!hi2c1] /\ done
I2cSlaveUp(busy, done) ==
  i2c_State[I2c!hi2c2] = busy /\ DMAEN[I2c!hi2c2] /\ ~STOPF[I2c!hi2c2] /\ ~done
I2cSlaveEnds(busy, done) ==      \* with done, or without if it could not send all
  \/ i2c_State[I2c!hi2c2] = busy /\ DMAEN[I2c!hi2c2] /\ STOPF[I2c!hi2c2] /\ ~done
  \/ /\ i2c_State[I2c!hi2c2] = "READY" /\ ~DMAEN[I2c!hi2c2] /\ i2c_NDTR[I2c!hi2c2] = 0
     /\ ~STOPF[I2c!hi2c2] /\ ~NACKF[I2c!hi2c2] /\ TXDR[I2c!hi2c2] = << >>

(* What a receiver has not read, and what is still to be sent: of a slave  *)
(* that has let go of the bus the last byte stays where it was.            *)
I2cHeld(p) == IF i2c_RDR[p] = NoByte THEN << >> ELSE <<i2c_RDR[p]>>
I2cSent(p) == IF left = 0 THEN << >> ELSE TXDR[p]

I2cWriting ==        \* the first phase: the master sends
  /\ TXDR[I2c!hi2c2] = << >> /\ i2c_RDR[I2c!hi2c1] = NoByte /\ ~NACKF[I2c!hi2c2]
  /\ Len(i2c_buf[I2c!hi2c2]) + i2c_NDTR[I2c!hi2c2] = Len(msg)
  /\ i2c_NDTR[I2c!hi2c2] = left + Len(I2cHeld(I2c!hi2c2))
  /\ i2c_TCIF[I2c!hi2c2] => i2c_NDTR[I2c!hi2c2] = 0
  /\ Len(TXDR[I2c!hi2c1]) + i2c_NDTR[I2c!hi2c1] = left
  /\ IF I2cUnused
       THEN /\ left = 0 /\ i2c_RDR[I2c!hi2c2] = NoByte
            /\ I2cMasterEnds("BUSY_TX", i2c_tx_done[I2c!hi2c1])
            /\ I2cSlaveEnds("BUSY_RX", i2c_rx_done[I2c!hi2c2])
       ELSE /\ bus \in {"start", "addressed", "data"}
            /\ I2cMasterUp("BUSY_TX", i2c_tx_done[I2c!hi2c1])
            /\ I2cSlaveUp("BUSY_RX", i2c_rx_done[I2c!hi2c2])

I2cReading ==        \* the second: it receives
  /\ TXDR[I2c!hi2c1] = << >> /\ i2c_RDR[I2c!hi2c2] = NoByte
  /\ Len(i2c_buf[I2c!hi2c1]) + i2c_NDTR[I2c!hi2c1] = Len(msg)
  /\ i2c_NDTR[I2c!hi2c1] = left + Len(I2cHeld(I2c!hi2c1))
  /\ IF I2cUnused
       THEN /\ left = 0 /\ i2c_RDR[I2c!hi2c1] = NoByte
            /\ I2cMasterEnds("BUSY_RX", i2c_rx_done[I2c!hi2c1])
       ELSE bus # "refused" /\ I2cMasterUp("BUSY_RX", i2c_rx_done[I2c!hi2c1])

I2cAnswering ==      \* the slave in the second phase, armed
  /\ i2c_TCIF[I2c!hi2c2] => i2c_NDTR[I2c!hi2c2] = 0
  /\ IF I2cUnused
       THEN I2cSlaveEnds("BUSY_TX", i2c_tx_done[I2c!hi2c2])
       ELSE /\ I2cSlaveUp("BUSY_TX", i2c_tx_done[I2c!hi2c2])
            /\ IF bus = "released"
                 THEN /\ Len(TXDR[I2c!hi2c2]) <= 1
                      /\ Len(TXDR[I2c!hi2c2]) + i2c_NDTR[I2c!hi2c2] >= left
                 ELSE Len(TXDR[I2c!hi2c2]) + i2c_NDTR[I2c!hi2c2] = left

(* The slave has let go of the bus, or even given up, before it has sent   *)
(* everything: it sets no flag.                                            *)
I2cGivenUp ==
  /\ I2cUnused \/ bus = "released"
  /\ i2c_NDTR[I2c!hi2c2] > 0 \/ (i2c_State[I2c!hi2c2] = "READY" /\ ~i2c_tx_done[I2c!hi2c2])

I2cPhases ==
  /\ pc \in {"idle", "start", "rxdmaen", "transmit1", "receive1", "crc"} =>
       I2cUnused /\ I2cAtRest(I2c!hi2c1)
  /\ pc \in {"idle", "start"} => I2cAtRest(I2c!hi2c2) \/ I2cLeftArmed
  /\ pc = "idle" /\ i2c_State[I2c!hi2c2] = "BUSY_RX" => verdict = "fail"
  /\ pc = "rxdmaen" => I2cArmed("BUSY_RX")
  /\ pc = "transmit1" => I2cArmed("BUSY_RX") /\ DMAEN[I2c!hi2c2]
  /\ pc = "wait1" /\ ~I2cRefused => I2cWriting
  /\ pc = "wait1" /\ I2cRefused =>
       /\ i2c_State[I2c!hi2c1] \in {"BUSY_TX", "READY"} /\ ~i2c_tx_done[I2c!hi2c1]
       /\ \/ i2c_State[I2c!hi2c2] = "READY"
          \/ /\ i2c_State[I2c!hi2c2] = "BUSY_RX"
             /\ Len(i2c_buf[I2c!hi2c2]) + i2c_NDTR[I2c!hi2c2] = Len(msg)
  /\ pc \in {"receive1", "transmit2", "crc"} => I2cAtRest(I2c!hi2c2)
  /\ pc \in {"transmit2", "txdmaen", "wait2"} /\ ~I2cRefused => I2cReading
  /\ pc = "transmit2" /\ ~I2cRefused => bus \in {"start", "addressed"} /\ left = Len(msg)
  /\ pc = "txdmaen" /\ ~I2cRefused =>
       /\ bus \in {"start", "addressed", "data"} /\ left = Len(msg)
       /\ I2cArmed("BUSY_TX") /\ ~DMAEN[I2c!hi2c2]
  /\ pc = "wait2" /\ ~I2cRefused => I2cAnswering
  /\ pc \in {"transmit2", "txdmaen", "wait2"} /\ I2cRefused =>
       /\ I2cUnused \/ bus = "refused"
       /\ ~i2c_rx_done[I2c!hi2c1] /\ ~STOPF[I2c!hi2c2]
       /\ \/ i2c_State[I2c!hi2c1] = "READY"
          \/ /\ i2c_State[I2c!hi2c1] = "BUSY_RX"
             /\ Len(i2c_buf[I2c!hi2c1]) + i2c_NDTR[I2c!hi2c1] = Len(msg)
       /\ pc # "transmit2" => i2c_State[I2c!hi2c2] = "BUSY_TX"

I2cProgress ==
  /\ msg \in Seq(Bytes)
  /\ pc \notin {"idle", "start"} => msg # << >>
  /\ pc \in {"start", "rxdmaen", "transmit1"} =>
       i2c_buf[I2c!hi2c2] = << >> /\ ~i2c_tx_done[I2c!hi2c1] /\ ~i2c_rx_done[I2c!hi2c2]
  /\ pc \in {"start", "rxdmaen", "transmit1", "wait1", "receive1"} =>
       i2c_buf[I2c!hi2c1] = << >> /\ ~i2c_rx_done[I2c!hi2c1]
  /\ pc \in {"start", "rxdmaen", "transmit1", "wait1", "receive1", "transmit2", "txdmaen"} =>
       ~i2c_tx_done[I2c!hi2c2]
  /\ pc \in {"receive1", "transmit2", "txdmaen", "wait2", "crc"} =>
       Len(i2c_buf[I2c!hi2c2]) = Len(msg)
  /\ pc = "crc" => Len(i2c_buf[I2c!hi2c1]) = Len(msg)

I2cToSlave(k) ==
  OnTheWay(i2c_buf[I2c!hi2c2], I2cHeld(I2c!hi2c2), I2cSent(I2c!hi2c1), msg, k)
I2cToMaster(k) ==
  OnTheWay(i2c_buf[I2c!hi2c1], I2cHeld(I2c!hi2c1), I2cSent(I2c!hi2c2), i2c_buf[I2c!hi2c2], k)

(* Nothing is known to be missing of what the master has read, or reads.   *)
I2cReturning ==
  \/ pc \in {"receive1", "crc"}
  \/ pc \in {"transmit2", "txdmaen"} /\ ~I2cRefused
  \/ pc = "wait2" /\ ~I2cRefused /\ ~I2cGivenUp

I2cTexts ==
  /\ damaged > 0 \/ bus = "released" => OwnFault
  /\ bus = "held" => Happened({"hold"})
  /\ pc \in {"start", "rxdmaen", "transmit1"} => damaged = 0
  /\ pc = "wait1" /\ ~I2cRefused => Told(\A k \in 1..Len(msg) : I2cToSlave(k) = msg[k])
  /\ I2cReturning => Told(\A k \in 1..Len(msg) : I2cToMaster(k) = msg[k])
  /\ verdict = "pass" => pc = "idle" /\ damaged # 1
  /\ verdict = "fail" => pc = "idle" /\ (msg = << >> \/ OwnFault \/ Happened({"hold"}))

I2cInv == I2c!TypeOK /\ I2cPhases /\ I2cProgress /\ I2cTexts

=============================================================================
