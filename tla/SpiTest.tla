------------------------------- MODULE SpiTest -------------------------------
(***************************************************************************)
(* One SPI test after the other (spi_test.c): the master hspi1 sends a     *)
(* message to the slave hspi4, the slave sends back what it got, and the   *)
(* CRCs are compared.  Both directions use DMA; the test waits for a flag  *)
(* of the sender and one of the receiver.                                  *)
(*                                                                         *)
(* The handler of a transmission's DMA does not return at once: it polls   *)
(* until the FIFO has been clocked out, for up to 100 ms, and while it     *)
(* polls neither the test nor another handler runs (all interrupts have    *)
(* one priority).  The DMA and the master's clock go on.                   *)
(*                                                                         *)
(* Timing assumed: the DMA serves a FIFO within the time of a byte, and an *)
(* interrupt that is pending is taken before the test goes on.  Faults of  *)
(* the wires: "flip", a byte is changed, and "miss", the slave misses one. *)
(***************************************************************************)
EXTENDS PeripheralTest

hspi1 == 1     \* the master
hspi4 == 4     \* the slave
Ports == {hspi1, hspi4}
Nobody == 0

VARIABLES
  tx_done,     \* spi1_tx_done, spi4_tx_done
  rx_done,     \* spi1_rx_done, spi4_rx_done
  buf,         \* spi1_rx, spi4_rx_tx: what this test's DMA has written of them
  State,       \* of the handles: "READY", "BUSY_TX" or "BUSY_RX"
  txNDTR, rxNDTR,  \* bytes the DMA streams have still to transfer
  txTCIF, rxTCIF,  \* their transfer-complete interrupts are pending
  txFifo, rxFifo,
  polling      \* the handle whose handler is polling, or Nobody

flags    == <<tx_done, rx_done>>
txDma    == <<txNDTR, txTCIF>>
rxDma    == <<rxNDTR, rxTCIF, buf>>
fifos    == <<txFifo, rxFifo>>
vars == <<testVars, flags, State, txDma, rxDma, fifos, polling, history>>

Labels == {"idle", "start", "transmit1", "wait1",
           "transmit4", "receive1", "wait2", "crc"}

TypeOK ==
  /\ TestTypeOK /\ pc \in Labels
  /\ tx_done \in [Ports -> BOOLEAN] /\ rx_done \in [Ports -> BOOLEAN]
  /\ buf \in [Ports -> Seq(Bytes)] /\ \A p \in Ports : Len(buf[p]) <= Len(msg)
  /\ State \in [Ports -> {"READY", "BUSY_TX", "BUSY_RX"}]
  /\ txNDTR \in [Ports -> Nat] /\ rxNDTR \in [Ports -> Nat]
  /\ txTCIF \in [Ports -> BOOLEAN] /\ rxTCIF \in [Ports -> BOOLEAN]
  /\ txFifo \in [Ports -> Seq(Bytes)] /\ rxFifo \in [Ports -> Seq(Bytes)]
  /\ \A p \in Ports : Len(txFifo[p]) <= FifoDepth /\ Len(rxFifo[p]) <= FifoDepth
  /\ polling \in Ports \cup {Nobody}

Each(v) == [p \in Ports |-> v]

Init ==
  /\ TestInit
  /\ tx_done = Each(FALSE) /\ rx_done = Each(FALSE) /\ buf = Each(<< >>)
  /\ State = Each("READY")
  /\ txNDTR = Each(0) /\ rxNDTR = Each(0) /\ txTCIF = Each(FALSE) /\ rxTCIF = Each(FALSE)
  /\ txFifo = Each(<< >>) /\ rxFifo = Each(<< >>)
  /\ polling = Nobody

-----------------------------------------------------------------------------
(* SPI_Test_Perform, called again and again.                               *)

MainRuns == polling = Nobody /\ \A p \in Ports : ~txTCIF[p] /\ ~rxTCIF[p]

Begin ==
  /\ MainRuns
  /\ \E m \in Messages : BeginTest(m, Len(faults))
  /\ tx_done' = Each(FALSE) /\ rx_done' = Each(FALSE)
  /\ buf' = Each(<< >>)
  /\ UNCHANGED <<State, txDma, rxNDTR, rxTCIF, fifos, polling>>

(* The length every call is given: p_len.                                  *)
TransferLen == Len(msg)

CanStart(p) == State[p] = "READY" /\ msg # << >>

(* HAL_SPI_Receive_DMA of the slave, and of the master, which at the same  *)
(* time sends the contents of its receive buffer to drive the clock.       *)
ReceiveDMA(p, here, next) ==
  /\ pc = here /\ MainRuns
  /\ IF CanStart(p) /\ rxNDTR[p] = 0 /\ (p = hspi1 => txNDTR[p] = 0)
       THEN /\ State' = [State EXCEPT ![p] = "BUSY_RX"]
            /\ rxNDTR' = [rxNDTR EXCEPT ![p] = TransferLen]
            /\ txNDTR' = [txNDTR EXCEPT ![p] = IF p = hspi1 THEN TransferLen ELSE @]
            /\ pc' = next
            /\ UNCHANGED verdict
       ELSE Return("fail") /\ UNCHANGED <<State, rxNDTR, txNDTR>>
  /\ UNCHANGED <<msg, flags, buf, txTCIF, rxTCIF, fifos, polling, history>>

TransmitDMA(p, here, next) ==
  /\ pc = here /\ MainRuns
  /\ IF CanStart(p) /\ txNDTR[p] = 0
       THEN /\ State' = [State EXCEPT ![p] = "BUSY_TX"]
            /\ txNDTR' = [txNDTR EXCEPT ![p] = TransferLen]
            /\ pc' = next
            /\ UNCHANGED verdict
       ELSE Return("fail") /\ UNCHANGED <<State, txNDTR>>
  /\ UNCHANGED <<msg, flags, txTCIF, rxDma, fifos, polling, history>>

ReceiverOnly(sender, receiver) == rx_done[receiver]     \* mutant
BothDone(sender, receiver) == tx_done[sender] /\ rx_done[receiver]

WaitDone(sender, receiver, here, next) ==
  /\ pc = here /\ MainRuns
  /\ BothDone(sender, receiver)
  /\ pc' = next
  /\ UNCHANGED <<msg, verdict, flags, State, txDma, rxDma, fifos, polling, history>>

MatchCRC ==
  /\ pc = "crc" /\ MainRuns
  /\ \E v \in CrcVerdicts(buf[hspi1]) : Return(v)
  /\ UNCHANGED <<msg, flags, State, txDma, rxDma, fifos, polling, history>>

SPI_Test_Perform ==
  \/ ReceiveDMA(hspi4, "start", "transmit1")
  \/ TransmitDMA(hspi1, "transmit1", "wait1")
  \/ WaitDone(hspi1, hspi4, "wait1", "transmit4")
  \/ TransmitDMA(hspi4, "transmit4", "receive1")
  \/ ReceiveDMA(hspi1, "receive1", "wait2")
  \/ WaitDone(hspi4, hspi1, "wait2", "crc")
  \/ MatchCRC

-----------------------------------------------------------------------------
(* The DMA streams.                                                        *)

(* What a transmitter is given: the message, the buffer of the slave, and  *)
(* by the master of the second phase whatever its buffer holds.            *)
Source(p) == IF p = hspi4 THEN buf[hspi4] ELSE IF State[p] = "BUSY_TX" THEN msg ELSE << >>
NextByte(p) ==
  LET i == TransferLen - txNDTR[p] + 1
  IN  IF i \in DOMAIN Source(p) THEN {Source(p)[i]} ELSE Bytes

HasRoom(p) == Len(txFifo[p]) < FifoDepth
TxRequest(p) == txNDTR[p] > 0 /\ HasRoom(p)
RxRequest(p) == rxNDTR[p] > 0 /\ rxFifo[p] # << >>

TxTransfer(p) ==
  /\ TxRequest(p)
  /\ \E b \in NextByte(p) : txFifo' = [txFifo EXCEPT ![p] = Append(@, b)]
  /\ txNDTR' = [txNDTR EXCEPT ![p] = @ - 1]
  /\ txTCIF' = [txTCIF EXCEPT ![p] = txNDTR[p] = 1]
  /\ UNCHANGED <<testVars, flags, State, rxDma, rxFifo, polling, history>>

RxTransfer(p) ==
  /\ RxRequest(p)
  /\ buf' = [buf EXCEPT ![p] = Append(@, Head(rxFifo[p]))]
  /\ rxFifo' = [rxFifo EXCEPT ![p] = Tail(@)]
  /\ rxNDTR' = [rxNDTR EXCEPT ![p] = @ - 1]
  /\ rxTCIF' = [rxTCIF EXCEPT ![p] = rxNDTR[p] = 1]
  /\ UNCHANGED <<testVars, flags, State, txDma, txFifo, polling, history>>

-----------------------------------------------------------------------------
(* The interrupt handlers.                                                 *)

(* SPI_DMATransmitCplt begins to poll; the DMA that only drives the clock  *)
(* has no callback.                                                        *)
TransmitCplt(p) ==
  /\ polling = Nobody /\ txTCIF[p]
  /\ txTCIF' = [txTCIF EXCEPT ![p] = FALSE]
  /\ polling' = IF State[p] = "BUSY_TX" THEN p ELSE Nobody
  /\ UNCHANGED <<testVars, flags, State, txNDTR, rxDma, fifos, history>>

(* What came in while it sent is thrown away.                              *)
RxFifoKept(p) == UNCHANGED rxFifo                   \* mutant
FlushRxFifo(p) == rxFifo' = [rxFifo EXCEPT ![p] = << >>]

(* SPI_EndRxTxTransaction has seen the FIFO run empty.                     *)
TransmitEnds(p) ==
  /\ polling = p /\ txFifo[p] = << >>
  /\ FlushRxFifo(p)
  /\ State' = [State EXCEPT ![p] = "READY"]
  /\ tx_done' = [tx_done EXCEPT ![p] = TRUE]
  /\ polling' = Nobody
  /\ UNCHANGED <<testVars, rx_done, txDma, rxDma, txFifo, history>>

(* It has polled for 100 ms and no clock came.  HAL_SPI_ErrorCallback is   *)
(* called, which nobody implements.                                        *)
Clocked == txFifo[hspi1] # << >> \/ txNDTR[hspi1] > 0

TransmitTimesOut(p) ==
  /\ polling = p /\ txFifo[p] # << >> /\ ~Clocked
  /\ State' = [State EXCEPT ![p] = "READY"]
  /\ polling' = Nobody
  /\ UNCHANGED <<testVars, flags, txDma, rxDma, fifos, history>>

OtherFlag(p) == rx_done' = [q \in Ports |-> rx_done[q] \/ q # p]     \* mutant
RxCpltCallback(p) == rx_done' = [rx_done EXCEPT ![p] = TRUE]

(* SPI_DMAReceiveCplt makes the handle ready again.                        *)
StaysBusy(p) == UNCHANGED State                     \* mutant
Ready(p) == State' = [State EXCEPT ![p] = "READY"]

ReceiveCplt(p) ==
  /\ polling = Nobody /\ rxTCIF[p]
  /\ rxTCIF' = [rxTCIF EXCEPT ![p] = FALSE]
  /\ Ready(p)
  /\ RxCpltCallback(p)
  /\ UNCHANGED <<testVars, tx_done, txDma, rxNDTR, buf, fifos, polling, history>>

-----------------------------------------------------------------------------
(* The wires: the master clocks a byte out and one in.                     *)

Settled == \A p \in Ports : ~TxRequest(p) /\ ~RxRequest(p)

(* A receiver that nobody reads overruns, and the overrun is cleared.      *)
Received(p, b) == IF Len(rxFifo[p]) < FifoDepth THEN Append(rxFifo[p], b) ELSE rxFifo[p]

SlaveByte == IF txFifo[hspi4] = << >> THEN Bytes ELSE {Head(txFifo[hspi4])}
Shifted(p) == IF txFifo[p] = << >> THEN << >> ELSE Tail(txFifo[p])

Clock ==
  /\ Settled
  /\ txFifo[hspi1] # << >>
  /\ UNCHANGED <<testVars, flags, State, txDma, rxDma, polling>>

Exchange(mosi, miso) ==
  /\ txFifo' = [p \in Ports |-> Shifted(p)]
  /\ rxFifo' = [rxFifo EXCEPT ![hspi4] = Received(hspi4, mosi),
                              ![hspi1] = Received(hspi1, miso)]

(* A byte matters if its receiver is receiving.                            *)
DamageAt(receiver, sent, got) ==
  IF State[receiver] = "BUSY_RX" THEN Damage(sent, got) ELSE UNCHANGED damaged

Shift ==
  /\ Clock
  /\ \E b \in SlaveByte : Exchange(Head(txFifo[hspi1]), b)
  /\ UNCHANGED history

ShiftFlipped ==
  /\ Clock
  /\ Fault("flip")
  /\ \/ \E b \in SlaveByte, got \in Bytes :
          Exchange(got, b) /\ DamageAt(hspi4, Head(txFifo[hspi1]), got)
     \/ \E b \in SlaveByte, got \in Bytes :
          Exchange(Head(txFifo[hspi1]), got) /\ DamageAt(hspi1, b, got)

(* The slave does not notice: the master reads an idle line.               *)
SlaveMisses ==
  /\ Clock
  /\ Fault("miss")
  /\ txFifo' = [txFifo EXCEPT ![hspi1] = Tail(@)]
  /\ \E got \in Bytes : rxFifo' = [rxFifo EXCEPT ![hspi1] = Received(hspi1, got)]
  /\ UNCHANGED damaged

-----------------------------------------------------------------------------
MainStep == SPI_Test_Perform
IrqStep  ==
  \E p \in Ports : TransmitCplt(p) \/ TransmitEnds(p) \/ TransmitTimesOut(p) \/ ReceiveCplt(p)
DmaStep  == \E p \in Ports : TxTransfer(p) \/ RxTransfer(p)
WireStep == Shift \/ ShiftFlipped \/ SlaveMisses

Next == Begin \/ MainStep \/ IrqStep \/ DmaStep \/ WireStep

Spec == Init /\ [][Next]_vars

-----------------------------------------------------------------------------
(* A test that has returned leaves nothing behind for the next one: no     *)
(* transfer, no handler at work, and no byte in a FIFO that would shift    *)
(* the next message by one.                                                *)
CleanBetweenTests ==
  pc = "idle" =>
    /\ polling = Nobody
    /\ \A p \in Ports : /\ State[p] = "READY" /\ txNDTR[p] = 0 /\ rxNDTR[p] = 0
                        /\ txFifo[p] = << >> /\ rxFifo[p] = << >>

(* The test never finds a handle busy: only the empty message is refused.  *)
NeverBusy ==
  msg # << >> =>
    /\ pc \in {"start", "transmit4"} => CanStart(hspi4)
    /\ pc \in {"transmit1", "receive1"} => CanStart(hspi1)

(* The slave sends, and the test compares, only bytes that were received.  *)
NothingUnwrittenRead ==
  /\ pc = "crc" => Len(buf[hspi1]) = Len(msg)
  /\ txNDTR[hspi4] > 0 => Len(buf[hspi4]) = Len(msg)

(* What may keep the test waiting for ever.                                *)
Breaking == {"miss"}

(* A message that the slave's FIFO takes as a whole does so, too.          *)
Fits == Len(msg) <= FifoDepth
=============================================================================
