------------------------------- MODULE I2cTest -------------------------------
(***************************************************************************)
(* One I2C test after the other (i2c_test.c): the master hi2c1 writes a    *)
(* message to the slave hi2c2, reads back what the slave got, and the CRCs *)
(* are compared.  Both sides use DMA.  The test waits for flags that the   *)
(* handlers set when the STOP condition has been seen.                     *)
(*                                                                         *)
(* In the second phase the master addresses a slave that nobody has armed  *)
(* yet: the slave acknowledges in hardware and stretches the clock until   *)
(* its handler clears ADDR.                                                *)
(*                                                                         *)
(* Timing assumed: the DMA serves a register within the time of a byte, an *)
(* interrupt that is pending is taken before the test goes on and before   *)
(* the next byte has come.  Faults of the bus: "flip", a byte is changed,  *)
(* "nack", an acknowledge is not seen, "hold", a false START keeps the bus *)
(* busy for a while.                                                       *)
(***************************************************************************)
EXTENDS PeripheralTest

hi2c1 == 1     \* the master
hi2c2 == 2     \* the slave
Ports == {hi2c1, hi2c2}

VARIABLES
  tx_done,     \* i2c1_tx_done, i2c2_tx_done
  rx_done,     \* i2c1_rx_done, i2c2_rx_done
  buf,         \* i2c1_rx, i2c2_rx: what this test's DMA has written of them
  State,       \* of the handles: "READY", "BUSY_TX" or "BUSY_RX"
  AF,          \* ErrorCode of the master has HAL_I2C_ERROR_AF
  STOPI,       \* CR1 of the master: the STOP interrupt is enabled
  DMAEN,       \* CR1: TXDMAEN or RXDMAEN
  NDTR, TCIF,  \* of the DMA stream of a port
  TXDR,        \* TXDR and the shift register, oldest byte first
  RDR,         \* RXDR
  NACKF, STOPF,  \* ISR of either port
  bus,         \* what is on the bus
  left         \* NBYTES: bytes the master has still to send or to ask for

flags   == <<tx_done, rx_done>>
dma     == <<NDTR, TCIF, DMAEN>>
handles == <<State, AF, STOPI>>
isr     == <<NACKF, STOPF>>
wires   == <<bus, left>>
vars == <<testVars, flags, buf, handles, dma, TXDR, RDR, isr, wires, history>>

Labels == {"idle", "start", "rxdmaen", "transmit1", "wait1",
           "receive1", "transmit2", "txdmaen", "wait2", "crc"}

TypeOK ==
  /\ TestTypeOK /\ pc \in Labels
  /\ tx_done \in [Ports -> BOOLEAN] /\ rx_done \in [Ports -> BOOLEAN]
  /\ buf \in [Ports -> Seq(Bytes)] /\ \A p \in Ports : Len(buf[p]) <= Len(msg)
  /\ State \in [Ports -> {"READY", "BUSY_TX", "BUSY_RX"}]
  /\ AF \in BOOLEAN /\ STOPI \in BOOLEAN /\ DMAEN \in [Ports -> BOOLEAN]
  /\ NDTR \in [Ports -> Nat] /\ TCIF \in [Ports -> BOOLEAN]
  /\ TXDR \in [Ports -> Seq(Bytes)] /\ \A p \in Ports : Len(TXDR[p]) <= 2
  /\ RDR \in [Ports -> Bytes \cup {NoByte}]
  /\ NACKF \in [Ports -> BOOLEAN] /\ STOPF \in [Ports -> BOOLEAN]
  /\ bus \in {"free", "held", "start", "refused", "addressed", "data", "released"}
  /\ left \in Nat

Each(v) == [p \in Ports |-> v]

Init ==
  /\ TestInit
  /\ tx_done = Each(FALSE) /\ rx_done = Each(FALSE) /\ buf = Each(<< >>)
  /\ State = Each("READY") /\ AF = FALSE /\ STOPI = FALSE /\ DMAEN = Each(FALSE)
  /\ NDTR = Each(0) /\ TCIF = Each(FALSE)
  /\ TXDR = Each(<< >>) /\ RDR = Each(NoByte)
  /\ NACKF = Each(FALSE) /\ STOPF = Each(FALSE)
  /\ bus = "free" /\ left = 0

-----------------------------------------------------------------------------
(* Interrupts that are pending and enabled.                                *)

NackPending(p) ==
  NACKF[p] /\ State[p] # "READY" /\ (p = hi2c2 => ~STOPF[p])
StopPending(p) ==
  STOPF[p] /\ State[p] # "READY" /\ (p = hi2c1 => STOPI /\ ~NACKF[p])
AddrPending == bus = "addressed" /\ State[hi2c2] # "READY"

Pending ==
  AddrPending \/ \E p \in Ports : TCIF[p] \/ NackPending(p) \/ StopPending(p)

-----------------------------------------------------------------------------
(* I2C_Test_Perform, called again and again.                               *)

LeaveFlags == UNCHANGED flags                       \* mutant
ClearFlags == tx_done' = Each(FALSE) /\ rx_done' = Each(FALSE)

Begin ==
  /\ ~Pending
  /\ \E m \in Messages : BeginTest(m, Len(faults) - IF bus = "held" THEN 1 ELSE 0)
  /\ ClearFlags
  /\ buf' = Each(<< >>)
  /\ UNCHANGED <<handles, dma, TXDR, RDR, isr, wires>>

StreamReady(p) == NDTR[p] = 0 /\ ~TCIF[p]

CanArm == State[hi2c2] = "READY" /\ StreamReady(hi2c2) /\ msg # << >>

(* HAL_I2C_Slave_Receive_DMA and HAL_I2C_Slave_Transmit_DMA up to          *)
(* I2C_Enable_IRQ ...                                                      *)
SlaveDMA(busy, here, next) ==
  /\ pc = here /\ ~Pending
  /\ IF CanArm
       THEN /\ State' = [State EXCEPT ![hi2c2] = busy]
            /\ NDTR' = [NDTR EXCEPT ![hi2c2] = Len(msg)]
            /\ pc' = next
            /\ UNCHANGED verdict
       ELSE Return("fail") /\ UNCHANGED <<State, NDTR>>
  /\ UNCHANGED <<msg, flags, buf, AF, STOPI, TCIF, DMAEN, TXDR, RDR, isr, wires, history>>

(* ... and their last statement; the handler of ADDR may come in between.  *)
EnableDMA(here, next) ==
  /\ pc = here /\ ~Pending
  /\ DMAEN' = [DMAEN EXCEPT ![hi2c2] = TRUE]
  /\ pc' = next
  /\ UNCHANGED <<msg, verdict, flags, buf, handles, NDTR, TCIF, TXDR, RDR, isr, wires, history>>

(* HAL_I2C_Master_Transmit_DMA, which writes the first byte itself, and    *)
(* HAL_I2C_Master_Receive_DMA: refused while the bus is busy.              *)
CanAddress == State[hi2c1] = "READY" /\ StreamReady(hi2c1) /\ bus = "free"

MasterDMA(busy, preload, here, next) ==
  /\ pc = here /\ ~Pending
  /\ IF CanAddress
       THEN /\ State' = [State EXCEPT ![hi2c1] = busy]
            /\ TXDR' = [TXDR EXCEPT ![hi2c1] = preload]
            /\ NDTR' = [NDTR EXCEPT ![hi2c1] = Len(msg) - Len(preload)]
            /\ DMAEN' = [DMAEN EXCEPT ![hi2c1] = Len(msg) > Len(preload)]
            /\ STOPI' = (Len(msg) = Len(preload))
            /\ AF' = FALSE
            /\ bus' = "start" /\ left' = Len(msg)
            /\ pc' = next
            /\ UNCHANGED verdict
       ELSE Return("fail") /\ UNCHANGED <<handles, NDTR, DMAEN, TXDR, wires>>
  /\ UNCHANGED <<msg, flags, buf, TCIF, RDR, isr, history>>

BothDone(sender, receiver) == tx_done[sender] /\ rx_done[receiver]

WaitDone(sender, receiver, here, next) ==
  /\ pc = here /\ ~Pending
  /\ BothDone(sender, receiver)
  /\ pc' = next
  /\ UNCHANGED <<msg, verdict, flags, buf, handles, dma, TXDR, RDR, isr, wires, history>>

MatchCRC ==
  /\ pc = "crc" /\ ~Pending
  /\ \E v \in CrcVerdicts(buf[hi2c1]) : Return(v)
  /\ UNCHANGED <<msg, flags, buf, handles, dma, TXDR, RDR, isr, wires, history>>

I2C_Test_Perform ==
  \/ SlaveDMA("BUSY_RX", "start", "rxdmaen") \/ EnableDMA("rxdmaen", "transmit1")
  \/ MasterDMA("BUSY_TX", SubSeq(msg, 1, 1), "transmit1", "wait1")
  \/ WaitDone(hi2c1, hi2c2, "wait1", "receive1")
  \/ MasterDMA("BUSY_RX", << >>, "receive1", "transmit2")
  \/ SlaveDMA("BUSY_TX", "transmit2", "txdmaen") \/ EnableDMA("txdmaen", "wait2")
  \/ WaitDone(hi2c2, hi2c1, "wait2", "crc")
  \/ MatchCRC

-----------------------------------------------------------------------------
(* The DMA streams.                                                        *)

TxRequest(p) ==
  DMAEN[p] /\ State[p] = "BUSY_TX" /\ NDTR[p] > 0 /\ bus = "data" /\ Len(TXDR[p]) < 2
RxRequest(p) ==
  DMAEN[p] /\ State[p] = "BUSY_RX" /\ NDTR[p] > 0 /\ RDR[p] # NoByte

Counted(p) ==
  /\ NDTR' = [NDTR EXCEPT ![p] = @ - 1]
  /\ TCIF' = [TCIF EXCEPT ![p] = NDTR[p] = 1]

Source(p) == IF p = hi2c1 THEN msg ELSE buf[hi2c2]
NextByte(p) ==
  LET i == Len(msg) - NDTR[p] + 1
  IN  IF i \in DOMAIN Source(p) THEN {Source(p)[i]} ELSE Bytes

TxTransfer(p) ==
  /\ TxRequest(p)
  /\ \E b \in NextByte(p) : TXDR' = [TXDR EXCEPT ![p] = Append(@, b)]
  /\ Counted(p)
  /\ UNCHANGED <<testVars, flags, buf, handles, DMAEN, RDR, isr, wires, history>>

RxTransfer(p) ==
  /\ RxRequest(p)
  /\ buf' = [buf EXCEPT ![p] = Append(@, RDR[p])]
  /\ RDR' = [RDR EXCEPT ![p] = NoByte]
  /\ Counted(p)
  /\ UNCHANGED <<testVars, flags, handles, DMAEN, TXDR, isr, wires, history>>

-----------------------------------------------------------------------------
(* The interrupt handlers.                                                 *)

(* I2C_DMAMasterTransmitCplt and I2C_DMAMasterReceiveCplt; the slave's     *)
(* handlers leave everything to the STOP condition.                        *)
DmaCplt(p) ==
  /\ TCIF[p]
  /\ TCIF' = [TCIF EXCEPT ![p] = FALSE]
  /\ DMAEN' = [DMAEN EXCEPT ![hi2c1] = @ /\ p # hi2c1]
  /\ STOPI' = (STOPI \/ p = hi2c1)
  /\ UNCHANGED <<testVars, flags, buf, State, AF, NDTR, TXDR, RDR, isr, wires, history>>

(* I2C_ITAddrCplt.                                                         *)
AddrCplt ==
  /\ AddrPending
  /\ bus' = "data"
  /\ UNCHANGED <<testVars, flags, buf, handles, dma, TXDR, RDR, isr, left, history>>

(* The NACK of I2C_Master_ISR_DMA ...                                      *)
MasterNack ==
  /\ NackPending(hi2c1)
  /\ NACKF' = [NACKF EXCEPT ![hi2c1] = FALSE]
  /\ AF' = TRUE /\ STOPI' = TRUE
  /\ TXDR' = [TXDR EXCEPT ![hi2c1] = << >>]
  /\ UNCHANGED <<testVars, flags, buf, State, dma, RDR, STOPF, wires, history>>

(* ... and of I2C_Slave_ISR_DMA.                                           *)
SlaveNack ==
  /\ NackPending(hi2c2)
  /\ NACKF' = [NACKF EXCEPT ![hi2c2] = FALSE]
  /\ UNCHANGED <<testVars, flags, buf, handles, dma, TXDR, RDR, STOPF, wires, history>>

(* The callbacks of the test.                                              *)
CpltCallback(p) ==
  /\ tx_done' = [tx_done EXCEPT ![p] = @ \/ State[p] = "BUSY_TX"]
  /\ rx_done' = [rx_done EXCEPT ![p] = @ \/ State[p] = "BUSY_RX"]

(* The end of I2C_ITMasterCplt and I2C_ITSlaveCplt: the handle is ready    *)
(* again; either the test's callback is called, or I2C_ITError aborts the  *)
(* stream and HAL_I2C_ErrorCallback is called, which nobody implements.    *)
Cplt(p, failed) ==
  /\ StopPending(p)
  /\ State' = [State EXCEPT ![p] = "READY"]
  /\ STOPF' = [STOPF EXCEPT ![p] = FALSE]
  /\ NACKF' = [NACKF EXCEPT ![p] = FALSE]
  /\ TXDR' = [TXDR EXCEPT ![p] = << >>]
  /\ IF failed
       THEN /\ NDTR' = [NDTR EXCEPT ![p] = 0]
            /\ UNCHANGED flags
       ELSE CpltCallback(p) /\ UNCHANGED NDTR

MasterCplt ==
  /\ Cplt(hi2c1, AF)
  /\ STOPI' = FALSE
  /\ DMAEN' = [DMAEN EXCEPT ![hi2c1] = @ /\ ~AF]
  /\ UNCHANGED <<testVars, buf, AF, TCIF, RDR, wires, history>>

DmaStaysOn == UNCHANGED DMAEN                       \* mutant
DmaOff == DMAEN' = [DMAEN EXCEPT ![hi2c2] = FALSE]

SlaveCplt ==
  /\ Cplt(hi2c2, NDTR[hi2c2] # 0)
  /\ DmaOff
  /\ UNCHANGED <<testVars, buf, AF, STOPI, TCIF, RDR, wires, history>>

-----------------------------------------------------------------------------
(* The bus.                                                                *)

Served  == \A p \in Ports : ~TxRequest(p) /\ ~RxRequest(p)
Settled == Served /\ ~Pending

(* The slave acknowledges its address, armed or not.                       *)
Address ==
  /\ bus = "start" /\ Settled
  /\ bus' = "addressed"
  /\ UNCHANGED <<testVars, flags, buf, handles, dma, TXDR, RDR, isr, left, history>>

AddressLost ==
  /\ bus = "start" /\ Settled
  /\ Fault("nack")
  /\ bus' = "refused" /\ left' = 0
  /\ NACKF' = [NACKF EXCEPT ![hi2c1] = TRUE]
  /\ UNCHANGED <<testVars, flags, buf, handles, dma, TXDR, RDR, STOPF, damaged>>

Sender   == IF State[hi2c1] = "BUSY_TX" THEN hi2c1 ELSE hi2c2
Receiver == IF State[hi2c1] = "BUSY_TX" THEN hi2c2 ELSE hi2c1

(* A byte; the clock is stretched until there is one and room for it.      *)
Byte(got) ==
  /\ bus = "data" /\ left > 0 /\ Settled
  /\ TXDR[Sender] # << >> /\ RDR[Receiver] = NoByte
  /\ TXDR' = [TXDR EXCEPT ![Sender] = Tail(@)]
  /\ RDR' = [RDR EXCEPT ![Receiver] = got]
  /\ UNCHANGED <<testVars, flags, buf, handles, dma, STOPF>>

(* The master does not acknowledge the last byte it reads.                 *)
Acknowledged ==
  /\ left' = left - 1
  /\ NACKF' = [NACKF EXCEPT ![hi2c2] = @ \/ (Sender = hi2c2 /\ left = 1)]
  /\ UNCHANGED bus

Transfer == Byte(Head(TXDR[Sender])) /\ Acknowledged /\ UNCHANGED history

TransferFlipped ==
  \E b \in Bytes :
    /\ Byte(b) /\ Acknowledged
    /\ Fault("flip")
    /\ b # Head(TXDR[Sender]) /\ Damage(Head(TXDR[Sender]), b)

(* An acknowledge is missed: the master gives up, or the slave no longer   *)
(* drives the bus.                                                         *)
TransferRefused ==
  /\ Byte(Head(TXDR[Sender]))
  /\ Sender = hi2c2 => left > 1
  /\ Fault("nack")
  /\ NACKF' = [NACKF EXCEPT ![Sender] = TRUE]
  /\ left' = IF Sender = hi2c1 THEN 0 ELSE left - 1
  /\ bus' = IF Sender = hi2c1 THEN bus ELSE "released"
  /\ UNCHANGED damaged

IdleTransfer ==
  /\ bus = "released" /\ left > 0 /\ Settled
  /\ RDR[hi2c1] = NoByte
  /\ RDR' = [RDR EXCEPT ![hi2c1] = IdleByte]
  /\ left' = left - 1
  /\ IF TXDR[hi2c2] = << >> THEN UNCHANGED damaged ELSE Damage(Head(TXDR[hi2c2]), IdleByte)
  /\ UNCHANGED <<testVars, flags, buf, handles, dma, TXDR, isr, bus, faults, since>>

(* STOP follows the last byte at once; the slave sees it if it was         *)
(* addressed.                                                              *)
Stop ==
  /\ bus \in {"data", "released", "refused"} /\ left = 0 /\ Served
  /\ bus' = "free"
  /\ STOPF' = [p \in Ports |-> p = hi2c1 \/ bus # "refused"]
  /\ UNCHANGED <<testVars, flags, buf, handles, dma, TXDR, RDR, NACKF, left, history>>

Hold ==
  /\ bus = "free" /\ Settled
  /\ Fault("hold")
  /\ bus' = "held"
  /\ UNCHANGED <<testVars, flags, buf, handles, dma, TXDR, RDR, isr, left, damaged>>

LetGo ==
  /\ bus = "held"
  /\ bus' = "free"
  /\ UNCHANGED <<testVars, flags, buf, handles, dma, TXDR, RDR, isr, left, history>>

-----------------------------------------------------------------------------
MainStep == I2C_Test_Perform
IrqStep  == (\E p \in Ports : DmaCplt(p)) \/ AddrCplt
            \/ MasterNack \/ SlaveNack \/ MasterCplt \/ SlaveCplt
DmaStep  == \E p \in Ports : TxTransfer(p) \/ RxTransfer(p)
WireStep == Address \/ AddressLost \/ Transfer \/ TransferFlipped \/ TransferRefused
            \/ IdleTransfer \/ Stop \/ Hold \/ LetGo

Next == Begin \/ MainStep \/ IrqStep \/ DmaStep \/ WireStep

Spec == Init /\ [][Next]_vars

-----------------------------------------------------------------------------
(* A test that has returned leaves nothing behind: the master is ready, no *)
(* byte is in a register, no condition is unseen on the bus.  The slave is *)
(* left armed, with the DMA on a stack frame that is gone, only where a    *)
(* bus that was held made the test give up.                                *)
CleanBetweenTests ==
  pc = "idle" =>
    /\ State[hi2c1] = "READY" /\ StreamReady(hi2c1) /\ ~DMAEN[hi2c1]
    /\ \A p \in Ports : TXDR[p] = << >> /\ RDR[p] = NoByte /\ ~STOPF[p] /\ ~NACKF[p]
    /\ bus \in {"free", "held"}
    /\ \/ State[hi2c2] = "READY" /\ StreamReady(hi2c2) /\ ~DMAEN[hi2c2]
       \/ State[hi2c2] = "BUSY_RX" /\ verdict = "fail" /\ Happened({"hold"})

(* The slave sends, and the test compares, only bytes that were received,  *)
(* although both completions of a phase come in any order.                 *)
NothingUnwrittenRead ==
  /\ pc = "crc" => Len(buf[hi2c1]) = Len(msg)
  /\ State[hi2c2] = "BUSY_TX" => Len(buf[hi2c2]) = Len(msg)

(* What may keep the test waiting for ever.                                *)
Breaking == {"nack"}
=============================================================================
