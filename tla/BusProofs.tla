------------------------------- MODULE BusProofs -------------------------------
(***************************************************************************)
(* Proofs that every step keeps the invariants of the SPI and of the I2C   *)
(* test, and what follows from them:                                       *)
(*   SpiLeftClean           between its tests the SPI is at rest           *)
(*   SpiIsNeverBusy         no call of the test finds its handle busy      *)
(*   SpiReadsWhatItGot      it sends and compares what it has received     *)
(*   I2cLeftClean           the test leaves nothing behind but, after the  *)
(*                          bus was held, an armed slave                   *)
(*   I2cReadsWhatItGot      it sends and compares what it has received     *)
(***************************************************************************)
EXTENDS PeripheralInvariants, TLAPS

-----------------------------------------------------------------------------
(* SPI.                                                                    *)

LEMMA SpiDepth == FifoDepth \in Nat /\ FifoDepth > 0
  BY PeripheralAssumption

LEMMA SpiTestTypes ==
  Spi!TestTypeOK /\ [Spi!Next]_(Spi!vars) => (Spi!TestTypeOK)'
<1> SUFFICES ASSUME Spi!TestTypeOK, [Spi!Next]_(Spi!vars) PROVE (Spi!TestTypeOK)'
  OBVIOUS
<1> USE PeripheralAssumption DEF Spi!TestTypeOK, Spi!testVars, Spi!history
<1>1. CASE UNCHANGED Spi!vars
  BY <1>1 DEF Spi!vars
<1>2. CASE Spi!Begin
  BY <1>2 DEF Spi!Begin, Spi!BeginTest
<1>3. CASE Spi!MainStep
  <2>1. UNCHANGED <<msg, damaged, faults, since>>
    BY <1>3 DEF Spi!MainStep, Spi!SPI_Test_Perform, Spi!ReceiveDMA, Spi!TransmitDMA,
                Spi!WaitDone, Spi!MatchCRC
  <2>2. verdict' \in {"none", "pass", "fail"}
    BY <1>3 DEF Spi!MainStep, Spi!SPI_Test_Perform, Spi!ReceiveDMA, Spi!TransmitDMA,
                Spi!WaitDone, Spi!MatchCRC, Spi!Return, Spi!CrcVerdicts
  <2> QED
    BY <2>1, <2>2
<1>4. CASE Spi!IrqStep \/ Spi!DmaStep
  BY <1>4 DEF Spi!IrqStep, Spi!DmaStep, Spi!TransmitCplt, Spi!TransmitEnds,
              Spi!TransmitTimesOut, Spi!ReceiveCplt, Spi!TxTransfer, Spi!RxTransfer
<1>5. CASE Spi!WireStep
  <2>1. UNCHANGED <<msg, verdict>>
    BY <1>5 DEF Spi!WireStep, Spi!Shift, Spi!ShiftFlipped, Spi!SlaveMisses, Spi!Clock
  <2>2. \/ UNCHANGED <<faults, since>>
        \/ \E kind \in LineFaults :
             faults' = Append(faults, kind) /\ Len(faults) < MaxFaults /\ UNCHANGED since
    BY <1>5 DEF Spi!WireStep, Spi!Shift, Spi!ShiftFlipped, Spi!SlaveMisses, Spi!Fault
  <2>3. damaged' \in 0..2
    BY <1>5, SMTT(40) DEF Spi!WireStep, Spi!Shift, Spi!ShiftFlipped, Spi!SlaveMisses, Spi!DamageAt, Spi!Damage
  <2>4. /\ faults' \in Seq(LineFaults) /\ Len(faults') <= MaxFaults
        /\ since' \in 0..Len(faults')
    <3>1. CASE UNCHANGED <<faults, since>>
      BY <3>1
    <3>2. ASSUME NEW kind \in LineFaults, faults' = Append(faults, kind),
                 Len(faults) < MaxFaults, UNCHANGED since
          PROVE  <2>4!:
      <4>1. faults' \in Seq(LineFaults) /\ Len(faults') = Len(faults) + 1
        BY <3>2
      <4> QED
        BY <3>2, <4>1
    <3> QED
      BY <2>2, <3>1, <3>2
  <2> QED
    BY <2>1, <2>3, <2>4
<1> QED
  BY <1>1, <1>2, <1>3, <1>4, <1>5 DEF Spi!Next

(* What the types say of one port.                                         *)
LEMMA SpiFacts ==
  ASSUME SpiInv
  PROVE  /\ \A p \in Spi!Ports :
              /\ txNDTR[p] \in Nat /\ rxNDTR[p] \in Nat /\ spi_buf[p] \in Seq(Bytes)
              /\ txFifo[p] \in Seq(Bytes) /\ rxFifo[p] \in Seq(Bytes)
              /\ Len(txFifo[p]) \in Nat /\ Len(rxFifo[p]) \in Nat /\ Len(spi_buf[p]) \in Nat
              /\ Len(txFifo[p]) <= FifoDepth /\ Len(rxFifo[p]) <= FifoDepth
              /\ Len(spi_buf[p]) <= Len(msg)
         /\ msg \in Seq(Bytes) /\ Len(msg) \in Nat
         /\ damaged \in 0..2 /\ Len(faults) \in Nat /\ since \in 0..Len(faults)
         /\ FifoDepth \in Nat \ {0}
<1>1. /\ msg \in Seq(Bytes) /\ Len(msg) \in Nat
      /\ damaged \in 0..2 /\ Len(faults) \in Nat /\ since \in 0..Len(faults)
  BY DEF SpiInv, Spi!TypeOK, Spi!TestTypeOK, SpiProgress
<1>2. ASSUME NEW p \in Spi!Ports
      PROVE  /\ txNDTR[p] \in Nat /\ rxNDTR[p] \in Nat /\ spi_buf[p] \in Seq(Bytes)
             /\ txFifo[p] \in Seq(Bytes) /\ rxFifo[p] \in Seq(Bytes)
             /\ Len(txFifo[p]) <= FifoDepth /\ Len(rxFifo[p]) <= FifoDepth
             /\ Len(spi_buf[p]) <= Len(msg)
  BY DEF SpiInv, Spi!TypeOK
<1> QED
  BY <1>1, <1>2, SpiDepth

LEMMA SpiLeftNat ==
  ASSUME SpiInv, NEW p \in Spi!Ports PROVE SpiLeft(p) \in Nat
<1>1. txNDTR[p] \in Nat /\ Len(txFifo[p]) \in Nat
  BY SpiFacts
<1> QED
  BY <1>1 DEF SpiLeft

LEMMA SpiInit == Spi!Init => SpiInv
<1> SUFFICES ASSUME Spi!Init PROVE SpiInv
  OBVIOUS
<1> USE DEF Spi!Init, Spi!TestInit, Spi!Each, Spi!Ports, Spi!hspi1, Spi!hspi4, Spi!Nobody
<1>1. Spi!TypeOK
  <2>1. Spi!TestTypeOK
    BY PeripheralAssumption DEF Spi!TestTypeOK
  <2>2. << >> \in Seq(Bytes) /\ Len(<< >>) = 0
    OBVIOUS
  <2> QED
    BY <2>1, <2>2, PeripheralAssumption DEF Spi!TypeOK, Spi!Labels
<1>2. SpiPhases
  BY DEF SpiPhases, SpiAtRest, SpiNotSending, SpiNotReceiving, SpiMissed, Happened
<1>3. SpiProgress
  BY DEF SpiProgress
<1>4. SpiTexts
  BY DEF SpiTexts
<1> QED
  BY <1>1, <1>2, <1>3, <1>4 DEF SpiInv

LEMMA SpiTypes == SpiInv /\ [Spi!Next]_(Spi!vars) => (Spi!TypeOK)'
<1> SUFFICES ASSUME SpiInv, [Spi!Next]_(Spi!vars) PROVE (Spi!TypeOK)'
  OBVIOUS
<1>0. Spi!TypeOK /\ (Spi!TestTypeOK)' /\ msg \in Seq(Bytes)
  BY SpiTestTypes DEF SpiInv, Spi!TypeOK, SpiProgress
<1> USE DEF Spi!testVars, Spi!flags, Spi!txDma, Spi!rxDma, Spi!fifos, Spi!history,
            Spi!hspi1, Spi!hspi4, Spi!Ports
<1>1. CASE UNCHANGED Spi!vars
  BY <1>0, <1>1 DEF Spi!vars, Spi!TypeOK
<1>2. CASE Spi!Begin
  <2>1. /\ \A p \in Spi!Ports : spi_buf'[p] = << >>
        /\ spi_buf' \in [Spi!Ports -> Seq(Bytes)]
        /\ spi_tx_done' \in [Spi!Ports -> BOOLEAN] /\ spi_rx_done' \in [Spi!Ports -> BOOLEAN]
    BY <1>2 DEF Spi!Begin, Spi!Each
  <2>2. /\ msg' \in Seq(Bytes) /\ pc' \in Spi!Labels
    BY <1>2, PeripheralAssumption DEF Spi!Begin, Spi!BeginTest, Spi!Labels
  <2>3. \A p \in Spi!Ports : Len(spi_buf'[p]) <= Len(msg')
    BY <2>1, <2>2
  <2> QED
    BY <1>0, <1>2, <2>1, <2>2, <2>3 DEF Spi!Begin, Spi!TypeOK
<1>3. CASE Spi!MainStep
  <2>1. /\ UNCHANGED <<msg, spi_tx_done, spi_rx_done, spi_buf, txTCIF, rxTCIF, txFifo, rxFifo, polling>>
        /\ pc' \in Spi!Labels
    BY <1>3 DEF Spi!MainStep, Spi!SPI_Test_Perform, Spi!ReceiveDMA, Spi!TransmitDMA,
                Spi!WaitDone, Spi!MatchCRC, Spi!Return, Spi!Labels
  <2>2. /\ spi_State' \in [Spi!Ports -> {"READY", "BUSY_TX", "BUSY_RX"}]
        /\ txNDTR' \in [Spi!Ports -> Nat] /\ rxNDTR' \in [Spi!Ports -> Nat]
    BY <1>0, <1>3, SMTT(40) DEF Spi!MainStep, Spi!SPI_Test_Perform, Spi!ReceiveDMA, Spi!TransmitDMA,
                      Spi!WaitDone, Spi!MatchCRC, Spi!TransferLen, Spi!TypeOK
  <2> QED
    BY <1>0, <2>1, <2>2 DEF Spi!TypeOK
<1>4. CASE Spi!IrqStep
  <2>1. ASSUME NEW p \in Spi!Ports, Spi!TransmitEnds(p) PROVE (Spi!TypeOK)'
    <3>1. /\ rxFifo' \in [Spi!Ports -> Seq(Bytes)]
          /\ \A q \in Spi!Ports : rxFifo'[q] = << >> \/ rxFifo'[q] = rxFifo[q]
      BY <1>0, <2>1 DEF Spi!TransmitEnds, Spi!FlushRxFifo, Spi!TypeOK
    <3>2. \A q \in Spi!Ports : Len(rxFifo'[q]) <= FifoDepth
      <4>1. ASSUME NEW q \in Spi!Ports PROVE Len(rxFifo'[q]) <= FifoDepth
        <5>1. rxFifo'[q] = << >> \/ rxFifo'[q] = rxFifo[q]
          BY <3>1
        <5>2. Len(rxFifo[q]) <= FifoDepth
          BY <1>0 DEF Spi!TypeOK
        <5>3. Len(<< >>) <= FifoDepth
          BY SpiDepth
        <5> QED
          BY <5>1, <5>2, <5>3
      <4> QED
        BY <4>1
    <3> QED
      BY <1>0, <2>1, <3>1, <3>2 DEF Spi!TransmitEnds, Spi!TypeOK
  <2>2. ASSUME NEW p \in Spi!Ports, Spi!TransmitCplt(p) PROVE (Spi!TypeOK)'
    <3>1. /\ polling' \in Spi!Ports \cup {Spi!Nobody}
          /\ txTCIF' \in [Spi!Ports -> BOOLEAN]
      BY <1>0, <2>2 DEF Spi!TransmitCplt, Spi!TypeOK
    <3> QED
      BY <1>0, <2>2, <3>1 DEF Spi!TransmitCplt, Spi!TypeOK
  <2>3. ASSUME NEW p \in Spi!Ports, Spi!TransmitTimesOut(p) PROVE (Spi!TypeOK)'
    BY <1>0, <2>3 DEF Spi!TransmitTimesOut, Spi!TypeOK
  <2>4. ASSUME NEW p \in Spi!Ports, Spi!ReceiveCplt(p) PROVE (Spi!TypeOK)'
    BY <1>0, <2>4 DEF Spi!ReceiveCplt, Spi!Ready, Spi!RxCpltCallback, Spi!TypeOK
  <2> QED
    BY <1>4, <2>1, <2>2, <2>3, <2>4 DEF Spi!IrqStep
<1>5. ASSUME NEW p \in Spi!Ports, Spi!TxTransfer(p) PROVE (Spi!TypeOK)'
  <2>1. PICK b \in Bytes : txFifo' = [txFifo EXCEPT ![p] = Append(@, b)]
    <3>1. Spi!NextByte(p) \subseteq Bytes
      BY <1>0 DEF Spi!NextByte, Spi!Source, Spi!TypeOK
    <3> QED
      BY <1>5, <3>1 DEF Spi!TxTransfer
  <2>2. /\ txFifo' \in [Spi!Ports -> Seq(Bytes)]
        /\ \A q \in Spi!Ports : Len(txFifo'[q]) <= FifoDepth
    <3>1. Len(txFifo[p]) < FifoDepth /\ txFifo[p] \in Seq(Bytes) /\ FifoDepth \in Nat
      BY <1>0, <1>5, PeripheralAssumption DEF Spi!TxTransfer, Spi!TxRequest, Spi!HasRoom, Spi!TypeOK
    <3>2. Append(txFifo[p], b) \in Seq(Bytes) /\ Len(Append(txFifo[p], b)) <= FifoDepth
      BY <3>1
    <3> QED
      BY <1>0, <2>1, <3>2 DEF Spi!TypeOK
  <2>3. /\ txNDTR' \in [Spi!Ports -> Nat] /\ txTCIF' \in [Spi!Ports -> BOOLEAN]
    BY <1>0, <1>5, SMTT(40) DEF Spi!TxTransfer, Spi!TxRequest, Spi!TypeOK
  <2> QED
    BY <1>0, <1>5, <2>2, <2>3 DEF Spi!TxTransfer, Spi!TypeOK
<1>6. ASSUME NEW p \in Spi!Ports, Spi!RxTransfer(p) PROVE (Spi!TypeOK)'
  <2>1. rxFifo[p] # << >> /\ rxFifo[p] \in Seq(Bytes) /\ spi_buf[p] \in Seq(Bytes)
        /\ rxNDTR[p] > 0 /\ rxNDTR[p] \in Nat
    BY <1>0, <1>6 DEF Spi!RxTransfer, Spi!RxRequest, Spi!TypeOK
  <2>2. Head(rxFifo[p]) \in Bytes /\ Tail(rxFifo[p]) \in Seq(Bytes)
        /\ Len(Tail(rxFifo[p])) = Len(rxFifo[p]) - 1
    BY <2>1
  <2>3. /\ rxFifo' \in [Spi!Ports -> Seq(Bytes)]
        /\ \A q \in Spi!Ports : Len(rxFifo'[q]) <= FifoDepth
    <3>1. Len(Tail(rxFifo[p])) <= FifoDepth
      BY <1>0, <2>1, <2>2, SpiDepth, SMTT(40) DEF Spi!TypeOK
    <3> QED
      BY <1>0, <1>6, <2>2, <3>1 DEF Spi!RxTransfer, Spi!TypeOK
  <2>4. /\ spi_buf' \in [Spi!Ports -> Seq(Bytes)]
        /\ \A q \in Spi!Ports : Len(spi_buf'[q]) <= Len(msg')
    <3>1. Len(spi_buf[p]) + rxNDTR[p] = Len(msg)
      BY <2>1, <1>0, SMTT(40) DEF SpiInv, SpiPhases, SpiAtRest, SpiNotReceiving,
             SpiReceives, SpiSending, SpiReturning, Spi!TypeOK, Spi!Labels
    <3>2. Append(spi_buf[p], Head(rxFifo[p])) \in Seq(Bytes)
          /\ Len(Append(spi_buf[p], Head(rxFifo[p]))) = Len(spi_buf[p]) + 1
      BY <2>1, <2>2
    <3>3. Len(Append(spi_buf[p], Head(rxFifo[p]))) <= Len(msg) /\ msg' = msg
      BY <1>0, <1>6, <2>1, <3>1, <3>2 DEF Spi!RxTransfer
    <3> QED
      BY <1>0, <1>6, <3>2, <3>3 DEF Spi!RxTransfer, Spi!TypeOK
  <2>5. /\ rxNDTR' \in [Spi!Ports -> Nat] /\ rxTCIF' \in [Spi!Ports -> BOOLEAN]
    <3>1. rxNDTR[p] - 1 \in Nat /\ (rxNDTR[p] = 1) \in BOOLEAN
      BY <2>1
    <3>2. rxNDTR' = [rxNDTR EXCEPT ![p] = rxNDTR[p] - 1]
          /\ rxTCIF' = [rxTCIF EXCEPT ![p] = (rxNDTR[p] = 1)]
      BY <1>6 DEF Spi!RxTransfer
    <3> QED
      BY <1>0, <3>1, <3>2 DEF Spi!TypeOK
  <2> QED
    BY <1>0, <1>6, <2>3, <2>4, <2>5 DEF Spi!RxTransfer, Spi!TypeOK
<1>7. CASE Spi!WireStep
  <2>1. UNCHANGED <<pc, msg, spi_tx_done, spi_rx_done, spi_State, spi_buf, txNDTR, rxNDTR, txTCIF, rxTCIF, polling>>
        /\ txFifo[Spi!hspi1] # << >>
    BY <1>7 DEF Spi!WireStep, Spi!Shift, Spi!ShiftFlipped, Spi!SlaveMisses, Spi!Clock
  <2>2. \A p \in Spi!Ports, b \in Bytes :
          Spi!Received(p, b) \in Seq(Bytes) /\ Len(Spi!Received(p, b)) <= FifoDepth
    <3>1. ASSUME NEW p \in Spi!Ports, NEW b \in Bytes
          PROVE  Spi!Received(p, b) \in Seq(Bytes) /\ Len(Spi!Received(p, b)) <= FifoDepth
      <4>1. rxFifo[p] \in Seq(Bytes) /\ Len(rxFifo[p]) <= FifoDepth
        BY <1>0 DEF Spi!TypeOK
      <4>2. Append(rxFifo[p], b) \in Seq(Bytes) /\ Len(Append(rxFifo[p], b)) = Len(rxFifo[p]) + 1
        BY <4>1
      <4> QED
        BY <4>1, <4>2, SpiDepth DEF Spi!Received
    <3> QED
      BY <3>1
  <2>3. \A p \in Spi!Ports : Spi!Shifted(p) \in Seq(Bytes) /\ Len(Spi!Shifted(p)) <= FifoDepth
    <3>1. ASSUME NEW p \in Spi!Ports PROVE Spi!Shifted(p) \in Seq(Bytes) /\ Len(Spi!Shifted(p)) <= FifoDepth
      <4>1. txFifo[p] \in Seq(Bytes) /\ Len(txFifo[p]) <= FifoDepth /\ FifoDepth \in Nat
        BY <1>0, PeripheralAssumption DEF Spi!TypeOK
      <4> QED
        BY <4>1 DEF Spi!Shifted
    <3> QED
      BY <3>1
  <2>4. Spi!SlaveByte \subseteq Bytes /\ Head(txFifo[Spi!hspi1]) \in Bytes
    BY <1>0, <2>1 DEF Spi!SlaveByte, Spi!TypeOK
  <2>5. \/ \E mosi, miso \in Bytes : Spi!Exchange(mosi, miso)
        \/ Spi!SlaveMisses
    BY <1>7, <2>4 DEF Spi!WireStep, Spi!Shift, Spi!ShiftFlipped
  <2>6. /\ txFifo' \in [Spi!Ports -> Seq(Bytes)] /\ rxFifo' \in [Spi!Ports -> Seq(Bytes)]
        /\ \A p \in Spi!Ports : Len(txFifo'[p]) <= FifoDepth /\ Len(rxFifo'[p]) <= FifoDepth
    <3>1. ASSUME NEW mosi \in Bytes, NEW miso \in Bytes, Spi!Exchange(mosi, miso) PROVE <2>6!:
      BY <1>0, <2>2, <2>3, <3>1 DEF Spi!Exchange, Spi!TypeOK
    <3>2. CASE Spi!SlaveMisses
      <4>1. txFifo' = [txFifo EXCEPT ![Spi!hspi1] = Tail(@)]
        BY <3>2 DEF Spi!SlaveMisses
      <4>2. PICK got \in Bytes : rxFifo' = [rxFifo EXCEPT ![Spi!hspi1] = Spi!Received(Spi!hspi1, got)]
        BY <3>2 DEF Spi!SlaveMisses
      <4>3. Tail(txFifo[Spi!hspi1]) = Spi!Shifted(Spi!hspi1)
        BY <2>1 DEF Spi!Shifted
      <4> QED
        BY <1>0, <2>2, <2>3, <4>1, <4>2, <4>3 DEF Spi!TypeOK
    <3> QED
      BY <2>5, <3>1, <3>2
  <2> QED
    BY <1>0, <2>1, <2>6 DEF Spi!TypeOK
<1> QED
  BY <1>1, <1>2, <1>3, <1>4, <1>5, <1>6, <1>7 DEF Spi!Next, Spi!DmaStep

-----------------------------------------------------------------------------
(* A byte that one buffer hands to the next, or takes from the source, is  *)
(* still the same byte of the text.                                        *)
LEMMA ByteRead ==
  ASSUME NEW a \in Seq(Bytes), NEW b \in Seq(Bytes), NEW c \in Seq(Bytes), NEW src, NEW k \in Nat \ {0},
         b # << >>
  PROVE  OnTheWay(Append(a, Head(b)), Tail(b), c, src, k) = OnTheWay(a, b, c, src, k)
<1> DEFINE d == Append(a, Head(b))
<1>1. /\ Len(a) \in Nat /\ Len(b) \in Nat /\ Len(c) \in Nat /\ Len(b) > 0
      /\ Len(d) = Len(a) + 1 /\ Len(Tail(b)) = Len(b) - 1
  OBVIOUS
<1>2. /\ \A j \in 1..Len(a) : d[j] = a[j]
      /\ d[Len(a) + 1] = b[1]
      /\ \A j \in 1..Len(b) - 1 : Tail(b)[j] = b[j + 1]
  OBVIOUS
<1> HIDE DEF d
<1>3. CASE k <= Len(a)
  BY <1>1, <1>2, <1>3 DEF OnTheWay
<1>4. CASE k = Len(a) + 1
  BY <1>1, <1>2, <1>4 DEF OnTheWay
<1>5. CASE k > Len(a) + 1 /\ k <= Len(a) + Len(b)
  <2>1. Tail(b)[k - Len(d)] = b[k - Len(a)]
    <3>1. k - Len(d) \in 1..Len(b) - 1 /\ k - Len(d) + 1 = k - Len(a)
      BY <1>1, <1>5
    <3> QED
      BY <1>2, <3>1
  <2> QED
    BY <1>1, <1>5, <2>1 DEF OnTheWay
<1>6. CASE k > Len(a) + Len(b)
  BY <1>1, <1>6 DEF OnTheWay
<1> QED
  BY <1>1, <1>3, <1>4, <1>5, <1>6 DEF d

LEMMA ByteQueued ==
  ASSUME NEW a \in Seq(Bytes), NEW b \in Seq(Bytes), NEW c \in Seq(Bytes), NEW src, NEW k \in Nat \ {0},
         NEW next, next = src[Len(a) + Len(b) + Len(c) + 1]
  PROVE  OnTheWay(a, b, Append(c, next), src, k) = OnTheWay(a, b, c, src, k)
<1> DEFINE n == Len(a) + Len(b)
           d == Append(c, next)
<1>1. Len(a) \in Nat /\ Len(b) \in Nat /\ Len(c) \in Nat /\ Len(d) = Len(c) + 1
  OBVIOUS
<1>2. /\ \A j \in 1..Len(c) : d[j] = c[j]
      /\ d[Len(c) + 1] = next
  OBVIOUS
<1>3. n \in Nat /\ n >= Len(a) /\ n = Len(a) + Len(b) /\ next = src[n + Len(c) + 1]
  BY <1>1
<1> HIDE DEF d, n
<1>4. CASE k <= n
  BY <1>1, <1>3, <1>4 DEF OnTheWay
<1>5. CASE k > n /\ k <= n + Len(c)
  <2>1. k - n \in 1..Len(c)
    BY <1>1, <1>3, <1>5
  <2>2. d[k - n] = c[k - n]
    BY <1>2, <2>1
  <2> QED
    BY <1>1, <1>3, <1>5, <2>2 DEF OnTheWay
<1>6. CASE k = n + Len(c) + 1
  <2>1. k - n = Len(c) + 1
    BY <1>1, <1>3, <1>6
  <2> QED
    BY <1>1, <1>2, <1>3, <1>6, <2>1 DEF OnTheWay
<1>7. CASE k > n + Len(c) + 1
  BY <1>1, <1>3, <1>7 DEF OnTheWay
<1> QED
  BY <1>1, <1>3, <1>4, <1>5, <1>6, <1>7 DEF d, n

LEMMA ByteIndex ==
  ASSUME NEW a \in Nat, NEW b \in Nat, NEW c \in Nat, NEW n \in Nat, NEW m \in Nat, NEW r \in Nat,
         n > 0, r = b + (c + n), a + r = m
  PROVE  a + b + c + 1 = m - n + 1 /\ m - n + 1 \in 1..m
  OBVIOUS

(* The byte that is clocked out may get there as another one.              *)
LEMMA ByteClocked ==
  ASSUME NEW a \in Seq(Bytes), NEW b \in Seq(Bytes), NEW c \in Seq(Bytes), NEW src, NEW k \in Nat \ {0},
         NEW got, c # << >>, NEW here, here = Len(a) + Len(b) + 1
  PROVE  /\ OnTheWay(a, Append(b, got), Tail(c), src, k)
              = IF k = here THEN got ELSE OnTheWay(a, b, c, src, k)
         /\ OnTheWay(a, b, c, src, here) = Head(c)
<1> DEFINE n == Len(a) + Len(b)
           d == Append(b, got)
           e == Tail(c)
<1>1. /\ Len(a) \in Nat /\ Len(b) \in Nat /\ Len(c) \in Nat /\ Len(c) > 0
      /\ Len(d) = Len(b) + 1 /\ Len(e) = Len(c) - 1
  OBVIOUS
<1>2. /\ \A j \in 1..Len(b) : d[j] = b[j]
      /\ d[Len(b) + 1] = got /\ c[1] = Head(c)
      /\ \A j \in 1..Len(c) - 1 : e[j] = c[j + 1]
  OBVIOUS
<1>3. n \in Nat /\ n >= Len(a) /\ n = Len(a) + Len(b) /\ here = n + 1
  BY <1>1
<1> HIDE DEF d, e, n
<1>4. OnTheWay(a, b, c, src, n + 1) = Head(c)
  BY <1>1, <1>2, <1>3 DEF OnTheWay
<1>5. CASE k <= n
  <2>1. k > Len(a) => k - Len(a) \in 1..Len(b)
    BY <1>1, <1>3, <1>5
  <2>2. k > Len(a) => d[k - Len(a)] = b[k - Len(a)]
    BY <1>2, <2>1
  <2> QED
    BY <1>1, <1>3, <1>5, <2>2 DEF OnTheWay
<1>6. CASE k = n + 1
  <2>1. k - Len(a) = Len(b) + 1
    BY <1>1, <1>3, <1>6
  <2> QED
    BY <1>1, <1>2, <1>3, <1>6, <2>1 DEF OnTheWay
<1>7. CASE k > n + 1 /\ k <= n + Len(c)
  <2>1. k - (Len(a) + Len(d)) \in 1..Len(c) - 1 /\ k - (Len(a) + Len(d)) + 1 = k - n
    BY <1>1, <1>3, <1>7
  <2>2. e[k - (Len(a) + Len(d))] = c[k - n]
    BY <1>2, <2>1
  <2> QED
    BY <1>1, <1>3, <1>7, <2>2, SMTT(40) DEF OnTheWay
<1>8. CASE k > n + Len(c)
  BY <1>1, <1>3, <1>8 DEF OnTheWay
<1> QED
  BY <1>1, <1>3, <1>4, <1>5, <1>6, <1>7, <1>8 DEF d, e, n

-----------------------------------------------------------------------------
(* The steps of the test.                                                  *)

SpiRest == SpiPhases /\ SpiProgress /\ SpiTexts

LEMMA SpiStutter == SpiInv /\ UNCHANGED Spi!vars => SpiRest'
<1> SUFFICES ASSUME SpiInv, UNCHANGED Spi!vars PROVE SpiRest'
  OBVIOUS
<1> USE DEF Spi!vars, Spi!testVars, Spi!flags, Spi!txDma, Spi!rxDma, Spi!fifos, Spi!history
<1>1. SpiPhases'
  BY DEF SpiInv, SpiPhases, SpiAtRest, SpiNotSending, SpiNotReceiving, SpiSends, SpiReceives,
         SpiSending, SpiReturning, SpiLeft, SpiMissed, Happened
<1>2. SpiProgress'
  BY DEF SpiInv, SpiProgress
<1>3. SpiTexts'
  BY DEF SpiInv, SpiTexts, SpiToSlave, SpiToMaster, SpiMissed, Happened, OwnFault, Told
<1> QED
  BY <1>1, <1>2, <1>3 DEF SpiRest

LEMMA SpiBegin == SpiInv /\ Spi!Begin => SpiRest'
<1> SUFFICES ASSUME SpiInv, Spi!Begin PROVE SpiRest'
  OBVIOUS
<1> USE DEF Spi!testVars, Spi!flags, Spi!txDma, Spi!rxDma, Spi!fifos, Spi!history,
            Spi!Ports, Spi!hspi1, Spi!hspi4
<1>1. /\ pc = "idle" /\ pc' = "start" /\ verdict' = "none" /\ damaged' = 0
      /\ msg' \in Seq(Bytes) /\ since' = Len(faults)
      /\ UNCHANGED <<faults, spi_State, txNDTR, txTCIF, rxNDTR, rxTCIF, txFifo, rxFifo, polling>>
      /\ spi_tx_done' = Spi!Each(FALSE) /\ spi_rx_done' = Spi!Each(FALSE)
      /\ spi_buf' = Spi!Each(<< >>)
  BY PeripheralAssumption DEF Spi!Begin, Spi!BeginTest
<1>2. SpiPhases'
  BY <1>1 DEF SpiInv, SpiPhases, SpiAtRest, SpiNotSending, SpiNotReceiving, SpiMissed, Happened
<1>3. SpiProgress'
  BY <1>1 DEF SpiProgress, Spi!Each
<1>4. SpiTexts'
  BY <1>1 DEF SpiTexts
<1> QED
  BY <1>2, <1>3, <1>4 DEF SpiRest

(* The slave is armed, unless the message is empty.                        *)
LEMMA SpiArm == SpiInv /\ Spi!ReceiveDMA(Spi!hspi4, "start", "transmit1") => SpiRest'
<1> SUFFICES ASSUME SpiInv, Spi!ReceiveDMA(Spi!hspi4, "start", "transmit1") PROVE SpiRest'
  OBVIOUS
<1> USE DEF Spi!testVars, Spi!flags, Spi!txDma, Spi!rxDma, Spi!fifos, Spi!history,
            Spi!Ports, Spi!hspi1, Spi!hspi4
<1>0. SpiPhases /\ SpiProgress /\ SpiTexts /\ Spi!TypeOK
  BY DEF SpiInv
<1>1. /\ pc = "start"
      /\ UNCHANGED <<msg, spi_tx_done, spi_rx_done, spi_buf, txTCIF, rxTCIF, txFifo, rxFifo,
                     polling, damaged, faults, since>>
  BY DEF Spi!ReceiveDMA
<1>2. SpiAtRest(Spi!hspi1) /\ SpiAtRest(Spi!hspi4) /\ (SpiMissed' <=> SpiMissed)
      /\ ~SpiMissed /\ damaged = 0
  BY <1>0, <1>1 DEF SpiPhases, SpiMissed, Happened, SpiTexts
<1>3. CASE msg = << >>
  <2>1. pc' = "idle" /\ verdict' = "fail" /\ UNCHANGED <<spi_State, rxNDTR, txNDTR>>
    BY <1>3 DEF Spi!ReceiveDMA, Spi!CanStart, Spi!Return
  <2>2. SpiPhases'
    BY <1>1, <1>2, <2>1 DEF SpiPhases, SpiAtRest, SpiNotSending, SpiNotReceiving
  <2>3. SpiProgress' /\ SpiTexts'
    BY <1>0, <1>1, <1>3, <2>1 DEF SpiProgress, SpiTexts, OwnFault
  <2> QED
    BY <2>2, <2>3 DEF SpiRest
<1>4. CASE msg # << >>
  <2>1. /\ spi_State' = [spi_State EXCEPT ![Spi!hspi4] = "BUSY_RX"]
        /\ rxNDTR' = [rxNDTR EXCEPT ![Spi!hspi4] = Len(msg)]
        /\ txNDTR' = [txNDTR EXCEPT ![Spi!hspi4] = txNDTR[Spi!hspi4]]
        /\ pc' = "transmit1" /\ verdict' = verdict
    BY <1>2, <1>4 DEF Spi!ReceiveDMA, Spi!CanStart, Spi!TransferLen, SpiAtRest, SpiNotReceiving
  <2>2. /\ rxNDTR'[Spi!hspi4] = Len(msg) /\ spi_State'[Spi!hspi4] = "BUSY_RX"
        /\ rxNDTR'[Spi!hspi1] = rxNDTR[Spi!hspi1] /\ spi_State'[Spi!hspi1] = spi_State[Spi!hspi1]
        /\ txNDTR' = txNDTR
    BY <1>0, <2>1 DEF Spi!TypeOK
  <2>3. /\ spi_buf[Spi!hspi4] = << >> /\ ~spi_rx_done[Spi!hspi4]
        /\ Len(msg) > 0 /\ Len(<< >>) + Len(msg) = Len(msg)
    BY <1>0, <1>1, <1>4 DEF SpiProgress
  <2>4. SpiReceives(Spi!hspi4)'
    BY <1>1, <1>2, <2>2, <2>3 DEF SpiReceives, SpiAtRest, SpiNotReceiving
  <2>5. SpiAtRest(Spi!hspi1)' /\ SpiNotSending(Spi!hspi4)' /\ rxFifo'[Spi!hspi4] = << >>
    BY <1>1, <1>2, <2>2 DEF SpiAtRest, SpiNotSending, SpiNotReceiving
  <2>6. SpiPhases'
    BY <1>1, <1>2, <2>1, <2>2, <2>4, <2>5 DEF SpiPhases
  <2>7. SpiProgress' /\ SpiTexts'
    BY <1>0, <1>1, <1>4, <2>1 DEF SpiProgress, SpiTexts, OwnFault
  <2> QED
    BY <2>6, <2>7 DEF SpiRest
<1> QED
  BY <1>3, <1>4

(* The master begins to send.                                              *)
LEMMA SpiSend == SpiInv /\ Spi!TransmitDMA(Spi!hspi1, "transmit1", "wait1") => SpiRest'
<1> SUFFICES ASSUME SpiInv, Spi!TransmitDMA(Spi!hspi1, "transmit1", "wait1") PROVE SpiRest'
  OBVIOUS
<1> USE DEF Spi!testVars, Spi!flags, Spi!txDma, Spi!rxDma, Spi!fifos, Spi!history,
            Spi!Ports, Spi!hspi1, Spi!hspi4
<1>0. SpiPhases /\ SpiProgress /\ SpiTexts /\ Spi!TypeOK
  BY DEF SpiInv
<1>1. /\ pc = "transmit1"
      /\ UNCHANGED <<msg, spi_tx_done, spi_rx_done, spi_buf, txTCIF, rxTCIF, rxNDTR, txFifo, rxFifo,
                     polling, damaged, faults, since>>
  BY DEF Spi!TransmitDMA
<1>2. /\ SpiAtRest(Spi!hspi1) /\ SpiReceives(Spi!hspi4) /\ SpiNotSending(Spi!hspi4)
      /\ rxFifo[Spi!hspi4] = << >> /\ rxNDTR[Spi!hspi4] = Len(msg)
      /\ (SpiMissed' <=> SpiMissed) /\ ~SpiMissed
  BY <1>0, <1>1 DEF SpiPhases, SpiMissed, Happened
<1>3. msg # << >> /\ msg \in Seq(Bytes) /\ Len(msg) > 0 /\ Len(msg) \in Nat
  BY <1>0, <1>1 DEF SpiProgress
<1>4. /\ spi_State' = [spi_State EXCEPT ![Spi!hspi1] = "BUSY_TX"]
      /\ txNDTR' = [txNDTR EXCEPT ![Spi!hspi1] = Len(msg)]
      /\ pc' = "wait1" /\ verdict' = verdict
  BY <1>2, <1>3 DEF Spi!TransmitDMA, Spi!CanStart, Spi!TransferLen, SpiAtRest, SpiNotSending
<1>5. /\ txNDTR'[Spi!hspi1] = Len(msg) /\ spi_State'[Spi!hspi1] = "BUSY_TX"
      /\ txNDTR'[Spi!hspi4] = txNDTR[Spi!hspi4] /\ spi_State'[Spi!hspi4] = spi_State[Spi!hspi4]
  BY <1>0, <1>4 DEF Spi!TypeOK
<1>6. SpiSends(Spi!hspi1)'
  <2>1. ~spi_tx_done[Spi!hspi1]
    BY <1>0, <1>1 DEF SpiProgress
  <2> QED
    BY <1>1, <1>2, <1>3, <1>5, <2>1 DEF SpiSends, SpiAtRest, SpiNotSending
<1>7. SpiReceives(Spi!hspi4)' /\ SpiNotSending(Spi!hspi4)' /\ SpiNotReceiving(Spi!hspi1)'
  BY <1>1, <1>2, <1>5 DEF SpiReceives, SpiNotSending, SpiNotReceiving, SpiAtRest
<1>8. rxNDTR'[Spi!hspi4] = Len(rxFifo'[Spi!hspi4]) + SpiLeft(Spi!hspi1)'
  <2>1. Len(rxFifo'[Spi!hspi4]) = 0 /\ Len(txFifo'[Spi!hspi1]) = 0
    BY <1>1, <1>2 DEF SpiAtRest, SpiNotSending
  <2> QED
    BY <1>1, <1>2, <1>3, <1>5, <2>1 DEF SpiLeft
<1>9. SpiPhases'
  BY <1>2, <1>4, <1>6, <1>7, <1>8 DEF SpiPhases, SpiSending
<1>10. SpiProgress'
  BY <1>0, <1>1, <1>3, <1>4 DEF SpiProgress
<1>11. SpiTexts'
  <2>1. damaged = 0 /\ verdict = "none"
    BY <1>0, <1>1 DEF SpiTexts, Spi!TypeOK, Spi!TestTypeOK
  <2>2. \A k \in 1..Len(msg) : SpiToSlave(k)' = msg[k]
    <3>1. Len(spi_buf'[Spi!hspi4]) = 0 /\ Len(rxFifo'[Spi!hspi4]) = 0 /\ Len(txFifo'[Spi!hspi1]) = 0
      BY <1>0, <1>1, <1>2 DEF SpiAtRest, SpiNotSending, SpiProgress
    <3> QED
      BY <1>1, <3>1 DEF SpiToSlave, OnTheWay
  <2> QED
    BY <1>1, <1>4, <2>1, <2>2 DEF SpiTexts, Told
<1> QED
  BY <1>9, <1>10, <1>11 DEF SpiRest

(* The slave has what the master has sent.                                 *)
LEMMA SpiSent == SpiInv /\ Spi!WaitDone(Spi!hspi1, Spi!hspi4, "wait1", "transmit4") => SpiRest'
<1> SUFFICES ASSUME SpiInv, Spi!WaitDone(Spi!hspi1, Spi!hspi4, "wait1", "transmit4") PROVE SpiRest'
  OBVIOUS
<1> USE DEF Spi!testVars, Spi!flags, Spi!txDma, Spi!rxDma, Spi!fifos, Spi!history,
            Spi!Ports, Spi!hspi1, Spi!hspi4
<1>0. SpiPhases /\ SpiProgress /\ SpiTexts /\ Spi!TypeOK
  BY DEF SpiInv
<1>1. /\ pc = "wait1" /\ pc' = "transmit4" /\ spi_tx_done[Spi!hspi1] /\ spi_rx_done[Spi!hspi4]
      /\ UNCHANGED <<msg, verdict, spi_State, spi_tx_done, spi_rx_done, spi_buf, txNDTR, txTCIF,
                     rxTCIF, rxNDTR, txFifo, rxFifo, polling, damaged, faults, since>>
  BY DEF Spi!WaitDone, Spi!BothDone
<1>2. SpiSending /\ (SpiMissed' <=> SpiMissed)
  BY <1>0, <1>1 DEF SpiPhases, SpiMissed, Happened
<1>3. /\ spi_State[Spi!hspi1] = "READY" /\ txNDTR[Spi!hspi1] = 0 /\ ~txTCIF[Spi!hspi1]
      /\ polling # Spi!hspi1 /\ txFifo[Spi!hspi1] = << >> /\ rxFifo[Spi!hspi1] = << >>
  BY <1>1, <1>2 DEF SpiSending, SpiSends
<1>4. /\ spi_State[Spi!hspi4] = "READY" /\ rxNDTR[Spi!hspi4] = 0 /\ ~rxTCIF[Spi!hspi4]
      /\ Len(spi_buf[Spi!hspi4]) = Len(msg)
  <2>1. Len(spi_buf[Spi!hspi4]) + rxNDTR[Spi!hspi4] = Len(msg) /\ rxNDTR[Spi!hspi4] = 0
    BY <1>1, <1>2 DEF SpiSending, SpiReceives
  <2>2. Len(spi_buf[Spi!hspi4]) \in Nat /\ Len(msg) \in Nat
    BY SpiFacts
  <2> QED
    BY <1>1, <1>2, <2>1, <2>2 DEF SpiSending, SpiReceives
<1>5. ~SpiMissed /\ rxFifo[Spi!hspi4] = << >>
  <2>1. SpiLeft(Spi!hspi1) = 0
    BY <1>3 DEF SpiLeft
  <2>2. Len(rxFifo[Spi!hspi4]) \in Nat /\ rxFifo[Spi!hspi4] \in Seq(Bytes)
    BY SpiFacts
  <2>3. ~SpiMissed /\ Len(rxFifo[Spi!hspi4]) = 0
    BY <1>2, <1>4, <2>1, <2>2 DEF SpiSending
  <2> QED
    BY <2>2, <2>3
<1>6. SpiAtRest(Spi!hspi1) /\ SpiAtRest(Spi!hspi4)
  BY <1>2, <1>3, <1>4, <1>5 DEF SpiSending, SpiAtRest, SpiNotSending, SpiNotReceiving
<1>7. SpiPhases'
  BY <1>1, <1>2, <1>5, <1>6 DEF SpiPhases, SpiAtRest, SpiNotSending, SpiNotReceiving
<1>8. SpiProgress'
  BY <1>0, <1>1, <1>4 DEF SpiProgress
<1>9. SpiTexts'
  <2>1. \A k \in 1..Len(msg) : SpiToSlave(k)' = SpiToSlave(k)
    BY <1>1 DEF SpiToSlave
  <2> QED
    BY <1>0, <1>1, <1>2, <2>1 DEF SpiTexts, OwnFault, Told
<1> QED
  BY <1>7, <1>8, <1>9 DEF SpiRest

(* The slave begins to send back what it has got.                          *)
LEMMA SpiSendBack == SpiInv /\ Spi!TransmitDMA(Spi!hspi4, "transmit4", "receive1") => SpiRest'
<1> SUFFICES ASSUME SpiInv, Spi!TransmitDMA(Spi!hspi4, "transmit4", "receive1") PROVE SpiRest'
  OBVIOUS
<1> USE DEF Spi!testVars, Spi!flags, Spi!txDma, Spi!rxDma, Spi!fifos, Spi!history,
            Spi!Ports, Spi!hspi1, Spi!hspi4
<1>0. SpiPhases /\ SpiProgress /\ SpiTexts /\ Spi!TypeOK
  BY DEF SpiInv
<1>1. /\ pc = "transmit4"
      /\ UNCHANGED <<msg, spi_tx_done, spi_rx_done, spi_buf, txTCIF, rxTCIF, rxNDTR, txFifo, rxFifo,
                     polling, damaged, faults, since>>
  BY DEF Spi!TransmitDMA
<1>2. /\ SpiAtRest(Spi!hspi1) /\ SpiAtRest(Spi!hspi4)
      /\ (SpiMissed' <=> SpiMissed) /\ ~SpiMissed
  BY <1>0, <1>1 DEF SpiPhases, SpiMissed, Happened
<1>3. /\ msg # << >> /\ msg \in Seq(Bytes) /\ Len(msg) > 0 /\ Len(msg) \in Nat
      /\ Len(spi_buf[Spi!hspi4]) = Len(msg) /\ ~spi_tx_done[Spi!hspi4]
  BY <1>0, <1>1 DEF SpiProgress
<1>4. /\ spi_State' = [spi_State EXCEPT ![Spi!hspi4] = "BUSY_TX"]
      /\ txNDTR' = [txNDTR EXCEPT ![Spi!hspi4] = Len(msg)]
      /\ pc' = "receive1" /\ verdict' = verdict
  BY <1>2, <1>3 DEF Spi!TransmitDMA, Spi!CanStart, Spi!TransferLen, SpiAtRest, SpiNotSending
<1>5. /\ txNDTR'[Spi!hspi4] = Len(msg) /\ spi_State'[Spi!hspi4] = "BUSY_TX"
      /\ txNDTR'[Spi!hspi1] = txNDTR[Spi!hspi1] /\ spi_State'[Spi!hspi1] = spi_State[Spi!hspi1]
  BY <1>0, <1>4 DEF Spi!TypeOK
<1>6. SpiSends(Spi!hspi4)' /\ SpiNotReceiving(Spi!hspi4)' /\ rxFifo'[Spi!hspi4] = << >>
  BY <1>1, <1>2, <1>3, <1>5 DEF SpiSends, SpiAtRest, SpiNotSending, SpiNotReceiving
<1>7. SpiAtRest(Spi!hspi1)'
  BY <1>1, <1>2, <1>5 DEF SpiAtRest, SpiNotSending, SpiNotReceiving
<1>8. SpiLeft(Spi!hspi4)' = Len(msg)
  <2>1. Len(txFifo'[Spi!hspi4]) = 0
    BY <1>1, <1>2 DEF SpiAtRest, SpiNotSending
  <2> QED
    BY <1>3, <1>5, <2>1 DEF SpiLeft
<1>9. SpiPhases'
  BY <1>1, <1>2, <1>4, <1>6, <1>7, <1>8 DEF SpiPhases
<1>10. SpiProgress'
  BY <1>0, <1>1, <1>3, <1>4 DEF SpiProgress
<1>11. SpiTexts'
  <2>1. \A k \in 1..Len(msg) : SpiToSlave(k) = spi_buf[Spi!hspi4][k]
    BY <1>3 DEF SpiToSlave, OnTheWay
  <2>2. \A k \in 1..Len(msg) : SpiToMaster(k)' = spi_buf[Spi!hspi4][k]
    <3>1. Len(spi_buf'[Spi!hspi1]) = 0 /\ Len(rxFifo'[Spi!hspi1]) = 0 /\ Len(txFifo'[Spi!hspi4]) = 0
      BY <1>0, <1>1, <1>2 DEF SpiAtRest, SpiNotSending, SpiProgress
    <3> QED
      BY <1>1, <3>1 DEF SpiToMaster, OnTheWay
  <2> QED
    BY <1>0, <1>1, <1>2, <1>4, <2>1, <2>2 DEF SpiTexts, OwnFault, Told
<1> QED
  BY <1>9, <1>10, <1>11 DEF SpiRest

(* The master begins to receive, and to send in order to receive.          *)
LEMMA SpiReceive == SpiInv /\ Spi!ReceiveDMA(Spi!hspi1, "receive1", "wait2") => SpiRest'
<1> SUFFICES ASSUME SpiInv, Spi!ReceiveDMA(Spi!hspi1, "receive1", "wait2") PROVE SpiRest'
  OBVIOUS
<1> USE DEF Spi!testVars, Spi!flags, Spi!txDma, Spi!rxDma, Spi!fifos, Spi!history,
            Spi!Ports, Spi!hspi1, Spi!hspi4
<1>0. SpiPhases /\ SpiProgress /\ SpiTexts /\ Spi!TypeOK
  BY DEF SpiInv
<1>1. /\ pc = "receive1"
      /\ UNCHANGED <<msg, spi_tx_done, spi_rx_done, spi_buf, txTCIF, rxTCIF, txFifo, rxFifo,
                     polling, damaged, faults, since>>
  BY DEF Spi!ReceiveDMA
<1>2. /\ SpiAtRest(Spi!hspi1) /\ SpiSends(Spi!hspi4) /\ SpiNotReceiving(Spi!hspi4)
      /\ rxFifo[Spi!hspi4] = << >> /\ SpiLeft(Spi!hspi4) = Len(msg)
      /\ (SpiMissed' <=> SpiMissed) /\ ~SpiMissed
  BY <1>0, <1>1 DEF SpiPhases, SpiMissed, Happened
<1>3. /\ msg # << >> /\ msg \in Seq(Bytes) /\ Len(msg) > 0 /\ Len(msg) \in Nat
      /\ spi_buf[Spi!hspi1] = << >> /\ ~spi_rx_done[Spi!hspi1]
      /\ Len(spi_buf[Spi!hspi4]) = Len(msg)
  BY <1>0, <1>1 DEF SpiProgress
<1>4. /\ spi_State' = [spi_State EXCEPT ![Spi!hspi1] = "BUSY_RX"]
      /\ rxNDTR' = [rxNDTR EXCEPT ![Spi!hspi1] = Len(msg)]
      /\ txNDTR' = [txNDTR EXCEPT ![Spi!hspi1] = Len(msg)]
      /\ pc' = "wait2" /\ verdict' = verdict
  BY <1>2, <1>3 DEF Spi!ReceiveDMA, Spi!CanStart, Spi!TransferLen, SpiAtRest, SpiNotReceiving, SpiNotSending
<1>5. /\ rxNDTR'[Spi!hspi1] = Len(msg) /\ txNDTR'[Spi!hspi1] = Len(msg)
      /\ spi_State'[Spi!hspi1] = "BUSY_RX"
      /\ rxNDTR'[Spi!hspi4] = rxNDTR[Spi!hspi4] /\ txNDTR'[Spi!hspi4] = txNDTR[Spi!hspi4]
      /\ spi_State'[Spi!hspi4] = spi_State[Spi!hspi4]
  BY <1>0, <1>4 DEF Spi!TypeOK
<1>6. SpiSends(Spi!hspi4)' /\ SpiNotReceiving(Spi!hspi4)' /\ SpiLeft(Spi!hspi4)' = Len(msg)
  BY <1>1, <1>2, <1>5 DEF SpiSends, SpiNotReceiving, SpiLeft
<1>7. SpiReceives(Spi!hspi1)' /\ polling' # Spi!hspi1 /\ ~txTCIF'[Spi!hspi1]
  <2>1. Len(spi_buf'[Spi!hspi1]) + Len(msg) = Len(msg)
    BY <1>1, <1>3
  <2> QED
    BY <1>1, <1>2, <1>3, <1>5, <2>1 DEF SpiReceives, SpiAtRest, SpiNotReceiving, SpiNotSending
<1>8. /\ SpiLeft(Spi!hspi1)' = Len(msg)
      /\ rxNDTR'[Spi!hspi1] = Len(rxFifo'[Spi!hspi1]) + SpiLeft(Spi!hspi1)'
  <2>1. Len(rxFifo'[Spi!hspi1]) = 0 /\ Len(txFifo'[Spi!hspi1]) = 0
    BY <1>1, <1>2 DEF SpiAtRest, SpiNotSending
  <2> QED
    BY <1>3, <1>5, <2>1 DEF SpiLeft
<1>9. SpiPhases'
  BY <1>2, <1>4, <1>6, <1>7, <1>8 DEF SpiPhases, SpiReturning
<1>10. SpiProgress'
  BY <1>0, <1>1, <1>3, <1>4 DEF SpiProgress
<1>11. SpiTexts'
  <2>1. \A k \in 1..Len(msg) : SpiToMaster(k)' = SpiToMaster(k)
    BY <1>1 DEF SpiToMaster
  <2> QED
    BY <1>0, <1>1, <1>2, <1>4, <2>1 DEF SpiTexts, OwnFault, Told
<1> QED
  BY <1>9, <1>10, <1>11 DEF SpiRest

(* The master has what the slave has sent back.                            *)
LEMMA SpiReturned == SpiInv /\ Spi!WaitDone(Spi!hspi4, Spi!hspi1, "wait2", "crc") => SpiRest'
<1> SUFFICES ASSUME SpiInv, Spi!WaitDone(Spi!hspi4, Spi!hspi1, "wait2", "crc") PROVE SpiRest'
  OBVIOUS
<1> USE DEF Spi!testVars, Spi!flags, Spi!txDma, Spi!rxDma, Spi!fifos, Spi!history,
            Spi!Ports, Spi!hspi1, Spi!hspi4
<1>0. SpiPhases /\ SpiProgress /\ SpiTexts /\ Spi!TypeOK
  BY DEF SpiInv
<1>1. /\ pc = "wait2" /\ pc' = "crc" /\ spi_tx_done[Spi!hspi4] /\ spi_rx_done[Spi!hspi1]
      /\ polling = Spi!Nobody /\ ~txTCIF[Spi!hspi1]
      /\ UNCHANGED <<msg, verdict, spi_State, spi_tx_done, spi_rx_done, spi_buf, txNDTR, txTCIF,
                     rxTCIF, rxNDTR, txFifo, rxFifo, polling, damaged, faults, since>>
  BY DEF Spi!WaitDone, Spi!BothDone, Spi!MainRuns
<1>2. SpiReturning /\ (SpiMissed' <=> SpiMissed)
  BY <1>0, <1>1 DEF SpiPhases, SpiMissed, Happened
<1>3. /\ spi_State[Spi!hspi4] = "READY" /\ txNDTR[Spi!hspi4] = 0 /\ ~txTCIF[Spi!hspi4]
      /\ polling # Spi!hspi4 /\ txFifo[Spi!hspi4] = << >> /\ rxFifo[Spi!hspi4] = << >>
  BY <1>1, <1>2 DEF SpiReturning, SpiSends
<1>4. /\ spi_State[Spi!hspi1] = "READY" /\ rxNDTR[Spi!hspi1] = 0 /\ ~rxTCIF[Spi!hspi1]
      /\ Len(spi_buf[Spi!hspi1]) = Len(msg)
  <2>1. Len(spi_buf[Spi!hspi1]) + rxNDTR[Spi!hspi1] = Len(msg) /\ rxNDTR[Spi!hspi1] = 0
    BY <1>1, <1>2 DEF SpiReturning, SpiReceives
  <2>2. Len(spi_buf[Spi!hspi1]) \in Nat /\ Len(msg) \in Nat
    BY SpiFacts
  <2> QED
    BY <1>1, <1>2, <2>1, <2>2 DEF SpiReturning, SpiReceives
<1>5. ~SpiMissed /\ rxFifo[Spi!hspi1] = << >> /\ txFifo[Spi!hspi1] = << >> /\ txNDTR[Spi!hspi1] = 0
  <2>1. SpiLeft(Spi!hspi4) = 0
    BY <1>3 DEF SpiLeft
  <2>2. /\ Len(rxFifo[Spi!hspi1]) \in Nat /\ rxFifo[Spi!hspi1] \in Seq(Bytes)
        /\ Len(txFifo[Spi!hspi1]) \in Nat /\ txFifo[Spi!hspi1] \in Seq(Bytes)
        /\ txNDTR[Spi!hspi1] \in Nat
    BY SpiFacts
  <2>3. Len(rxFifo[Spi!hspi1]) = 0 /\ Len(txFifo[Spi!hspi1]) = 0 /\ txNDTR[Spi!hspi1] = 0
    BY <1>2, <1>4, <2>2 DEF SpiReturning, SpiLeft
  <2>4. ~SpiMissed
    BY <1>2, <2>1, <2>3 DEF SpiReturning, SpiLeft
  <2> QED
    BY <2>2, <2>3, <2>4
<1>6. SpiAtRest(Spi!hspi1) /\ SpiAtRest(Spi!hspi4)
  BY <1>1, <1>2, <1>3, <1>4, <1>5 DEF SpiReturning, SpiAtRest, SpiNotSending, SpiNotReceiving
<1>7. SpiPhases'
  BY <1>1, <1>2, <1>5, <1>6 DEF SpiPhases, SpiAtRest, SpiNotSending, SpiNotReceiving
<1>8. SpiProgress'
  BY <1>0, <1>1, <1>4 DEF SpiProgress
<1>9. SpiTexts'
  <2>1. \A k \in 1..Len(msg) : SpiToMaster(k)' = SpiToMaster(k)
    BY <1>1 DEF SpiToMaster
  <2> QED
    BY <1>0, <1>1, <1>2, <2>1 DEF SpiTexts, OwnFault, Told
<1> QED
  BY <1>7, <1>8, <1>9 DEF SpiRest

(* The verdict.                                                            *)
LEMMA SpiMatchCRC == SpiInv /\ Spi!MatchCRC => SpiRest'
<1> SUFFICES ASSUME SpiInv, Spi!MatchCRC PROVE SpiRest'
  OBVIOUS
<1> USE DEF Spi!testVars, Spi!flags, Spi!txDma, Spi!rxDma, Spi!fifos, Spi!history,
            Spi!Ports, Spi!hspi1, Spi!hspi4
<1>0. SpiPhases /\ SpiProgress /\ SpiTexts /\ Spi!TypeOK
  BY DEF SpiInv
<1>1. /\ pc = "crc" /\ pc' = "idle" /\ verdict' \in Spi!CrcVerdicts(spi_buf[Spi!hspi1])
      /\ UNCHANGED <<msg, spi_State, spi_tx_done, spi_rx_done, spi_buf, txNDTR, txTCIF,
                     rxTCIF, rxNDTR, txFifo, rxFifo, polling, damaged, faults, since>>
  BY DEF Spi!MatchCRC, Spi!Return
<1>2. /\ SpiAtRest(Spi!hspi1) /\ SpiAtRest(Spi!hspi4)
      /\ (SpiMissed' <=> SpiMissed) /\ ~SpiMissed
  BY <1>0, <1>1 DEF SpiPhases, SpiMissed, Happened
<1>3. /\ Len(spi_buf[Spi!hspi1]) = Len(msg)
      /\ spi_buf[Spi!hspi1] \in Seq(Bytes) /\ msg \in Seq(Bytes)
  BY <1>0, <1>1, SpiFacts DEF SpiProgress
<1>4. SpiPhases'
  BY <1>1, <1>2 DEF SpiPhases, SpiAtRest, SpiNotSending, SpiNotReceiving
<1>5. SpiProgress'
  BY <1>0, <1>1 DEF SpiProgress
<1>6. verdict' = IF spi_buf[Spi!hspi1] = msg THEN "pass" ELSE "fail"
  <2>1. ~(Len(spi_buf[Spi!hspi1]) < Len(msg))
    BY <1>3
  <2> QED
    BY <1>1, <2>1 DEF Spi!CrcVerdicts
<1>7. spi_buf[Spi!hspi1] = msg <=> \A k \in 1..Len(msg) : SpiToMaster(k) = msg[k]
  <2>1. \A k \in 1..Len(msg) : SpiToMaster(k) = spi_buf[Spi!hspi1][k]
    BY <1>3 DEF SpiToMaster, OnTheWay
  <2>2. spi_buf[Spi!hspi1] = msg <=> \A k \in 1..Len(msg) : spi_buf[Spi!hspi1][k] = msg[k]
    BY <1>3
  <2> QED
    BY <2>1, <2>2
<1>8. Told(spi_buf[Spi!hspi1] = msg)
  BY <1>0, <1>1, <1>2, <1>7 DEF SpiTexts, Told
<1>9. SpiTexts'
  <2>1. damaged \in 0..2
    BY SpiFacts
  <2>2. damaged' = damaged /\ (OwnFault' <=> OwnFault) /\ (damaged > 0 => OwnFault)
    BY <1>0, <1>1 DEF SpiTexts, OwnFault
  <2> QED
    BY <1>1, <1>6, <1>8, <2>1, <2>2 DEF SpiTexts, Told
<1> QED
  BY <1>4, <1>5, <1>9 DEF SpiRest

-----------------------------------------------------------------------------
(* The handlers.                                                           *)

(* A handler of the DMA finds its stream in one of the phases that use it. *)
LEMMA SpiAtWork ==
  ASSUME SpiInv, NEW p \in Spi!Ports
  PROVE  /\ txTCIF[p] \/ txNDTR[p] > 0 \/ polling = p =>
              \/ pc = "wait1" /\ p = Spi!hspi1
              \/ pc \in {"receive1", "wait2"} /\ p = Spi!hspi4
              \/ pc = "wait2" /\ p = Spi!hspi1 /\ polling # p
         /\ rxTCIF[p] \/ (rxNDTR[p] > 0 /\ rxFifo[p] # << >>) =>
              \/ pc = "wait1" /\ p = Spi!hspi4
              \/ pc = "wait2" /\ p = Spi!hspi1
<1> USE DEF Spi!Ports, Spi!hspi1, Spi!hspi4
<1>0. SpiPhases /\ pc \in Spi!Labels
  BY DEF SpiInv, Spi!TypeOK
<1>1. CASE pc \in {"idle", "start", "transmit4", "crc"}
  BY <1>0, <1>1 DEF SpiPhases, SpiAtRest, SpiNotSending, SpiNotReceiving
<1>2. CASE pc = "transmit1"
  <2>1. msg \in Seq(Bytes) /\ msg # << >> /\ Len(msg) # 0
    BY <1>2 DEF SpiInv, SpiProgress
  <2> QED
    BY <1>0, <1>2, <2>1 DEF SpiPhases, SpiAtRest, SpiNotSending, SpiNotReceiving, SpiReceives
<1>3. CASE pc = "wait1"
  BY <1>0, <1>3 DEF SpiPhases, SpiSending, SpiNotSending, SpiNotReceiving
<1>4. CASE pc = "receive1"
  BY <1>0, <1>4 DEF SpiPhases, SpiAtRest, SpiNotSending, SpiNotReceiving
<1>5. CASE pc = "wait2"
  BY <1>0, <1>5 DEF SpiPhases, SpiReturning, SpiNotReceiving
<1> QED
  BY <1>0, <1>1, <1>2, <1>3, <1>4, <1>5 DEF Spi!Labels

(* What does not touch message, buffers and FIFOs leaves the texts alone.  *)
LEMMA SpiTextsKept ==
  ASSUME SpiTexts,
         UNCHANGED <<pc, msg, verdict, damaged, faults, since, spi_buf, txFifo, rxFifo>>
  PROVE  SpiTexts'
<1>1. \A k \in 1..Len(msg) : SpiToSlave(k)' = SpiToSlave(k) /\ SpiToMaster(k)' = SpiToMaster(k)
  BY DEF SpiToSlave, SpiToMaster
<1>2. SpiMissed' <=> SpiMissed
  BY DEF SpiMissed, Happened
<1> QED
  BY <1>1, <1>2 DEF SpiTexts, OwnFault, Told

LEMMA SpiTransmitCplt ==
  ASSUME SpiInv, NEW p \in Spi!Ports, Spi!TransmitCplt(p)
  PROVE  SpiRest'
<1> USE DEF Spi!testVars, Spi!flags, Spi!txDma, Spi!rxDma, Spi!fifos, Spi!history,
            Spi!Ports, Spi!hspi1, Spi!hspi4
<1>0. SpiPhases /\ SpiProgress /\ SpiTexts /\ Spi!TypeOK
  BY DEF SpiInv
<1>1. /\ polling = Spi!Nobody /\ txTCIF[p] /\ txTCIF' = [txTCIF EXCEPT ![p] = FALSE]
      /\ polling' = IF spi_State[p] = "BUSY_TX" THEN p ELSE Spi!Nobody
      /\ UNCHANGED <<pc, msg, verdict, spi_State, spi_tx_done, spi_rx_done, spi_buf, txNDTR,
                     rxTCIF, rxNDTR, txFifo, rxFifo, damaged, faults, since>>
  BY DEF Spi!TransmitCplt
<1>2. /\ ~txTCIF'[p] /\ \A q \in Spi!Ports \ {p} : txTCIF'[q] = txTCIF[q]
      /\ Spi!Nobody \notin Spi!Ports /\ (SpiMissed' <=> SpiMissed)
  BY <1>0, <1>1 DEF Spi!TypeOK, Spi!Nobody, SpiMissed, Happened
<1>3. SpiPhases'
  <2>1. CASE pc = "wait1" /\ p = Spi!hspi1
    <3>1. SpiSending
      BY <1>0, <2>1 DEF SpiPhases
    <3>2. SpiSends(Spi!hspi1)' /\ polling' = Spi!hspi1
      BY <1>1, <1>2, <2>1, <3>1 DEF SpiSending, SpiSends
    <3>3. /\ SpiNotReceiving(Spi!hspi1)' /\ SpiReceives(Spi!hspi4)' /\ SpiNotSending(Spi!hspi4)'
          /\ SpiLeft(Spi!hspi1)' = SpiLeft(Spi!hspi1)
      BY <1>1, <1>2, <2>1, <3>1, <3>2
         DEF SpiSending, SpiNotReceiving, SpiReceives, SpiNotSending, SpiLeft
    <3>4. SpiSending'
      BY <1>1, <1>2, <3>1, <3>2, <3>3 DEF SpiSending
    <3> QED
      BY <1>1, <2>1, <3>4 DEF SpiPhases
  <2>2. CASE pc = "receive1" /\ p = Spi!hspi4
    <3>1. SpiSends(Spi!hspi4) /\ SpiAtRest(Spi!hspi1)
      BY <1>0, <2>2 DEF SpiPhases
    <3>2. SpiSends(Spi!hspi4)' /\ polling' = Spi!hspi4
      BY <1>1, <1>2, <2>2, <3>1 DEF SpiSends
    <3>3. SpiAtRest(Spi!hspi1)' /\ SpiLeft(Spi!hspi4)' = SpiLeft(Spi!hspi4)
      BY <1>1, <1>2, <2>2, <3>1, <3>2 DEF SpiAtRest, SpiNotSending, SpiNotReceiving, SpiLeft
    <3> QED
      BY <1>0, <1>1, <1>2, <2>2, <3>2, <3>3 DEF SpiPhases, SpiNotReceiving
  <2>3. CASE pc = "wait2" /\ p = Spi!hspi4
    <3>1. SpiReturning
      BY <1>0, <2>3 DEF SpiPhases
    <3>2. SpiSends(Spi!hspi4)' /\ polling' = Spi!hspi4
      BY <1>1, <1>2, <2>3, <3>1 DEF SpiReturning, SpiSends
    <3>3. /\ SpiNotReceiving(Spi!hspi4)' /\ SpiReceives(Spi!hspi1)'
          /\ \A q \in Spi!Ports : SpiLeft(q)' = SpiLeft(q)
      BY <1>1, <1>2, <3>1 DEF SpiReturning, SpiNotReceiving, SpiReceives, SpiLeft
    <3>4. SpiReturning'
      BY <1>1, <1>2, <2>3, <3>1, <3>2, <3>3 DEF SpiReturning
    <3> QED
      BY <1>1, <2>3, <3>4 DEF SpiPhases
  <2>4. CASE pc = "wait2" /\ p = Spi!hspi1
    <3>1. SpiReturning
      BY <1>0, <2>4 DEF SpiPhases
    <3>2. polling' = Spi!Nobody
      BY <1>1, <2>4, <3>1 DEF SpiReturning, SpiReceives
    <3>3. /\ SpiSends(Spi!hspi4)' /\ SpiNotReceiving(Spi!hspi4)' /\ SpiReceives(Spi!hspi1)'
          /\ \A q \in Spi!Ports : SpiLeft(q)' = SpiLeft(q)
      BY <1>1, <1>2, <2>4, <3>1, <3>2 DEF SpiReturning, SpiSends, SpiNotReceiving, SpiReceives, SpiLeft
    <3>4. SpiReturning'
      BY <1>1, <1>2, <2>4, <3>1, <3>2, <3>3 DEF SpiReturning
    <3> QED
      BY <1>1, <2>4, <3>4 DEF SpiPhases
  <2> QED
    BY <1>1, <2>1, <2>2, <2>3, <2>4, SpiAtWork
<1>4. SpiProgress'
  BY <1>0, <1>1 DEF SpiProgress
<1>5. SpiTexts'
  BY <1>0, <1>1, SpiTextsKept
<1> QED
  BY <1>3, <1>4, <1>5 DEF SpiRest

(* The sender has sent everything: what its receiver got is thrown away.   *)
LEMMA SpiTransmitEnds ==
  ASSUME SpiInv, NEW p \in Spi!Ports, Spi!TransmitEnds(p)
  PROVE  SpiRest'
<1> USE DEF Spi!testVars, Spi!flags, Spi!txDma, Spi!rxDma, Spi!fifos, Spi!history,
            Spi!Ports, Spi!hspi1, Spi!hspi4
<1>0. SpiPhases /\ SpiProgress /\ SpiTexts /\ Spi!TypeOK
  BY DEF SpiInv
<1>1. /\ polling = p /\ txFifo[p] = << >> /\ polling' = Spi!Nobody
      /\ rxFifo' = [rxFifo EXCEPT ![p] = << >>]
      /\ spi_State' = [spi_State EXCEPT ![p] = "READY"]
      /\ spi_tx_done' = [spi_tx_done EXCEPT ![p] = TRUE]
      /\ UNCHANGED <<pc, msg, verdict, spi_rx_done, spi_buf, txNDTR, txTCIF, rxTCIF, rxNDTR,
                     txFifo, damaged, faults, since>>
  BY DEF Spi!TransmitEnds, Spi!FlushRxFifo
<1>2. /\ rxFifo'[p] = << >> /\ spi_State'[p] = "READY" /\ spi_tx_done'[p]
      /\ \A q \in Spi!Ports \ {p} : /\ rxFifo'[q] = rxFifo[q] /\ spi_State'[q] = spi_State[q]
                                    /\ spi_tx_done'[q] = spi_tx_done[q]
      /\ Spi!Nobody \notin Spi!Ports /\ (SpiMissed' <=> SpiMissed)
  BY <1>0, <1>1 DEF Spi!TypeOK, Spi!Nobody, SpiMissed, Happened
<1>3. \A q \in Spi!Ports : SpiLeft(q)' = SpiLeft(q)
  BY <1>1 DEF SpiLeft
<1>4. SpiSends(p) => SpiSends(p)' /\ SpiLeft(p) = 0
  BY <1>1, <1>2 DEF SpiSends, SpiLeft
<1>5. CASE pc = "wait1" /\ p = Spi!hspi1
  <2>1. SpiSending
    BY <1>0, <1>5 DEF SpiPhases
  <2>2. /\ SpiNotReceiving(Spi!hspi1)' /\ SpiReceives(Spi!hspi4)' /\ SpiNotSending(Spi!hspi4)'
        /\ rxFifo'[Spi!hspi4] = rxFifo[Spi!hspi4]
    BY <1>1, <1>2, <1>5, <2>1 DEF SpiSending, SpiNotReceiving, SpiReceives, SpiNotSending
  <2>3. SpiSending'
    BY <1>1, <1>2, <1>3, <1>4, <1>5, <2>1, <2>2 DEF SpiSending
  <2>4. SpiPhases'
    BY <1>1, <1>5, <2>3 DEF SpiPhases
  <2>5. SpiProgress'
    BY <1>0, <1>1, <1>2, <1>5 DEF SpiProgress
  <2>6. SpiTexts'
    <3>1. \A k \in 1..Len(msg) : SpiToSlave(k)' = SpiToSlave(k)
      BY <1>1, <2>2 DEF SpiToSlave
    <3> QED
      BY <1>0, <1>1, <1>2, <1>5, <3>1 DEF SpiTexts, OwnFault, Told
  <2> QED
    BY <2>4, <2>5, <2>6 DEF SpiRest
<1>6. CASE pc = "receive1" /\ p = Spi!hspi4
  <2>1. SpiLeft(Spi!hspi4) = Len(msg) /\ SpiLeft(Spi!hspi4) = 0
    BY <1>0, <1>4, <1>6 DEF SpiPhases
  <2>2. msg # << >> /\ msg \in Seq(Bytes)
    BY <1>0, <1>6 DEF SpiProgress
  <2> QED
    BY <2>1, <2>2
<1>7. CASE pc = "wait2" /\ p = Spi!hspi4
  <2>1. SpiReturning
    BY <1>0, <1>7 DEF SpiPhases
  <2>2. /\ SpiNotReceiving(Spi!hspi4)' /\ SpiReceives(Spi!hspi1)' /\ rxFifo'[Spi!hspi1] = rxFifo[Spi!hspi1]
    BY <1>1, <1>2, <1>7, <2>1 DEF SpiReturning, SpiNotReceiving, SpiReceives
  <2>3. SpiReturning'
    BY <1>1, <1>2, <1>3, <1>4, <1>7, <2>1, <2>2 DEF SpiReturning
  <2>4. SpiPhases'
    BY <1>1, <1>7, <2>3 DEF SpiPhases
  <2>5. SpiProgress'
    BY <1>0, <1>1, <1>2, <1>7 DEF SpiProgress
  <2>6. SpiTexts'
    <3>1. \A k \in 1..Len(msg) : SpiToMaster(k)' = SpiToMaster(k)
      BY <1>1, <2>2 DEF SpiToMaster
    <3> QED
      BY <1>0, <1>1, <1>2, <1>7, <3>1 DEF SpiTexts, OwnFault, Told
  <2> QED
    BY <2>4, <2>5, <2>6 DEF SpiRest
<1> QED
  BY <1>1, <1>5, <1>6, <1>7, SpiAtWork

(* Only the slave ever gives up: the master drives the clock.              *)
LEMMA SpiTransmitTimesOut ==
  ASSUME SpiInv, NEW p \in Spi!Ports, Spi!TransmitTimesOut(p)
  PROVE  SpiRest'
<1> USE DEF Spi!testVars, Spi!flags, Spi!txDma, Spi!rxDma, Spi!fifos, Spi!history,
            Spi!Ports, Spi!hspi1, Spi!hspi4
<1>0. SpiPhases /\ SpiProgress /\ SpiTexts /\ Spi!TypeOK
  BY DEF SpiInv
<1>1. /\ polling = p /\ txFifo[p] # << >> /\ ~Spi!Clocked /\ polling' = Spi!Nobody
      /\ spi_State' = [spi_State EXCEPT ![p] = "READY"]
      /\ UNCHANGED <<pc, msg, verdict, spi_tx_done, spi_rx_done, spi_buf, txNDTR, txTCIF, rxTCIF,
                     rxNDTR, txFifo, rxFifo, damaged, faults, since>>
  BY DEF Spi!TransmitTimesOut
<1>2. p = Spi!hspi4 /\ pc \in {"receive1", "wait2"}
  BY <1>1, SpiAtWork DEF Spi!Clocked
<1>3. /\ spi_State'[Spi!hspi4] = "READY" /\ spi_State'[Spi!hspi1] = spi_State[Spi!hspi1]
      /\ Spi!Nobody \notin Spi!Ports /\ (SpiMissed' <=> SpiMissed)
      /\ \A q \in Spi!Ports : SpiLeft(q)' = SpiLeft(q)
  BY <1>0, <1>1, <1>2 DEF Spi!TypeOK, Spi!Nobody, SpiMissed, Happened, SpiLeft
<1>4. SpiSends(Spi!hspi4)' /\ SpiNotReceiving(Spi!hspi4)'
  <2>1. SpiSends(Spi!hspi4) /\ SpiNotReceiving(Spi!hspi4)
    BY <1>0, <1>2 DEF SpiPhases, SpiReturning
  <2> QED
    BY <1>1, <1>2, <1>3, <2>1 DEF SpiSends, SpiNotReceiving
<1>5. SpiPhases'
  <2>1. CASE pc = "receive1"
    <3>1. SpiAtRest(Spi!hspi1)'
      BY <1>0, <1>1, <1>3, <2>1 DEF SpiPhases, SpiAtRest, SpiNotSending, SpiNotReceiving
    <3> QED
      BY <1>0, <1>1, <1>3, <1>4, <2>1, <3>1 DEF SpiPhases
  <2>2. CASE pc = "wait2"
    <3>1. SpiReceives(Spi!hspi1)' /\ polling' # Spi!hspi1
      BY <1>0, <1>1, <1>3, <2>2 DEF SpiPhases, SpiReturning, SpiReceives
    <3>2. SpiReturning'
      BY <1>0, <1>1, <1>3, <1>4, <2>2, <3>1 DEF SpiPhases, SpiReturning
    <3> QED
      BY <1>1, <2>2, <3>2 DEF SpiPhases
  <2> QED
    BY <1>2, <2>1, <2>2
<1>6. SpiProgress'
  BY <1>0, <1>1 DEF SpiProgress
<1>7. SpiTexts'
  BY <1>0, <1>1, SpiTextsKept
<1> QED
  BY <1>5, <1>6, <1>7 DEF SpiRest

LEMMA SpiReceiveCplt ==
  ASSUME SpiInv, NEW p \in Spi!Ports, Spi!ReceiveCplt(p)
  PROVE  SpiRest'
<1> USE DEF Spi!testVars, Spi!flags, Spi!txDma, Spi!rxDma, Spi!fifos, Spi!history,
            Spi!Ports, Spi!hspi1, Spi!hspi4
<1>0. SpiPhases /\ SpiProgress /\ SpiTexts /\ Spi!TypeOK
  BY DEF SpiInv
<1>1. /\ rxTCIF[p] /\ rxTCIF' = [rxTCIF EXCEPT ![p] = FALSE]
      /\ spi_State' = [spi_State EXCEPT ![p] = "READY"]
      /\ spi_rx_done' = [spi_rx_done EXCEPT ![p] = TRUE]
      /\ UNCHANGED <<pc, msg, verdict, spi_tx_done, spi_buf, txNDTR, txTCIF, rxNDTR, txFifo,
                     rxFifo, polling, damaged, faults, since>>
  BY DEF Spi!ReceiveCplt, Spi!Ready, Spi!RxCpltCallback
<1>2. /\ ~rxTCIF'[p] /\ spi_State'[p] = "READY" /\ spi_rx_done'[p]
      /\ \A q \in Spi!Ports \ {p} : /\ rxTCIF'[q] = rxTCIF[q] /\ spi_State'[q] = spi_State[q]
                                    /\ spi_rx_done'[q] = spi_rx_done[q]
      /\ (SpiMissed' <=> SpiMissed)
      /\ \A q \in Spi!Ports : SpiLeft(q)' = SpiLeft(q)
  BY <1>0, <1>1 DEF Spi!TypeOK, SpiMissed, Happened, SpiLeft
<1>3. SpiReceives(p) => SpiReceives(p)'
  BY <1>1, <1>2 DEF SpiReceives
<1>4. CASE pc = "wait1" /\ p = Spi!hspi4
  <2>1. SpiSending
    BY <1>0, <1>4 DEF SpiPhases
  <2>2. SpiSends(Spi!hspi1)' /\ SpiNotReceiving(Spi!hspi1)' /\ SpiNotSending(Spi!hspi4)'
    BY <1>1, <1>2, <1>4, <2>1 DEF SpiSending, SpiSends, SpiNotReceiving, SpiNotSending
  <2>3. SpiSending'
    BY <1>1, <1>2, <1>3, <1>4, <2>1, <2>2 DEF SpiSending
  <2>4. SpiPhases'
    BY <1>1, <1>4, <2>3 DEF SpiPhases
  <2>5. SpiProgress'
    BY <1>0, <1>1, <1>2, <1>4 DEF SpiProgress
  <2> QED
    BY <1>0, <1>1, <2>4, <2>5, SpiTextsKept DEF SpiRest
<1>5. CASE pc = "wait2" /\ p = Spi!hspi1
  <2>1. SpiReturning
    BY <1>0, <1>5 DEF SpiPhases
  <2>2. SpiSends(Spi!hspi4)' /\ SpiNotReceiving(Spi!hspi4)'
    BY <1>1, <1>2, <1>5, <2>1 DEF SpiReturning, SpiSends, SpiNotReceiving
  <2>3. SpiReturning'
    BY <1>1, <1>2, <1>3, <1>5, <2>1, <2>2 DEF SpiReturning
  <2>4. SpiPhases'
    BY <1>1, <1>5, <2>3 DEF SpiPhases
  <2>5. SpiProgress'
    BY <1>0, <1>1, <1>2, <1>5 DEF SpiProgress
  <2> QED
    BY <1>0, <1>1, <2>4, <2>5, SpiTextsKept DEF SpiRest
<1> QED
  BY <1>1, <1>4, <1>5, SpiAtWork

-----------------------------------------------------------------------------
(* The DMA.                                                                *)

(* A byte is moved from the FIFO of a receiver to its buffer.              *)
LEMMA SpiRxTransfer ==
  ASSUME SpiInv, NEW p \in Spi!Ports, Spi!RxTransfer(p)
  PROVE  SpiRest'
<1> USE DEF Spi!testVars, Spi!flags, Spi!txDma, Spi!rxDma, Spi!fifos, Spi!history,
            Spi!Ports, Spi!hspi1, Spi!hspi4
<1>0. SpiPhases /\ SpiProgress /\ SpiTexts /\ Spi!TypeOK
  BY DEF SpiInv
<1>1. /\ rxNDTR[p] > 0 /\ rxFifo[p] # << >>
      /\ spi_buf' = [spi_buf EXCEPT ![p] = Append(@, Head(rxFifo[p]))]
      /\ rxFifo' = [rxFifo EXCEPT ![p] = Tail(@)]
      /\ rxNDTR' = [rxNDTR EXCEPT ![p] = @ - 1]
      /\ rxTCIF' = [rxTCIF EXCEPT ![p] = (rxNDTR[p] = 1)]
      /\ UNCHANGED <<pc, msg, verdict, spi_tx_done, spi_rx_done, spi_State, txNDTR, txTCIF, txFifo,
                     polling, damaged, faults, since>>
  BY DEF Spi!RxTransfer, Spi!RxRequest
<1>2. /\ spi_buf'[p] = Append(spi_buf[p], Head(rxFifo[p])) /\ rxFifo'[p] = Tail(rxFifo[p])
      /\ rxNDTR'[p] = rxNDTR[p] - 1 /\ (rxTCIF'[p] <=> rxNDTR[p] = 1)
      /\ \A q \in Spi!Ports \ {p} : /\ spi_buf'[q] = spi_buf[q] /\ rxFifo'[q] = rxFifo[q]
                                    /\ rxNDTR'[q] = rxNDTR[q] /\ rxTCIF'[q] = rxTCIF[q]
  BY <1>0, <1>1 DEF Spi!TypeOK
<1>3. /\ (SpiMissed' <=> SpiMissed) /\ \A q \in Spi!Ports : SpiLeft(q)' = SpiLeft(q)
  BY <1>1 DEF SpiMissed, Happened, SpiLeft
<1>4. /\ rxNDTR[p] \in Nat /\ spi_buf[p] \in Seq(Bytes) /\ rxFifo[p] \in Seq(Bytes) /\ Len(msg) \in Nat
      /\ \A q \in Spi!Ports : txFifo[q] \in Seq(Bytes) /\ SpiLeft(q) \in Nat
  BY SpiFacts, SpiLeftNat
<1>5. /\ Len(spi_buf'[p]) = Len(spi_buf[p]) + 1 /\ Len(rxFifo'[p]) = Len(rxFifo[p]) - 1
      /\ Len(spi_buf[p]) \in Nat /\ Len(rxFifo[p]) \in Nat
  <2>1. rxFifo[p] # << >> /\ spi_buf[p] \in Seq(Bytes) /\ rxFifo[p] \in Seq(Bytes)
        /\ spi_buf'[p] = Append(spi_buf[p], Head(rxFifo[p])) /\ rxFifo'[p] = Tail(rxFifo[p])
    BY <1>1, <1>2, <1>4
  <2> QED
    BY <2>1
<1>n. rxNDTR'[p] = rxNDTR[p] - 1 /\ rxNDTR[p] \in Nat /\ Len(msg) \in Nat
  BY <1>2, <1>4
<1>6. SpiReceives(p) => SpiReceives(p)'
  <2>1. SpiReceives(p) => Len(spi_buf'[p]) + rxNDTR'[p] = Len(msg)
    BY <1>n, <1>5, SMTT(40) DEF SpiReceives
  <2>2. CASE rxNDTR[p] = 1
    BY <1>1, <1>2, <2>1, <2>2 DEF SpiReceives
  <2>3. CASE rxNDTR[p] # 1
    BY <1>1, <1>2, <1>4, <2>1, <2>3 DEF SpiReceives
  <2> QED
    BY <2>2, <2>3
<1>7. CASE pc = "wait1" /\ p = Spi!hspi4
  <2>1. SpiSending
    BY <1>0, <1>7 DEF SpiPhases
  <2>2. SpiSends(Spi!hspi1)' /\ SpiNotReceiving(Spi!hspi1)' /\ SpiNotSending(Spi!hspi4)'
    BY <1>1, <1>2, <1>7, <2>1 DEF SpiSending, SpiSends, SpiNotReceiving, SpiNotSending
  <2>3. IF SpiMissed THEN rxNDTR'[p] > Len(rxFifo'[p]) + SpiLeft(Spi!hspi1)
                     ELSE rxNDTR'[p] = Len(rxFifo'[p]) + SpiLeft(Spi!hspi1)
    <3>1. IF SpiMissed THEN rxNDTR[p] > Len(rxFifo[p]) + SpiLeft(Spi!hspi1)
                       ELSE rxNDTR[p] = Len(rxFifo[p]) + SpiLeft(Spi!hspi1)
      BY <1>7, <2>1 DEF SpiSending
    <3>2. SpiLeft(Spi!hspi1) \in Nat
      BY <1>4
    <3> QED
      BY <1>n, <1>5, <3>1, <3>2
  <2>4. SpiSending'
    BY <1>1, <1>3, <1>6, <1>7, <2>1, <2>2, <2>3 DEF SpiSending
  <2>5. SpiPhases'
    BY <1>1, <1>7, <2>4 DEF SpiPhases
  <2>6. SpiProgress'
    BY <1>0, <1>1, <1>2, <1>7 DEF SpiProgress
  <2>7. \A k \in 1..Len(msg) : SpiToSlave(k)' = SpiToSlave(k)
    BY <1>1, <1>2, <1>4, <1>7, ByteRead, SMTT(40) DEF SpiToSlave
  <2>8. SpiTexts'
    BY <1>0, <1>1, <1>3, <1>7, <2>7 DEF SpiTexts, OwnFault, Told
  <2> QED
    BY <2>5, <2>6, <2>8 DEF SpiRest
<1>8. CASE pc = "wait2" /\ p = Spi!hspi1
  <2>1. SpiReturning
    BY <1>0, <1>8 DEF SpiPhases
  <2>2. SpiSends(Spi!hspi4)' /\ SpiNotReceiving(Spi!hspi4)'
    BY <1>1, <1>2, <1>8, <2>1 DEF SpiReturning, SpiSends, SpiNotReceiving
  <2>3. rxNDTR'[p] = Len(rxFifo'[p]) + SpiLeft(Spi!hspi1)
    <3>1. rxNDTR[p] = Len(rxFifo[p]) + SpiLeft(Spi!hspi1) /\ SpiLeft(Spi!hspi1) \in Nat
      BY <1>4, <1>8, <2>1 DEF SpiReturning
    <3> QED
      BY <1>n, <1>5, <3>1
  <2>4. SpiReturning'
    BY <1>1, <1>3, <1>6, <1>8, <2>1, <2>2, <2>3 DEF SpiReturning
  <2>5. SpiPhases'
    BY <1>1, <1>8, <2>4 DEF SpiPhases
  <2>6. SpiProgress'
    BY <1>0, <1>1, <1>2, <1>8 DEF SpiProgress
  <2>7. \A k \in 1..Len(msg) : SpiToMaster(k)' = SpiToMaster(k)
    BY <1>1, <1>2, <1>4, <1>8, ByteRead, SMTT(40) DEF SpiToMaster
  <2>8. SpiTexts'
    BY <1>0, <1>1, <1>3, <1>8, <2>7 DEF SpiTexts, OwnFault, Told
  <2> QED
    BY <2>5, <2>6, <2>8 DEF SpiRest
<1> QED
  BY <1>1, <1>7, <1>8, SpiAtWork

(* A byte is moved from the source of a sender to its FIFO: the next one.  *)
LEMMA SpiTxTransfer ==
  ASSUME SpiInv, NEW p \in Spi!Ports, Spi!TxTransfer(p)
  PROVE  SpiRest'
<1> USE DEF Spi!testVars, Spi!flags, Spi!txDma, Spi!rxDma, Spi!fifos, Spi!history,
            Spi!Ports, Spi!hspi1, Spi!hspi4
<1>0. SpiPhases /\ SpiProgress /\ SpiTexts /\ Spi!TypeOK
  BY DEF SpiInv
<1>1. /\ txNDTR[p] > 0
      /\ txNDTR' = [txNDTR EXCEPT ![p] = @ - 1]
      /\ txTCIF' = [txTCIF EXCEPT ![p] = (txNDTR[p] = 1)]
      /\ UNCHANGED <<pc, msg, verdict, spi_tx_done, spi_rx_done, spi_State, spi_buf, rxNDTR, rxTCIF,
                     rxFifo, polling, damaged, faults, since>>
  BY DEF Spi!TxTransfer, Spi!TxRequest
<1>2. PICK b \in Spi!NextByte(p) : txFifo' = [txFifo EXCEPT ![p] = Append(@, b)]
  BY DEF Spi!TxTransfer
<1>3. /\ txFifo'[p] = Append(txFifo[p], b)
      /\ txNDTR'[p] = txNDTR[p] - 1 /\ (txTCIF'[p] <=> txNDTR[p] = 1)
      /\ \A q \in Spi!Ports \ {p} : /\ txFifo'[q] = txFifo[q] /\ txNDTR'[q] = txNDTR[q]
                                    /\ txTCIF'[q] = txTCIF[q]
  BY <1>0, <1>1, <1>2 DEF Spi!TypeOK
<1>4. /\ txNDTR[p] \in Nat /\ Len(msg) \in Nat
      /\ \A q \in Spi!Ports : /\ txFifo[q] \in Seq(Bytes) /\ rxFifo[q] \in Seq(Bytes)
                              /\ spi_buf[q] \in Seq(Bytes) /\ Len(rxFifo[q]) \in Nat
                              /\ Len(txFifo[q]) \in Nat /\ Len(spi_buf[q]) \in Nat
  BY SpiFacts
<1>n. /\ txNDTR[p] \in Nat /\ txNDTR[p] > 0 /\ Len(msg) \in Nat
      /\ \A q \in Spi!Ports : /\ Len(rxFifo[q]) \in Nat /\ Len(txFifo[q]) \in Nat
                              /\ Len(spi_buf[q]) \in Nat
  BY <1>1, <1>4
<1>s. /\ Len(spi_buf[Spi!hspi1]) \in Nat /\ Len(spi_buf[Spi!hspi4]) \in Nat
      /\ Len(rxFifo[Spi!hspi1]) \in Nat /\ Len(rxFifo[Spi!hspi4]) \in Nat
      /\ Len(txFifo[p]) \in Nat /\ txNDTR[p] \in Nat /\ txNDTR[p] > 0 /\ Len(msg) \in Nat
      /\ rxNDTR[Spi!hspi1] \in Nat /\ rxNDTR[Spi!hspi4] \in Nat
  BY <1>n, SpiFacts
<1>5. /\ \A q \in Spi!Ports : SpiLeft(q)' = SpiLeft(q)
      /\ (SpiMissed' <=> SpiMissed)
  <2>1. txFifo[p] \in Seq(Bytes) /\ txFifo'[p] = Append(txFifo[p], b)
    BY <1>3, <1>4
  <2>2. Len(txFifo'[p]) = Len(txFifo[p]) + 1 /\ Len(txFifo[p]) \in Nat
    BY <2>1
  <2>3. txNDTR'[p] = txNDTR[p] - 1 /\ txNDTR[p] \in Nat
    BY <1>3, <1>4
  <2>4. SpiLeft(p)' = SpiLeft(p)
    BY <2>2, <2>3, SMTT(40) DEF SpiLeft
  <2>5. \A q \in Spi!Ports \ {p} : SpiLeft(q)' = SpiLeft(q)
    BY <1>3 DEF SpiLeft
  <2>6. SpiMissed' <=> SpiMissed
    BY <1>1 DEF SpiMissed, Happened
  <2> QED
    BY <2>4, <2>5, <2>6
<1>6. SpiSends(p) => SpiSends(p)' /\ spi_State[p] = "BUSY_TX"
  <2>1. CASE txNDTR[p] = 1
    BY <1>1, <1>3, <2>1 DEF SpiSends
  <2>2. CASE txNDTR[p] # 1
    BY <1>1, <1>3, <1>4, <2>2, SMTT(40) DEF SpiSends
  <2> QED
    BY <2>1, <2>2
<1>7. CASE pc = "wait1" /\ p = Spi!hspi1
  <2>1. SpiSending
    BY <1>0, <1>7 DEF SpiPhases
  <2>2. SpiReceives(Spi!hspi4)' /\ SpiNotReceiving(Spi!hspi1)' /\ SpiNotSending(Spi!hspi4)'
    BY <1>1, <1>3, <1>7, <2>1 DEF SpiSending, SpiReceives, SpiNotReceiving, SpiNotSending
  <2>3. SpiSending'
    BY <1>1, <1>5, <1>6, <1>7, <2>1, <2>2 DEF SpiSending
  <2>4. SpiPhases'
    BY <1>1, <1>7, <2>3 DEF SpiPhases
  <2>5. SpiProgress'
    BY <1>0, <1>1, <1>7 DEF SpiProgress
  <2>6. ASSUME ~SpiMissed PROVE \A k \in 1..Len(msg) : SpiToSlave(k)' = SpiToSlave(k)
    <3>1. Len(spi_buf[Spi!hspi4]) + Len(rxFifo[Spi!hspi4]) + Len(txFifo[p]) + 1 = Len(msg) - txNDTR[p] + 1
          /\ Len(msg) - txNDTR[p] + 1 \in 1..Len(msg)
      <4>1. /\ rxNDTR[Spi!hspi4] = Len(rxFifo[Spi!hspi4]) + (Len(txFifo[p]) + txNDTR[p])
            /\ Len(spi_buf[Spi!hspi4]) + rxNDTR[Spi!hspi4] = Len(msg)
        BY <1>7, <2>1, <2>6 DEF SpiSending, SpiLeft, SpiReceives
      <4>2. /\ Len(spi_buf[Spi!hspi4]) \in Nat /\ Len(rxFifo[Spi!hspi4]) \in Nat
            /\ Len(txFifo[p]) \in Nat /\ txNDTR[p] \in Nat /\ txNDTR[p] > 0 /\ Len(msg) \in Nat
            /\ rxNDTR[Spi!hspi4] \in Nat
        BY <1>s
      <4> DEFINE a == Len(spi_buf[Spi!hspi4])
                 r == Len(rxFifo[Spi!hspi4])
                 c == Len(txFifo[p])
                 n == txNDTR[p]
                 w == rxNDTR[Spi!hspi4]
                 m == Len(msg)
      <4> HIDE DEF a, r, c, n, w, m
      <4>3. a + r + c + 1 = m - n + 1 /\ m - n + 1 \in 1..m
        <5>1. /\ a \in Nat /\ r \in Nat /\ c \in Nat /\ n \in Nat /\ n > 0 /\ w \in Nat /\ m \in Nat
              /\ w = r + (c + n) /\ a + w = m
          BY <4>1, <4>2 DEF a, r, c, n, w, m
        <5> QED
          BY <5>1, ByteIndex
      <4> QED
        BY <4>3 DEF a, r, c, n, m
    <3>2. b = msg[Len(msg) - txNDTR[p] + 1]
      <4>1. Spi!Source(p) = msg /\ Len(msg) - txNDTR[p] + 1 \in DOMAIN msg
        BY <1>0, <1>6, <1>7, <2>1, <3>1 DEF SpiSending, Spi!Source, SpiProgress
      <4> QED
        BY <4>1 DEF Spi!NextByte, Spi!TransferLen
    <3>4. /\ spi_buf[Spi!hspi4] \in Seq(Bytes) /\ rxFifo[Spi!hspi4] \in Seq(Bytes)
          /\ txFifo[Spi!hspi1] \in Seq(Bytes) /\ \A k \in 1..Len(msg) : k \in Nat \ {0}
          /\ UNCHANGED <<msg, spi_buf, rxFifo>>
      BY <1>1, <1>4
    <3>5. ASSUME NEW k \in 1..Len(msg) PROVE SpiToSlave(k)' = SpiToSlave(k)
      <4> DEFINE a == spi_buf[Spi!hspi4]
                 r == rxFifo[Spi!hspi4]
                 c == txFifo[Spi!hspi1]
      <4>1. a \in Seq(Bytes) /\ r \in Seq(Bytes) /\ c \in Seq(Bytes) /\ k \in Nat \ {0}
        BY <3>4
      <4>2. b = msg[Len(a) + Len(r) + Len(c) + 1]
        BY <1>7, <3>1, <3>2
      <4>3. OnTheWay(a, r, Append(c, b), msg, k) = OnTheWay(a, r, c, msg, k)
        <5> HIDE DEF a, r, c
        <5> QED
          BY <4>1, <4>2, ByteQueued
      <4> QED
        BY <1>7, <1>3, <3>4, <4>3 DEF SpiToSlave
    <3> QED
      BY <3>5
  <2>7. SpiTexts'
    BY <1>0, <1>1, <1>5, <1>7, <2>6 DEF SpiTexts, OwnFault, Told
  <2> QED
    BY <2>4, <2>5, <2>7 DEF SpiRest
<1>8. CASE pc \in {"receive1", "wait2"} /\ p = Spi!hspi4
  <2>1. SpiSends(Spi!hspi4)' /\ SpiSends(Spi!hspi4)
    BY <1>0, <1>6, <1>8 DEF SpiPhases, SpiReturning
  <2>2. SpiPhases'
    <3>1. CASE pc = "receive1"
      <4>1. SpiAtRest(Spi!hspi1)' /\ SpiNotReceiving(Spi!hspi4)'
        BY <1>0, <1>1, <1>3, <1>8, <3>1 DEF SpiPhases, SpiAtRest, SpiNotSending, SpiNotReceiving
      <4> QED
        BY <1>0, <1>1, <1>5, <2>1, <3>1, <4>1 DEF SpiPhases
    <3>2. CASE pc = "wait2"
      <4>1. SpiReturning
        BY <1>0, <3>2 DEF SpiPhases
      <4>2. SpiReceives(Spi!hspi1)' /\ SpiNotReceiving(Spi!hspi4)'
        BY <1>1, <4>1 DEF SpiReturning, SpiReceives, SpiNotReceiving
      <4>3. SpiReturning'
        BY <1>1, <1>3, <1>5, <1>8, <2>1, <4>1, <4>2 DEF SpiReturning
      <4> QED
        BY <1>1, <3>2, <4>3 DEF SpiPhases
    <3> QED
      BY <1>8, <3>1, <3>2
  <2>3. SpiProgress'
    BY <1>0, <1>1, <1>8 DEF SpiProgress
  <2>4. ASSUME ~SpiMissed PROVE \A k \in 1..Len(msg) : SpiToMaster(k)' = SpiToMaster(k)
    <3>1. Len(spi_buf[Spi!hspi1]) + Len(rxFifo[Spi!hspi1]) + Len(txFifo[p]) + 1 = Len(msg) - txNDTR[p] + 1
          /\ Len(msg) - txNDTR[p] + 1 \in 1..Len(msg)
      <4>1. CASE pc = "receive1"
        <5>1. /\ Len(spi_buf[Spi!hspi1]) = 0 /\ Len(rxFifo[Spi!hspi1]) = 0
              /\ Len(txFifo[p]) + txNDTR[p] = Len(msg)
          BY <1>0, <1>8, <4>1 DEF SpiPhases, SpiAtRest, SpiProgress, SpiLeft
        <5>2. Len(msg) - txNDTR[p] + 1 \in 1..Len(msg) /\ 0 + 0 + Len(txFifo[p]) + 1 = Len(msg) - txNDTR[p] + 1
          <6> DEFINE c == Len(txFifo[p])
                     n == txNDTR[p]
                     m == Len(msg)
          <6> HIDE DEF c, n, m
          <6>1. c \in Nat /\ n \in Nat /\ n > 0 /\ m \in Nat /\ c + n = m
            BY <1>s, <5>1 DEF c, n, m
          <6>2. m - n + 1 \in 1..m /\ 0 + 0 + c + 1 = m - n + 1
            BY <6>1
          <6> QED
            BY <6>2 DEF c, n, m
        <5> QED
          BY <5>1, <5>2
      <4>2. CASE pc = "wait2"
        <5>1. SpiReturning
          BY <1>0, <4>2 DEF SpiPhases
        <5>2. /\ rxNDTR[Spi!hspi1] = Len(rxFifo[Spi!hspi1]) + (Len(txFifo[p]) + txNDTR[p])
              /\ Len(spi_buf[Spi!hspi1]) + rxNDTR[Spi!hspi1] = Len(msg)
          BY <1>8, <2>4, <5>1 DEF SpiReturning, SpiLeft, SpiReceives
        <5>3. /\ Len(spi_buf[Spi!hspi1]) \in Nat /\ Len(rxFifo[Spi!hspi1]) \in Nat
              /\ Len(txFifo[p]) \in Nat /\ txNDTR[p] \in Nat /\ txNDTR[p] > 0 /\ Len(msg) \in Nat
              /\ rxNDTR[Spi!hspi1] \in Nat
          BY <1>s
        <5> DEFINE a == Len(spi_buf[Spi!hspi1])
                   r == Len(rxFifo[Spi!hspi1])
                   c == Len(txFifo[p])
                   n == txNDTR[p]
                   w == rxNDTR[Spi!hspi1]
                   m == Len(msg)
        <5> HIDE DEF a, r, c, n, w, m
        <5>4. a + r + c + 1 = m - n + 1 /\ m - n + 1 \in 1..m
          <6>1. /\ a \in Nat /\ r \in Nat /\ c \in Nat /\ n \in Nat /\ n > 0 /\ w \in Nat /\ m \in Nat
                /\ w = r + (c + n) /\ a + w = m
            BY <5>2, <5>3 DEF a, r, c, n, w, m
          <6> QED
            BY <6>1, ByteIndex
        <5> QED
          BY <5>4 DEF a, r, c, n, m
      <4> QED
        BY <1>8, <4>1, <4>2
    <3>2. b = spi_buf[Spi!hspi4][Len(msg) - txNDTR[p] + 1]
      <4>1. Spi!Source(p) = spi_buf[Spi!hspi4] /\ Len(spi_buf[Spi!hspi4]) = Len(msg)
        BY <1>0, <1>8 DEF Spi!Source, SpiProgress
      <4>2. Len(msg) - txNDTR[p] + 1 \in DOMAIN spi_buf[Spi!hspi4]
        BY <1>4, <3>1, <4>1
      <4> QED
        BY <4>1, <4>2 DEF Spi!NextByte, Spi!TransferLen
    <3>4. /\ spi_buf[Spi!hspi1] \in Seq(Bytes) /\ rxFifo[Spi!hspi1] \in Seq(Bytes)
          /\ txFifo[Spi!hspi4] \in Seq(Bytes) /\ \A k \in 1..Len(msg) : k \in Nat \ {0}
          /\ UNCHANGED <<msg, spi_buf, rxFifo>>
      BY <1>1, <1>4
    <3>5. ASSUME NEW k \in 1..Len(msg) PROVE SpiToMaster(k)' = SpiToMaster(k)
      <4> DEFINE a == spi_buf[Spi!hspi1]
                 r == rxFifo[Spi!hspi1]
                 c == txFifo[Spi!hspi4]
      <4>1. a \in Seq(Bytes) /\ r \in Seq(Bytes) /\ c \in Seq(Bytes) /\ k \in Nat \ {0}
        BY <3>4
      <4>2. b = spi_buf[Spi!hspi4][Len(a) + Len(r) + Len(c) + 1]
        BY <1>8, <3>1, <3>2
      <4>3. OnTheWay(a, r, Append(c, b), spi_buf[Spi!hspi4], k) = OnTheWay(a, r, c, spi_buf[Spi!hspi4], k)
        <5> HIDE DEF a, r, c
        <5> QED
          BY <4>1, <4>2, ByteQueued
      <4> QED
        BY <1>8, <1>3, <3>4, <4>3 DEF SpiToMaster
    <3> QED
      BY <3>5
  <2>5. SpiTexts'
    BY <1>0, <1>1, <1>5, <1>8, <2>4 DEF SpiTexts, OwnFault, Told
  <2> QED
    BY <2>2, <2>3, <2>5 DEF SpiRest
<1>9. CASE pc = "wait2" /\ p = Spi!hspi1
  <2>1. SpiReturning
    BY <1>0, <1>9 DEF SpiPhases
  <2>2. /\ SpiSends(Spi!hspi4)' /\ SpiNotReceiving(Spi!hspi4)' /\ SpiReceives(Spi!hspi1)'
        /\ (txTCIF'[Spi!hspi1] => txNDTR'[Spi!hspi1] = 0)
    BY <1>1, <1>3, <1>4, <1>9, <2>1 DEF SpiReturning, SpiSends, SpiReceives, SpiNotReceiving
  <2>3. SpiReturning'
    BY <1>1, <1>3, <1>5, <1>9, <2>1, <2>2 DEF SpiReturning
  <2>4. SpiPhases'
    BY <1>1, <1>9, <2>3 DEF SpiPhases
  <2>5. SpiProgress'
    BY <1>0, <1>1, <1>9 DEF SpiProgress
  <2>6. \A k \in 1..Len(msg) : SpiToMaster(k)' = SpiToMaster(k)
    BY <1>1, <1>3, <1>9 DEF SpiToMaster
  <2>7. SpiTexts'
    BY <1>0, <1>1, <1>5, <1>9, <2>6 DEF SpiTexts, OwnFault, Told
  <2> QED
    BY <2>4, <2>5, <2>7 DEF SpiRest
<1> QED
  BY <1>1, <1>7, <1>8, <1>9, SpiAtWork

-----------------------------------------------------------------------------
(* The wires.                                                              *)

(* Whenever the master clocks, the receiver of the phase has read all that *)
(* came before, waits for more, and the sender has something to send.      *)
LEMMA SpiClocks ==
  ASSUME SpiInv, Spi!Clock
  PROVE  /\ txFifo[Spi!hspi1] # << >> /\ pc \in {"wait1", "wait2"}
         /\ pc = "wait1" =>
              /\ SpiSending /\ rxFifo[Spi!hspi4] = << >> /\ rxNDTR[Spi!hspi4] > 0
              /\ spi_State[Spi!hspi4] = "BUSY_RX" /\ spi_State[Spi!hspi1] = "BUSY_TX"
         /\ pc = "wait2" =>
              /\ SpiReturning /\ rxFifo[Spi!hspi1] = << >> /\ rxNDTR[Spi!hspi1] > 0
              /\ spi_State[Spi!hspi1] = "BUSY_RX" /\ spi_State[Spi!hspi4] # "BUSY_RX"
              /\ txFifo[Spi!hspi4] # << >>
<1> USE DEF Spi!Ports, Spi!hspi1, Spi!hspi4
<1>0. SpiPhases /\ pc \in Spi!Labels
  BY DEF SpiInv, Spi!TypeOK
<1>1. txFifo[Spi!hspi1] # << >> /\ \A p \in Spi!Ports : ~Spi!TxRequest(p) /\ ~Spi!RxRequest(p)
  BY DEF Spi!Clock, Spi!Settled
<1>2. pc \in {"wait1", "wait2"}
  BY <1>0, <1>1 DEF SpiPhases, SpiAtRest, SpiNotSending, Spi!Labels
<1>3. /\ Len(txFifo[Spi!hspi1]) \in Nat /\ Len(txFifo[Spi!hspi1]) > 0 /\ txNDTR[Spi!hspi1] \in Nat
      /\ Len(rxFifo[Spi!hspi1]) \in Nat /\ Len(rxFifo[Spi!hspi4]) \in Nat
      /\ rxNDTR[Spi!hspi1] \in Nat /\ rxNDTR[Spi!hspi4] \in Nat /\ txNDTR[Spi!hspi4] \in Nat
  <2>1. txFifo[Spi!hspi1] \in Seq(Bytes)
    BY SpiFacts
  <2>2. Len(txFifo[Spi!hspi1]) > 0
    BY <1>1, <2>1
  <2> QED
    BY <2>2, SpiFacts
<1>4. SpiLeft(Spi!hspi1) \in Nat /\ SpiLeft(Spi!hspi1) > 0
  BY <1>3 DEF SpiLeft
<1>5. CASE pc = "wait1"
  <2>1. SpiSending
    BY <1>0, <1>5 DEF SpiPhases
  <2>2. rxNDTR[Spi!hspi4] > 0
    <3>1. \/ rxNDTR[Spi!hspi4] > Len(rxFifo[Spi!hspi4]) + SpiLeft(Spi!hspi1)
          \/ rxNDTR[Spi!hspi4] = Len(rxFifo[Spi!hspi4]) + SpiLeft(Spi!hspi1)
      BY <2>1 DEF SpiSending
    <3>2. rxNDTR[Spi!hspi4] \in Nat /\ Len(rxFifo[Spi!hspi4]) \in Nat
      BY <1>3
    <3> QED
      BY <1>4, <3>1, <3>2
  <2>3. rxFifo[Spi!hspi4] = << >>
    BY <1>1, <2>2 DEF Spi!RxRequest
  <2>4. spi_State[Spi!hspi4] = "BUSY_RX"
    BY <2>1, <2>2, <1>3 DEF SpiSending, SpiReceives
  <2>5. spi_State[Spi!hspi1] = "BUSY_TX"
    BY <1>1, <2>1 DEF SpiSending, SpiSends
  <2> QED
    BY <1>1, <1>5, <2>1, <2>2, <2>3, <2>4, <2>5
<1>6. CASE pc = "wait2"
  <2>1. SpiReturning
    BY <1>0, <1>6 DEF SpiPhases
  <2>2. rxNDTR[Spi!hspi1] > 0
    <3>1. rxNDTR[Spi!hspi1] = Len(rxFifo[Spi!hspi1]) + SpiLeft(Spi!hspi1)
      BY <2>1 DEF SpiReturning
    <3>2. rxNDTR[Spi!hspi1] \in Nat /\ Len(rxFifo[Spi!hspi1]) \in Nat
      BY <1>3
    <3> QED
      BY <1>4, <3>1, <3>2
  <2>3. rxFifo[Spi!hspi1] = << >>
    BY <1>1, <2>2 DEF Spi!RxRequest
  <2>4. spi_State[Spi!hspi1] = "BUSY_RX"
    BY <2>1, <2>2, <1>3 DEF SpiReturning, SpiReceives
  <2>5. spi_State[Spi!hspi4] # "BUSY_RX"
    BY <2>1 DEF SpiReturning, SpiSends
  <2>6. txFifo[Spi!hspi4] # << >>
    <3> SUFFICES ASSUME txFifo[Spi!hspi4] = << >> PROVE FALSE
      OBVIOUS
    <3>1. Len(txFifo[Spi!hspi4]) = 0
      OBVIOUS
    <3>2. ~(txNDTR[Spi!hspi4] > 0)
      BY <1>1, <3>1, SpiDepth DEF Spi!TxRequest, Spi!HasRoom
    <3>3. SpiLeft(Spi!hspi4) = 0
      BY <1>3, <3>1, <3>2 DEF SpiLeft
    <3>4. SpiLeft(Spi!hspi4) > SpiLeft(Spi!hspi1) \/ SpiLeft(Spi!hspi4) = SpiLeft(Spi!hspi1)
      BY <2>1 DEF SpiReturning
    <3> QED
      BY <1>4, <3>3, <3>4
  <2> QED
    BY <1>1, <1>6, <2>1, <2>2, <2>3, <2>4, <2>5, <2>6
<1> QED
  BY <1>2, <1>5, <1>6

(* If one more byte is changed, exactly one is if none was before.         *)
LEMMA OneByteClocked ==
  ASSUME NEW S, NEW f, NEW g, NEW m, NEW n \in S, NEW sent, NEW got, NEW d \in 0..2, NEW e,
         \A k \in S : g[k] = (IF k = n THEN got ELSE f[k]),
         f[n] = sent,
         d = 0 => \A k \in S : f[k] = m[k],
         d = 1 => ~\A k \in S : f[k] = m[k],
         e = IF sent # got /\ d < 2 THEN d + 1 ELSE d
  PROVE  /\ e = 0 => \A k \in S : g[k] = m[k]
         /\ e = 1 => ~\A k \in S : g[k] = m[k]
<1>1. CASE sent = got
  <2>1. e = d /\ \A k \in S : g[k] = f[k]
    BY <1>1
  <2> QED
    BY <2>1
<1>2. CASE sent # got
  <2>1. e # 0 /\ (e = 1 => d = 0)
    BY <1>2
  <2>2. ASSUME d = 0 PROVE g[n] # m[n]
    BY <1>2, <2>2
  <2> QED
    BY <2>1, <2>2
<1> QED
  BY <1>1, <1>2

(* What a fault leaves in the history.                                     *)
LEMMA SpiFault ==
  ASSUME SpiInv, NEW kind, Spi!Fault(kind)
  PROVE  OwnFault' /\ (SpiMissed' <=> SpiMissed \/ kind = "miss")
<1>1. faults' = Append(faults, kind) /\ since' = since /\ faults \in Seq(LineFaults) /\ kind \in LineFaults
      /\ since \in 0..Len(faults)
  BY DEF Spi!Fault, SpiInv, Spi!TypeOK, Spi!TestTypeOK
<1>2. /\ Len(faults) \in Nat /\ Len(faults') = Len(faults) + 1
      /\ DOMAIN faults = 1..Len(faults) /\ DOMAIN faults' = 1..Len(faults) + 1
      /\ \A i \in 1..Len(faults) : faults'[i] = faults[i]
      /\ faults'[Len(faults) + 1] = kind
  BY <1>1
<1>3. OwnFault'
  BY <1>1, <1>2 DEF OwnFault
<1>4. SpiMissed' <=> SpiMissed \/ kind = "miss"
  <2>1. \A i \in DOMAIN faults' : i \in DOMAIN faults \/ i = Len(faults) + 1
    BY <1>2
  <2>2. DOMAIN faults \subseteq DOMAIN faults' /\ Len(faults) + 1 \in DOMAIN faults'
    BY <1>2
  <2>3. SpiMissed => SpiMissed'
    BY <1>2, <2>2 DEF SpiMissed, Happened
  <2>4. kind = "miss" => SpiMissed'
    BY <1>2, <2>2 DEF SpiMissed, Happened
  <2>5. SpiMissed' => SpiMissed \/ kind = "miss"
    BY <1>2, <2>1 DEF SpiMissed, Happened
  <2> QED
    BY <2>3, <2>4, <2>5
<1> QED
  BY <1>3, <1>4

(* A byte is exchanged.  One that is changed on its way counts if it is    *)
(* the one that the receiver of the phase takes.                           *)
LEMMA SpiExchanges ==
  ASSUME SpiInv, Spi!Shift \/ Spi!ShiftFlipped
  PROVE  /\ Spi!Clock /\ (SpiMissed' <=> SpiMissed) /\ (damaged' > 0 => OwnFault')
         /\ \E mosi, miso \in Bytes :
              /\ Spi!Exchange(mosi, miso)
              /\ pc = "wait1" =>
                   damaged' = IF Head(txFifo[Spi!hspi1]) # mosi /\ damaged < 2 THEN damaged + 1 ELSE damaged
              /\ pc = "wait2" =>
                   damaged' = IF Head(txFifo[Spi!hspi4]) # miso /\ damaged < 2 THEN damaged + 1 ELSE damaged
<1>1. Spi!Clock
  BY DEF Spi!Shift, Spi!ShiftFlipped
<1>2. Head(txFifo[Spi!hspi1]) \in Bytes
  <2>1. txFifo[Spi!hspi1] # << >> /\ txFifo[Spi!hspi1] \in Seq(Bytes)
    BY <1>1, SpiClocks, SpiFacts DEF Spi!Ports
  <2> QED
    BY <2>1
<1>3. /\ Spi!SlaveByte \subseteq Bytes
      /\ pc = "wait2" => Spi!SlaveByte = {Head(txFifo[Spi!hspi4])}
  <2>1. txFifo[Spi!hspi4] \in Seq(Bytes)
    BY SpiFacts DEF Spi!Ports
  <2>2. pc = "wait2" => txFifo[Spi!hspi4] # << >>
    BY <1>1, SpiClocks
  <2>3. txFifo[Spi!hspi4] # << >> => Head(txFifo[Spi!hspi4]) \in Bytes
    BY <2>1
  <2> QED
    BY <2>2, <2>3 DEF Spi!SlaveByte
<1>4. /\ pc = "wait1" => spi_State[Spi!hspi4] = "BUSY_RX" /\ spi_State[Spi!hspi1] # "BUSY_RX"
      /\ pc = "wait2" => spi_State[Spi!hspi1] = "BUSY_RX" /\ spi_State[Spi!hspi4] # "BUSY_RX"
  BY <1>1, SpiClocks
<1>5. damaged \in 0..2 /\ (damaged > 0 => OwnFault)
  BY SpiFacts DEF SpiInv, SpiTexts
<1>6. CASE Spi!Shift
  <2>1. PICK b \in Spi!SlaveByte : Spi!Exchange(Head(txFifo[Spi!hspi1]), b)
    BY <1>6 DEF Spi!Shift
  <2>2. b \in Bytes /\ (pc = "wait2" => b = Head(txFifo[Spi!hspi4]))
    BY <1>3
  <2>3. damaged' = damaged /\ faults' = faults /\ since' = since
    BY <1>6 DEF Spi!Shift, Spi!history
  <2>4. (SpiMissed' <=> SpiMissed) /\ (OwnFault' <=> OwnFault)
    BY <2>3 DEF SpiMissed, Happened, OwnFault
  <2> QED
    BY <1>1, <1>2, <1>5, <2>1, <2>2, <2>3, <2>4
<1>7. CASE Spi!ShiftFlipped
  <2>1. Spi!Fault("flip")
    BY <1>7 DEF Spi!ShiftFlipped
  <2>2. OwnFault' /\ (SpiMissed' <=> SpiMissed)
    BY <2>1, SpiFault
  <2>3. CASE \E b \in Spi!SlaveByte, got \in Bytes :
               /\ Spi!Exchange(got, b)
               /\ Spi!DamageAt(Spi!hspi4, Head(txFifo[Spi!hspi1]), got)
    <3>1. PICK b \in Spi!SlaveByte, got \in Bytes :
                 /\ Spi!Exchange(got, b)
                 /\ Spi!DamageAt(Spi!hspi4, Head(txFifo[Spi!hspi1]), got)
      BY <2>3
    <3>2. b \in Bytes /\ (pc = "wait2" => b = Head(txFifo[Spi!hspi4]))
      BY <1>3
    <3>3. /\ pc = "wait1" =>
               damaged' = IF Head(txFifo[Spi!hspi1]) # got /\ damaged < 2 THEN damaged + 1 ELSE damaged
          /\ pc = "wait2" => damaged' = damaged
      BY <1>4, <3>1 DEF Spi!DamageAt, Spi!Damage
    <3> QED
      BY <1>1, <2>2, <3>1, <3>2, <3>3
  <2>4. CASE \E b \in Spi!SlaveByte, got \in Bytes :
               /\ Spi!Exchange(Head(txFifo[Spi!hspi1]), got)
               /\ Spi!DamageAt(Spi!hspi1, b, got)
    <3>1. PICK b \in Spi!SlaveByte, got \in Bytes :
                 /\ Spi!Exchange(Head(txFifo[Spi!hspi1]), got)
                 /\ Spi!DamageAt(Spi!hspi1, b, got)
      BY <2>4
    <3>2. pc = "wait2" => b = Head(txFifo[Spi!hspi4])
      BY <1>3
    <3>3. /\ pc = "wait1" => damaged' = damaged
          /\ pc = "wait2" => damaged' = IF b # got /\ damaged < 2 THEN damaged + 1 ELSE damaged
      BY <1>4, <3>1 DEF Spi!DamageAt, Spi!Damage
    <3> QED
      BY <1>1, <1>2, <2>2, <3>1, <3>2, <3>3
  <2> QED
    BY <1>7, <2>3, <2>4 DEF Spi!ShiftFlipped
<1> QED
  BY <1>6, <1>7

LEMMA SpiShift ==
  ASSUME SpiInv, Spi!Shift \/ Spi!ShiftFlipped
  PROVE  SpiRest'
<1> USE DEF Spi!Ports, Spi!hspi1, Spi!hspi4
<1>0. SpiPhases /\ SpiProgress /\ SpiTexts /\ Spi!TypeOK
  BY DEF SpiInv
<1>1. Spi!Clock /\ (SpiMissed' <=> SpiMissed) /\ (damaged' > 0 => OwnFault')
  BY SpiExchanges
<1>2. PICK mosi \in Bytes, miso \in Bytes :
        /\ Spi!Exchange(mosi, miso)
        /\ pc = "wait1" =>
             damaged' = IF Head(txFifo[Spi!hspi1]) # mosi /\ damaged < 2 THEN damaged + 1 ELSE damaged
        /\ pc = "wait2" =>
             damaged' = IF Head(txFifo[Spi!hspi4]) # miso /\ damaged < 2 THEN damaged + 1 ELSE damaged
  BY SpiExchanges
<1>3. /\ UNCHANGED <<pc, msg, verdict, spi_tx_done, spi_rx_done, spi_State, spi_buf, txNDTR, rxNDTR,
                     txTCIF, rxTCIF, polling>>
      /\ txFifo[Spi!hspi1] # << >> /\ pc \in {"wait1", "wait2"}
  BY <1>1, SpiClocks DEF Spi!Clock, Spi!testVars, Spi!flags, Spi!txDma, Spi!rxDma
<1>4. /\ txFifo'[Spi!hspi1] = Tail(txFifo[Spi!hspi1]) /\ txFifo'[Spi!hspi4] = Spi!Shifted(Spi!hspi4)
      /\ rxFifo'[Spi!hspi1] = Spi!Received(Spi!hspi1, miso)
      /\ rxFifo'[Spi!hspi4] = Spi!Received(Spi!hspi4, mosi)
  BY <1>0, <1>2, <1>3 DEF Spi!Exchange, Spi!Shifted, Spi!TypeOK
<1>5. \A p \in Spi!Ports :
        /\ txFifo[p] \in Seq(Bytes) /\ rxFifo[p] \in Seq(Bytes) /\ spi_buf[p] \in Seq(Bytes)
        /\ txNDTR[p] \in Nat /\ rxNDTR[p] \in Nat
  BY SpiFacts
<1>6. /\ Len(txFifo'[Spi!hspi1]) = Len(txFifo[Spi!hspi1]) - 1
      /\ Len(txFifo[Spi!hspi1]) \in Nat
  <2>1. txFifo[Spi!hspi1] \in Seq(Bytes) /\ txFifo[Spi!hspi1] # << >>
        /\ txFifo'[Spi!hspi1] = Tail(txFifo[Spi!hspi1])
    BY <1>3, <1>4, <1>5
  <2> QED
    BY <2>1
<1>7. SpiLeft(Spi!hspi1)' = SpiLeft(Spi!hspi1) - 1
  <2>1. txNDTR[Spi!hspi1] \in Nat /\ txNDTR' = txNDTR
    BY <1>3, <1>5
  <2> QED
    BY <1>6, <2>1 DEF SpiLeft
<1>8. /\ SpiLeft(Spi!hspi1) \in Nat /\ SpiLeft(Spi!hspi4) \in Nat /\ damaged \in 0..2
      /\ rxNDTR[Spi!hspi1] \in Nat /\ rxNDTR[Spi!hspi4] \in Nat /\ msg \in Seq(Bytes)
  BY <1>5, SpiLeftNat, SpiFacts
<1>9. \A p \in Spi!Ports, b \in Bytes : rxFifo[p] = << >> => Spi!Received(p, b) = <<b>>
  <2>1. Len(<< >>) = 0 /\ \A b \in Bytes : Append(<< >>, b) = <<b>>
    OBVIOUS
  <2> QED
    BY <2>1, SpiDepth DEF Spi!Received
<1>10. CASE pc = "wait1"
  <2>1. /\ SpiSending /\ rxFifo[Spi!hspi4] = << >> /\ rxNDTR[Spi!hspi4] > 0
        /\ spi_State[Spi!hspi1] = "BUSY_TX"
    BY <1>1, <1>10, SpiClocks
  <2>2. rxFifo'[Spi!hspi4] = <<mosi>> /\ txFifo'[Spi!hspi4] = << >>
    BY <1>4, <1>9, <2>1 DEF SpiSending, SpiNotSending, Spi!Shifted
  <2>3. SpiSends(Spi!hspi1)' /\ SpiNotReceiving(Spi!hspi1)' /\ SpiReceives(Spi!hspi4)'
        /\ SpiNotSending(Spi!hspi4)'
    <3>1. SpiSends(Spi!hspi1)'
      BY <1>3, <2>1 DEF SpiSending, SpiSends
    <3>2. SpiNotReceiving(Spi!hspi1)' /\ SpiReceives(Spi!hspi4)' /\ SpiNotSending(Spi!hspi4)'
      BY <1>3, <2>1, <2>2 DEF SpiSending, SpiNotReceiving, SpiReceives, SpiNotSending
    <3> QED
      BY <3>1, <3>2
  <2>4. IF SpiMissed THEN rxNDTR[Spi!hspi4] > 1 + (SpiLeft(Spi!hspi1) - 1)
                     ELSE rxNDTR[Spi!hspi4] = 1 + (SpiLeft(Spi!hspi1) - 1)
    <3>1. Len(rxFifo[Spi!hspi4]) = 0
      BY <2>1
    <3>2. IF SpiMissed THEN rxNDTR[Spi!hspi4] > 0 + SpiLeft(Spi!hspi1)
                       ELSE rxNDTR[Spi!hspi4] = 0 + SpiLeft(Spi!hspi1)
      BY <2>1, <3>1 DEF SpiSending
    <3> QED
      BY <1>8, <3>2
  <2>5. Len(rxFifo'[Spi!hspi4]) = 1
    BY <2>2
  <2>6. SpiSending'
    BY <1>1, <1>3, <1>7, <2>3, <2>4, <2>5 DEF SpiSending
  <2>7. SpiPhases'
    BY <1>1, <1>3, <1>10, <2>6 DEF SpiPhases
  <2>8. SpiProgress'
    BY <1>0, <1>3, <1>10 DEF SpiProgress
  <2>9. ASSUME ~SpiMissed PROVE Told(\A k \in 1..Len(msg) : SpiToSlave(k) = msg[k])'
    <3> DEFINE S == 1..Len(msg)
               n == Len(spi_buf[Spi!hspi4]) + Len(rxFifo[Spi!hspi4]) + 1
    <3>1. /\ \A k \in S : SpiToSlave(k)' = IF k = n THEN mosi ELSE SpiToSlave(k)
          /\ SpiToSlave(n) = Head(txFifo[Spi!hspi1])
      <4> DEFINE a == spi_buf[Spi!hspi4]
                 r == rxFifo[Spi!hspi4]
                 c == txFifo[Spi!hspi1]
      <4>1. a \in Seq(Bytes) /\ r \in Seq(Bytes) /\ c \in Seq(Bytes) /\ c # << >>
            /\ rxFifo'[Spi!hspi4] = Append(r, mosi) /\ txFifo'[Spi!hspi1] = Tail(c)
            /\ spi_buf' = spi_buf /\ msg' = msg
        <5>1. Append(<< >>, mosi) = <<mosi>>
          OBVIOUS
        <5> QED
          BY <1>3, <1>4, <1>5, <2>1, <2>2, <5>1
      <4>2. ASSUME NEW k \in Nat \ {0}
            PROVE  /\ OnTheWay(a, Append(r, mosi), Tail(c), msg, k)
                        = IF k = n THEN mosi ELSE OnTheWay(a, r, c, msg, k)
                   /\ OnTheWay(a, r, c, msg, n) = Head(c)
        <5>1. n = Len(a) + Len(r) + 1
          OBVIOUS
        <5>2. a \in Seq(Bytes) /\ r \in Seq(Bytes) /\ c \in Seq(Bytes) /\ c # << >>
          BY <4>1
        <5> HIDE DEF a, r, c, n
        <5> QED
          BY <5>1, <5>2, ByteClocked
      <4>3. \A k \in S : k \in Nat \ {0}
        BY <1>8
      <4>4. 1 \in Nat \ {0}
        OBVIOUS
      <4> QED
        BY <4>1, <4>2, <4>3, <4>4 DEF SpiToSlave
    <3>2. n \in S
      <4>1. Len(spi_buf[Spi!hspi4]) + rxNDTR[Spi!hspi4] = Len(msg) /\ Len(rxFifo[Spi!hspi4]) = 0
        BY <2>1 DEF SpiSending, SpiReceives
      <4>2. Len(spi_buf[Spi!hspi4]) \in Nat /\ Len(msg) \in Nat
        BY SpiFacts
      <4> QED
        BY <1>8, <2>1, <4>1, <4>2
    <3>3. Told(\A k \in S : SpiToSlave(k) = msg[k])
      BY <1>0, <1>10, <2>9 DEF SpiTexts
    <3> DEFINE f == [k \in S |-> SpiToSlave(k)]
               g == [k \in S |-> SpiToSlave(k)']
    <3>4. /\ \A k \in S : g[k] = IF k = n THEN mosi ELSE f[k]
          /\ f[n] = Head(txFifo[Spi!hspi1])
      BY <3>1, <3>2
    <3>5. /\ damaged = 0 => \A k \in S : f[k] = msg[k]
          /\ damaged = 1 => ~\A k \in S : f[k] = msg[k]
      BY <3>3 DEF Told
    <3>6. damaged' = IF Head(txFifo[Spi!hspi1]) # mosi /\ damaged < 2 THEN damaged + 1 ELSE damaged
      BY <1>2, <1>10
    <3>7. /\ damaged' = 0 => \A k \in S : g[k] = msg[k]
          /\ damaged' = 1 => ~\A k \in S : g[k] = msg[k]
      <4> HIDE DEF f, g, S, n
      <4> QED
        BY <1>8, <3>2, <3>4, <3>5, <3>6, OneByteClocked
    <3> QED
      BY <1>3, <3>7 DEF Told
  <2>10. SpiTexts'
    BY <1>0, <1>1, <1>3, <1>10, <2>9 DEF SpiTexts
  <2> QED
    BY <2>7, <2>8, <2>10 DEF SpiRest
<1>11. CASE pc = "wait2"
  <2>1. /\ SpiReturning /\ rxFifo[Spi!hspi1] = << >> /\ rxNDTR[Spi!hspi1] > 0
        /\ txFifo[Spi!hspi4] # << >>
    BY <1>1, <1>11, SpiClocks
  <2>2. rxFifo'[Spi!hspi1] = <<miso>> /\ txFifo'[Spi!hspi4] = Tail(txFifo[Spi!hspi4])
    BY <1>4, <1>9, <2>1 DEF Spi!Shifted
  <2>3. SpiSends(Spi!hspi4)' /\ SpiNotReceiving(Spi!hspi4)' /\ SpiReceives(Spi!hspi1)'
    BY <1>3, <2>1 DEF SpiReturning, SpiSends, SpiReceives, SpiNotReceiving
  <2>4. SpiLeft(Spi!hspi4)' = SpiLeft(Spi!hspi4) - 1
    <3>1. txFifo[Spi!hspi4] \in Seq(Bytes) /\ txFifo[Spi!hspi4] # << >>
          /\ txFifo'[Spi!hspi4] = Tail(txFifo[Spi!hspi4])
      BY <1>5, <2>1, <2>2
    <3>2. Len(txFifo'[Spi!hspi4]) = Len(txFifo[Spi!hspi4]) - 1 /\ Len(txFifo[Spi!hspi4]) \in Nat
      BY <3>1
    <3>3. txNDTR[Spi!hspi4] \in Nat /\ txNDTR' = txNDTR
      BY <1>3, <1>5
    <3> QED
      BY <3>2, <3>3 DEF SpiLeft
  <2>5. /\ rxNDTR[Spi!hspi1] = 1 + (SpiLeft(Spi!hspi1) - 1)
        /\ IF SpiMissed THEN SpiLeft(Spi!hspi4) - 1 > SpiLeft(Spi!hspi1) - 1
                        ELSE SpiLeft(Spi!hspi4) - 1 = SpiLeft(Spi!hspi1) - 1
    <3>1. Len(rxFifo[Spi!hspi1]) = 0
      BY <2>1
    <3>2. /\ rxNDTR[Spi!hspi1] = 0 + SpiLeft(Spi!hspi1)
          /\ IF SpiMissed THEN SpiLeft(Spi!hspi4) > SpiLeft(Spi!hspi1)
                          ELSE SpiLeft(Spi!hspi4) = SpiLeft(Spi!hspi1)
      BY <2>1, <3>1 DEF SpiReturning
    <3> QED
      BY <1>8, <3>2
  <2>6. Len(rxFifo'[Spi!hspi1]) = 1
    BY <2>2
  <2>7. SpiReturning'
    BY <1>1, <1>3, <1>7, <2>1, <2>3, <2>4, <2>5, <2>6 DEF SpiReturning
  <2>8. SpiPhases' /\ SpiProgress'
    BY <1>0, <1>1, <1>3, <1>11, <2>7 DEF SpiPhases, SpiProgress
  <2>9. ASSUME ~SpiMissed PROVE Told(\A k \in 1..Len(msg) : SpiToMaster(k) = msg[k])'
    <3> DEFINE S == 1..Len(msg)
               n == Len(spi_buf[Spi!hspi1]) + Len(rxFifo[Spi!hspi1]) + 1
               src == spi_buf[Spi!hspi4]
    <3>1. /\ \A k \in S : SpiToMaster(k)' = IF k = n THEN miso ELSE SpiToMaster(k)
          /\ SpiToMaster(n) = Head(txFifo[Spi!hspi4])
      <4> DEFINE a == spi_buf[Spi!hspi1]
                 r == rxFifo[Spi!hspi1]
                 c == txFifo[Spi!hspi4]
      <4>1. a \in Seq(Bytes) /\ r \in Seq(Bytes) /\ c \in Seq(Bytes) /\ c # << >>
            /\ rxFifo'[Spi!hspi1] = Append(r, miso) /\ txFifo'[Spi!hspi4] = Tail(c)
            /\ spi_buf' = spi_buf /\ msg' = msg
        <5>1. Append(<< >>, miso) = <<miso>>
          OBVIOUS
        <5> QED
          BY <1>3, <1>4, <1>5, <2>1, <2>2, <5>1
      <4>2. ASSUME NEW k \in Nat \ {0}
            PROVE  /\ OnTheWay(a, Append(r, miso), Tail(c), src, k)
                        = IF k = n THEN miso ELSE OnTheWay(a, r, c, src, k)
                   /\ OnTheWay(a, r, c, src, n) = Head(c)
        <5>1. n = Len(a) + Len(r) + 1
          OBVIOUS
        <5> HIDE DEF a, r, c, n, src
        <5> QED
          BY <4>1, <5>1, ByteClocked
      <4>3. \A k \in S : k \in Nat \ {0}
        BY <1>8
      <4>4. 1 \in Nat \ {0}
        OBVIOUS
      <4> QED
        BY <4>1, <4>2, <4>3, <4>4 DEF SpiToMaster
    <3>2. n \in S
      <4>1. Len(spi_buf[Spi!hspi1]) + rxNDTR[Spi!hspi1] = Len(msg) /\ Len(rxFifo[Spi!hspi1]) = 0
        BY <2>1 DEF SpiReturning, SpiReceives
      <4>2. Len(spi_buf[Spi!hspi1]) \in Nat /\ Len(msg) \in Nat
        BY SpiFacts
      <4> QED
        BY <1>8, <2>1, <4>1, <4>2
    <3>3. Told(\A k \in S : SpiToMaster(k) = msg[k])
      BY <1>0, <1>11, <2>9 DEF SpiTexts
    <3> DEFINE f == [k \in S |-> SpiToMaster(k)]
               g == [k \in S |-> SpiToMaster(k)']
    <3>4. /\ \A k \in S : g[k] = IF k = n THEN miso ELSE f[k]
          /\ f[n] = Head(txFifo[Spi!hspi4])
      BY <3>1, <3>2
    <3>5. /\ damaged = 0 => \A k \in S : f[k] = msg[k]
          /\ damaged = 1 => ~\A k \in S : f[k] = msg[k]
      BY <3>3 DEF Told
    <3>6. damaged' = IF Head(txFifo[Spi!hspi4]) # miso /\ damaged < 2 THEN damaged + 1 ELSE damaged
      BY <1>2, <1>11
    <3>7. /\ damaged' = 0 => \A k \in S : g[k] = msg[k]
          /\ damaged' = 1 => ~\A k \in S : g[k] = msg[k]
      <4> HIDE DEF f, g, S, n
      <4> QED
        BY <1>8, <3>2, <3>4, <3>5, <3>6, OneByteClocked
    <3> QED
      BY <1>3, <3>7 DEF Told
  <2>10. SpiTexts'
    BY <1>0, <1>1, <1>3, <1>11, <2>9 DEF SpiTexts
  <2> QED
    BY <2>8, <2>10 DEF SpiRest
<1> QED
  BY <1>3, <1>10, <1>11

(* From now on somebody waits for more than will come.                     *)
LEMMA SpiMisses ==
  ASSUME SpiInv, Spi!SlaveMisses
  PROVE  SpiRest'
<1> USE DEF Spi!Ports, Spi!hspi1, Spi!hspi4
<1>0. SpiPhases /\ SpiProgress /\ SpiTexts /\ Spi!TypeOK
  BY DEF SpiInv
<1>1. Spi!Clock /\ Spi!Fault("miss") /\ damaged' = damaged
  BY DEF Spi!SlaveMisses
<1>2. SpiMissed' /\ OwnFault'
  BY <1>1, SpiFault
<1>3. PICK got \in Bytes : rxFifo' = [rxFifo EXCEPT ![Spi!hspi1] = Spi!Received(Spi!hspi1, got)]
  BY DEF Spi!SlaveMisses
<1>4. /\ UNCHANGED <<pc, msg, verdict, spi_tx_done, spi_rx_done, spi_State, spi_buf, txNDTR, rxNDTR,
                     txTCIF, rxTCIF, polling>>
      /\ txFifo[Spi!hspi1] # << >> /\ pc \in {"wait1", "wait2"}
  BY <1>1, SpiClocks DEF Spi!Clock, Spi!testVars, Spi!flags, Spi!txDma, Spi!rxDma
<1>5. txFifo' = [txFifo EXCEPT ![Spi!hspi1] = Tail(@)]
  BY DEF Spi!SlaveMisses
<1>6. /\ txFifo'[Spi!hspi1] = Tail(txFifo[Spi!hspi1]) /\ txFifo'[Spi!hspi4] = txFifo[Spi!hspi4]
      /\ rxFifo'[Spi!hspi1] = Spi!Received(Spi!hspi1, got) /\ rxFifo'[Spi!hspi4] = rxFifo[Spi!hspi4]
  BY <1>0, <1>3, <1>5 DEF Spi!TypeOK
<1>7. /\ SpiLeft(Spi!hspi1)' = SpiLeft(Spi!hspi1) - 1 /\ SpiLeft(Spi!hspi4)' = SpiLeft(Spi!hspi4)
      /\ SpiLeft(Spi!hspi1) \in Nat /\ SpiLeft(Spi!hspi4) \in Nat
  <2>1. txFifo[Spi!hspi1] \in Seq(Bytes) /\ txFifo[Spi!hspi1] # << >>
        /\ txFifo'[Spi!hspi1] = Tail(txFifo[Spi!hspi1])
    BY <1>4, <1>6, SpiFacts
  <2>2. Len(txFifo'[Spi!hspi1]) = Len(txFifo[Spi!hspi1]) - 1 /\ Len(txFifo[Spi!hspi1]) \in Nat
    BY <2>1
  <2>3. txNDTR[Spi!hspi1] \in Nat /\ txNDTR' = txNDTR
    BY <1>4, SpiFacts
  <2>4. SpiLeft(Spi!hspi1)' = SpiLeft(Spi!hspi1) - 1
    BY <2>2, <2>3 DEF SpiLeft
  <2>5. SpiLeft(Spi!hspi4)' = SpiLeft(Spi!hspi4)
    BY <1>6, <2>3 DEF SpiLeft
  <2> QED
    BY <2>4, <2>5, SpiLeftNat
<1>8. SpiProgress'
  BY <1>0, <1>4 DEF SpiProgress
<1>9. SpiTexts'
  BY <1>0, <1>1, <1>2, <1>4 DEF SpiTexts
<1>10. CASE pc = "wait1"
  <2>1. /\ SpiSending /\ rxFifo[Spi!hspi4] = << >> /\ rxNDTR[Spi!hspi4] > 0
        /\ spi_State[Spi!hspi1] = "BUSY_TX"
    BY <1>1, <1>10, SpiClocks
  <2>2. SpiSends(Spi!hspi1)'
    BY <1>4, <2>1 DEF SpiSending, SpiSends
  <2>3. SpiNotReceiving(Spi!hspi1)' /\ SpiReceives(Spi!hspi4)' /\ SpiNotSending(Spi!hspi4)'
    BY <1>4, <1>6, <2>1 DEF SpiSending, SpiNotReceiving, SpiReceives, SpiNotSending
  <2>4. rxNDTR[Spi!hspi4] > 0 + (SpiLeft(Spi!hspi1) - 1)
    <3>1. Len(rxFifo[Spi!hspi4]) = 0
      BY <2>1
    <3>2. \/ rxNDTR[Spi!hspi4] > 0 + SpiLeft(Spi!hspi1)
          \/ rxNDTR[Spi!hspi4] = 0 + SpiLeft(Spi!hspi1)
      BY <2>1, <3>1 DEF SpiSending
    <3>3. rxNDTR[Spi!hspi4] \in Nat
      BY SpiFacts
    <3> QED
      BY <1>7, <3>2, <3>3
  <2>5. Len(rxFifo'[Spi!hspi4]) = 0
    BY <1>6, <2>1
  <2>6. SpiSending'
    BY <1>2, <1>4, <1>7, <2>2, <2>3, <2>4, <2>5 DEF SpiSending
  <2>7. SpiPhases'
    BY <1>4, <1>10, <2>6 DEF SpiPhases
  <2> QED
    BY <1>8, <1>9, <2>7 DEF SpiRest
<1>11. CASE pc = "wait2"
  <2>1. SpiReturning /\ rxFifo[Spi!hspi1] = << >> /\ rxNDTR[Spi!hspi1] > 0
    BY <1>1, <1>11, SpiClocks
  <2>2. SpiSends(Spi!hspi4)' /\ SpiNotReceiving(Spi!hspi4)' /\ SpiReceives(Spi!hspi1)'
    BY <1>4, <1>6, <2>1 DEF SpiReturning, SpiSends, SpiReceives, SpiNotReceiving
  <2>3. rxFifo'[Spi!hspi1] = <<got>>
    <3>1. Len(<< >>) = 0 /\ Append(<< >>, got) = <<got>>
      OBVIOUS
    <3> QED
      BY <1>6, <2>1, <3>1, SpiDepth DEF Spi!Received
  <2>4. Len(rxFifo'[Spi!hspi1]) = 1
    BY <2>3
  <2>5. /\ rxNDTR[Spi!hspi1] = 1 + (SpiLeft(Spi!hspi1) - 1)
        /\ SpiLeft(Spi!hspi4) > SpiLeft(Spi!hspi1) - 1
    <3>1. Len(rxFifo[Spi!hspi1]) = 0
      BY <2>1
    <3>2. /\ rxNDTR[Spi!hspi1] = 0 + SpiLeft(Spi!hspi1)
          /\ SpiLeft(Spi!hspi4) > SpiLeft(Spi!hspi1) \/ SpiLeft(Spi!hspi4) = SpiLeft(Spi!hspi1)
      BY <2>1, <3>1 DEF SpiReturning
    <3> QED
      BY <1>7, <3>2
  <2>6. SpiReturning'
    BY <1>2, <1>4, <1>7, <2>1, <2>2, <2>4, <2>5 DEF SpiReturning
  <2>7. SpiPhases'
    BY <1>4, <1>11, <2>6 DEF SpiPhases
  <2> QED
    BY <1>8, <1>9, <2>7 DEF SpiRest
<1> QED
  BY <1>4, <1>10, <1>11

-----------------------------------------------------------------------------
(* The invariant is kept by every step of the test.                        *)
LEMMA SpiStep ==
  SpiInv /\ [Spi!Next]_(Spi!vars) => SpiInv'
<1> SUFFICES ASSUME SpiInv, [Spi!Next]_(Spi!vars) PROVE SpiRest'
  BY SpiTypes DEF SpiInv, SpiRest
<1>1. CASE UNCHANGED Spi!vars
  BY <1>1, SpiStutter
<1>2. CASE Spi!Begin
  BY <1>2, SpiBegin
<1>3. CASE Spi!MainStep
  BY <1>3, SpiArm, SpiSend, SpiSent, SpiSendBack, SpiReceive, SpiReturned, SpiMatchCRC
     DEF Spi!MainStep, Spi!SPI_Test_Perform
<1>4. CASE Spi!IrqStep
  BY <1>4, SpiTransmitCplt, SpiTransmitEnds, SpiTransmitTimesOut, SpiReceiveCplt DEF Spi!IrqStep
<1>5. CASE Spi!DmaStep
  BY <1>5, SpiTxTransfer, SpiRxTransfer DEF Spi!DmaStep
<1>6. CASE Spi!WireStep
  BY <1>6, SpiShift, SpiMisses DEF Spi!WireStep
<1> QED
  BY <1>1, <1>2, <1>3, <1>4, <1>5, <1>6 DEF Spi!Next

(* While the SPI is tested, its invariant holds.                           *)
LEMMA SpiHolds == Spec => [](device = "SPI" => SpiInv)
<1>1. Init => (device = "SPI" => SpiInv)
  BY SpiInit DEF Init
<1>2. (device = "SPI" => SpiInv) /\ [Next]_vars => (device = "SPI" => SpiInv)'
  <2> SUFFICES ASSUME device = "SPI" => SpiInv, [Next]_vars, device' = "SPI" PROVE SpiInv'
    OBVIOUS
  <2>1. device = "SPI"
    BY DEF Next, Begin, MainStep, IrqStep, DmaStep, WireStep, Only, vars
  <2>2. [Spi!Next]_(Spi!vars)
    BY <2>1 DEF Next, Begin, MainStep, IrqStep, DmaStep, WireStep, Only, Spi!Next,
                vars, testVars, history, spiVars, Spi!vars, Spi!testVars, Spi!history,
                Spi!flags, Spi!txDma, Spi!rxDma, Spi!fifos
  <2> QED
    BY <2>1, <2>2, SpiStep
<1> QED
  BY <1>1, <1>2, PTL DEF Spec

(* An SPI test that has returned has left both handles ready, no stream    *)
(* with bytes to transfer, no handler polling and nothing in a FIFO: what  *)
(* the master read while it sent is flushed, what it clocked out while it  *)
(* received was all sent, and no byte is there to shift the next message.  *)
THEOREM SpiLeftClean == Spec => []SpiClean
<1>1. (device = "SPI" => SpiInv) => SpiClean
  <2> SUFFICES ASSUME SpiInv, pc = "idle"
               PROVE  /\ polling = Spi!Nobody
                      /\ \A p \in Spi!Ports : /\ spi_State[p] = "READY" /\ txNDTR[p] = 0 /\ rxNDTR[p] = 0
                                              /\ txFifo[p] = << >> /\ rxFifo[p] = << >>
    BY DEF SpiClean, Spi!CleanBetweenTests
  <2> USE DEF Spi!Ports
  <2>1. SpiAtRest(Spi!hspi1) /\ SpiAtRest(Spi!hspi4)
    BY DEF SpiInv, SpiPhases
  <2>2. polling \in Spi!Ports \cup {Spi!Nobody}
    BY DEF SpiInv, Spi!TypeOK
  <2> QED
    BY <2>1, <2>2 DEF SpiAtRest, SpiNotSending, SpiNotReceiving
<1> QED
  BY <1>1, SpiHolds, PTL

(* Each of the four HAL calls of a test finds its handle ready, although   *)
(* the handler of the transmission before it may give up after 100 ms:     *)
(* they refuse the empty message only.                                     *)
THEOREM SpiIsNeverBusy == Spec => []SpiNeverBusy
<1>1. (device = "SPI" => SpiInv) => SpiNeverBusy
  <2> SUFFICES ASSUME SpiInv, msg # << >>
               PROVE  /\ pc \in {"start", "transmit4"} => Spi!CanStart(Spi!hspi4)
                      /\ pc \in {"transmit1", "receive1"} => Spi!CanStart(Spi!hspi1)
    BY DEF SpiNeverBusy, Spi!NeverBusy
  <2>1. /\ pc \in {"start", "transmit4"} => SpiAtRest(Spi!hspi4)
        /\ pc \in {"transmit1", "receive1"} => SpiAtRest(Spi!hspi1)
    BY DEF SpiInv, SpiPhases
  <2> QED
    BY <2>1 DEF SpiAtRest, Spi!CanStart
<1> QED
  BY <1>1, SpiHolds, PTL

(* The slave sends spi4_rx_tx back, and the test compares spi1_rx, only    *)
(* when the DMA has written the whole of them in this test.                *)
THEOREM SpiReadsWhatItGot == Spec => []SpiNothingUnwrittenRead
<1>1. (device = "SPI" => SpiInv) => SpiNothingUnwrittenRead
  <2> SUFFICES ASSUME SpiInv
               PROVE  /\ pc = "crc" => Len(spi_buf[Spi!hspi1]) = Len(msg)
                      /\ txNDTR[Spi!hspi4] > 0 => Len(spi_buf[Spi!hspi4]) = Len(msg)
    BY DEF SpiNothingUnwrittenRead, Spi!NothingUnwrittenRead
  <2>1. pc = "crc" => Len(spi_buf[Spi!hspi1]) = Len(msg)
    BY DEF SpiInv, SpiProgress
  <2>2. txNDTR[Spi!hspi4] > 0 => pc \in {"receive1", "wait2"}
    BY SpiAtWork DEF Spi!Ports, Spi!hspi1, Spi!hspi4
  <2>3. pc \in {"receive1", "wait2"} => Len(spi_buf[Spi!hspi4]) = Len(msg)
    BY DEF SpiInv, SpiProgress
  <2> QED
    BY <2>1, <2>2, <2>3
<1> QED
  BY <1>1, SpiHolds, PTL

-----------------------------------------------------------------------------
(* I2C.                                                                    *)
LEMMA I2cTestTypes ==
  I2c!TestTypeOK /\ (bus = "held" => Happened({"hold"})) /\ [I2c!Next]_(I2c!vars)
    => (I2c!TestTypeOK)'
<1> SUFFICES ASSUME I2c!TestTypeOK, bus = "held" => Happened({"hold"}), [I2c!Next]_(I2c!vars)
             PROVE  (I2c!TestTypeOK)'
  OBVIOUS
<1> USE PeripheralAssumption DEF I2c!TestTypeOK, I2c!testVars, I2c!history
<1>1. CASE UNCHANGED I2c!vars
  BY <1>1 DEF I2c!vars
<1>2. CASE I2c!Begin
  <2>1. since' = Len(faults) - IF bus = "held" THEN 1 ELSE 0
    BY <1>2 DEF I2c!Begin, I2c!BeginTest
  <2>2. Len(faults) \in Nat /\ (bus = "held" => Len(faults) > 0)
    <3>1. ASSUME bus = "held" PROVE \E i \in DOMAIN faults : TRUE
      BY <3>1 DEF Happened
    <3> QED
      BY <3>1
  <2>3. since' \in 0..Len(faults)
    BY <2>1, <2>2
  <2> QED
    BY <1>2, <2>3 DEF I2c!Begin, I2c!BeginTest
<1>3. CASE I2c!MainStep
  <2>1. UNCHANGED <<msg, damaged, faults, since>>
    BY <1>3 DEF I2c!MainStep, I2c!I2C_Test_Perform, I2c!SlaveDMA, I2c!EnableDMA, I2c!MasterDMA,
                I2c!WaitDone, I2c!MatchCRC
  <2>2. verdict' \in {"none", "pass", "fail"}
    BY <1>3 DEF I2c!MainStep, I2c!I2C_Test_Perform, I2c!SlaveDMA, I2c!EnableDMA, I2c!MasterDMA,
                I2c!WaitDone, I2c!MatchCRC, I2c!Return, I2c!CrcVerdicts
  <2> QED
    BY <2>1, <2>2
<1>4. CASE I2c!IrqStep \/ I2c!DmaStep
  BY <1>4 DEF I2c!IrqStep, I2c!DmaStep, I2c!DmaCplt, I2c!AddrCplt, I2c!MasterNack, I2c!SlaveNack,
              I2c!MasterCplt, I2c!SlaveCplt, I2c!TxTransfer, I2c!RxTransfer
<1>5. CASE I2c!WireStep
  <2>1. UNCHANGED <<msg, verdict>>
    BY <1>5 DEF I2c!WireStep, I2c!Address, I2c!AddressLost, I2c!Transfer, I2c!TransferFlipped,
                I2c!TransferRefused, I2c!IdleTransfer, I2c!Stop, I2c!Hold, I2c!LetGo, I2c!Byte
  <2>2. \/ UNCHANGED <<faults, since>>
        \/ \E kind \in LineFaults :
             faults' = Append(faults, kind) /\ Len(faults) < MaxFaults /\ UNCHANGED since
    BY <1>5 DEF I2c!WireStep, I2c!Address, I2c!AddressLost, I2c!Transfer, I2c!TransferFlipped,
                I2c!TransferRefused, I2c!IdleTransfer, I2c!Stop, I2c!Hold, I2c!LetGo, I2c!Fault
  <2>3. damaged' \in 0..2
    BY <1>5 DEF I2c!WireStep, I2c!Address, I2c!AddressLost, I2c!Transfer, I2c!TransferFlipped,
                I2c!TransferRefused, I2c!IdleTransfer, I2c!Stop, I2c!Hold, I2c!LetGo, I2c!Damage
  <2>4. /\ faults' \in Seq(LineFaults) /\ Len(faults') <= MaxFaults
        /\ since' \in 0..Len(faults')
    <3>1. CASE UNCHANGED <<faults, since>>
      BY <3>1
    <3>2. ASSUME NEW kind \in LineFaults, faults' = Append(faults, kind),
                 Len(faults) < MaxFaults, UNCHANGED since
          PROVE  <2>4!:
      <4>1. faults' \in Seq(LineFaults) /\ Len(faults') = Len(faults) + 1
        BY <3>2
      <4> QED
        BY <3>2, <4>1
    <3> QED
      BY <2>2, <3>1, <3>2
  <2> QED
    BY <2>1, <2>3, <2>4
<1> QED
  BY <1>1, <1>2, <1>3, <1>4, <1>5 DEF I2c!Next

(* What the types say of one port.                                         *)
LEMMA I2cFacts ==
  ASSUME I2cInv
  PROVE  /\ \A p \in I2c!Ports :
              /\ i2c_NDTR[p] \in Nat /\ i2c_buf[p] \in Seq(Bytes) /\ Len(i2c_buf[p]) \in Nat
              /\ Len(i2c_buf[p]) <= Len(msg)
              /\ TXDR[p] \in Seq(Bytes) /\ Len(TXDR[p]) \in Nat /\ Len(TXDR[p]) <= 2
              /\ i2c_RDR[p] \in Bytes \cup {NoByte}
              /\ I2cHeld(p) \in Seq(Bytes)
              /\ Len(I2cHeld(p)) = IF i2c_RDR[p] = NoByte THEN 0 ELSE 1
              /\ I2cSent(p) \in Seq(Bytes)
         /\ msg \in Seq(Bytes) /\ Len(msg) \in Nat /\ left \in Nat
         /\ damaged \in 0..2 /\ Len(faults) \in Nat /\ since \in 0..Len(faults)
<1>1. /\ msg \in Seq(Bytes) /\ Len(msg) \in Nat /\ left \in Nat
      /\ damaged \in 0..2 /\ Len(faults) \in Nat /\ since \in 0..Len(faults)
  BY DEF I2cInv, I2c!TypeOK, I2c!TestTypeOK, I2cProgress
<1>2. ASSUME NEW p \in I2c!Ports
      PROVE  /\ i2c_NDTR[p] \in Nat /\ i2c_buf[p] \in Seq(Bytes) /\ Len(i2c_buf[p]) \in Nat
             /\ Len(i2c_buf[p]) <= Len(msg)
             /\ TXDR[p] \in Seq(Bytes) /\ Len(TXDR[p]) \in Nat /\ Len(TXDR[p]) <= 2
             /\ i2c_RDR[p] \in Bytes \cup {NoByte}
             /\ I2cHeld(p) \in Seq(Bytes)
             /\ Len(I2cHeld(p)) = IF i2c_RDR[p] = NoByte THEN 0 ELSE 1
             /\ I2cSent(p) \in Seq(Bytes)
  <2>1. /\ i2c_NDTR[p] \in Nat /\ i2c_buf[p] \in Seq(Bytes) /\ Len(i2c_buf[p]) <= Len(msg)
        /\ TXDR[p] \in Seq(Bytes) /\ Len(TXDR[p]) <= 2
        /\ i2c_RDR[p] \in Bytes \cup {NoByte}
    BY DEF I2cInv, I2c!TypeOK, I2c!NoByte, NoByte
  <2>2. Len(i2c_buf[p]) \in Nat /\ Len(TXDR[p]) \in Nat /\ Len(TXDR[p]) <= 2
    <3>1. i2c_buf[p] \in Seq(Bytes) /\ TXDR[p] \in Seq(Bytes)
      BY <2>1
    <3>2. Len(i2c_buf[p]) \in Nat /\ Len(TXDR[p]) \in Nat
      BY <3>1
    <3>3. Len(TXDR[p]) <= 2
      BY <2>1
    <3> QED
      BY <3>2, <3>3
  <2>3. I2cHeld(p) \in Seq(Bytes) /\ Len(I2cHeld(p)) = IF i2c_RDR[p] = NoByte THEN 0 ELSE 1
    <3>1. CASE i2c_RDR[p] = NoByte
      BY <3>1 DEF I2cHeld
    <3>2. CASE i2c_RDR[p] # NoByte
      <4>1. i2c_RDR[p] \in Bytes /\ I2cHeld(p) = <<i2c_RDR[p]>>
        BY <2>1, <3>2 DEF I2cHeld
      <4> QED
        BY <3>2, <4>1
    <3> QED
      BY <3>1, <3>2
  <2>4. I2cSent(p) \in Seq(Bytes)
    BY <2>1 DEF I2cSent
  <2> QED
    BY <2>1, <2>2, <2>3, <2>4
<1> QED
  BY <1>1, <1>2

LEMMA NoByteIsNone == NoByte \notin Bytes /\ I2c!NoByte = NoByte
  BY PeripheralAssumption DEF NoByte, I2c!NoByte

LEMMA I2cInit == I2c!Init => I2cInv
<1> SUFFICES ASSUME I2c!Init PROVE I2cInv
  OBVIOUS
<1> USE DEF I2c!Init, I2c!TestInit, I2c!Each, I2c!Ports, I2c!hi2c1, I2c!hi2c2, I2c!NoByte, NoByte
<1>1. I2c!TypeOK
  <2>1. I2c!TestTypeOK
    BY PeripheralAssumption DEF I2c!TestTypeOK
  <2>2. << >> \in Seq(Bytes) /\ Len(<< >>) = 0
    OBVIOUS
  <2>3. /\ i2c_buf \in [I2c!Ports -> Seq(Bytes)] /\ \A p \in I2c!Ports : Len(i2c_buf[p]) <= Len(msg)
        /\ TXDR \in [I2c!Ports -> Seq(Bytes)] /\ \A p \in I2c!Ports : Len(TXDR[p]) <= 2
    BY <2>2
  <2>4. /\ i2c_State \in [I2c!Ports -> {"READY", "BUSY_TX", "BUSY_RX"}]
        /\ i2c_tx_done \in [I2c!Ports -> BOOLEAN] /\ i2c_rx_done \in [I2c!Ports -> BOOLEAN]
        /\ AF \in BOOLEAN /\ STOPI \in BOOLEAN /\ DMAEN \in [I2c!Ports -> BOOLEAN]
        /\ i2c_NDTR \in [I2c!Ports -> Nat] /\ i2c_TCIF \in [I2c!Ports -> BOOLEAN]
        /\ i2c_RDR \in [I2c!Ports -> Bytes \cup {I2c!NoByte}]
        /\ NACKF \in [I2c!Ports -> BOOLEAN] /\ STOPF \in [I2c!Ports -> BOOLEAN]
    OBVIOUS
  <2> QED
    BY <2>1, <2>3, <2>4 DEF I2c!TypeOK, I2c!Labels
<1>2. I2cPhases
  <2>1. I2cUnused /\ pc = "idle"
    BY DEF I2cUnused
  <2>2. I2cAtRest(1) /\ I2cAtRest(2) /\ i2c_State[2] = "READY"
    BY DEF I2cAtRest, I2cQuiet
  <2> HIDE DEF I2c!Init
  <2> QED
    BY <2>1, <2>2 DEF I2cPhases
<1>3. I2cProgress
  BY DEF I2cProgress
<1>4. I2cTexts
  <2>1. pc = "idle" /\ damaged = 0 /\ bus = "free" /\ verdict = "none"
    OBVIOUS
  <2> HIDE DEF I2c!Init
  <2>2. ~I2cReturning
    BY <2>1 DEF I2cReturning
  <2>3. ~(damaged > 0 \/ bus = "released")
    BY <2>1
  <2> QED
    BY <2>1, <2>2, <2>3, Zenon DEF I2cTexts
<1> QED
  BY <1>1, <1>2, <1>3, <1>4 DEF I2cInv

(* What is stored comes to the message's length in the end: a stream that  *)
(* has a byte to fetch is one of this test's.                              *)
LEMMA I2cFilling ==
  ASSUME I2cInv, NEW p \in I2c!Ports, I2c!RxRequest(p)
  PROVE  /\ Len(i2c_buf[p]) + i2c_NDTR[p] = Len(msg)
         /\ \/ p = I2c!hi2c2 /\ pc = "wait1"
            \/ p = I2c!hi2c1 /\ pc \in {"transmit2", "txdmaen", "wait2"}
<1> USE DEF I2c!Ports, I2c!hi2c1, I2c!hi2c2
<1>0. I2cPhases /\ pc \in I2c!Labels
  BY DEF I2cInv, I2c!TypeOK
<1>1. i2c_State[p] = "BUSY_RX" /\ i2c_NDTR[p] > 0 /\ i2c_RDR[p] # NoByte
  BY NoByteIsNone DEF I2c!RxRequest
<1>2. CASE pc \in {"idle", "start", "rxdmaen", "transmit1", "receive1", "crc"}
  BY <1>0, <1>1, <1>2 DEF I2cPhases, I2cAtRest, I2cQuiet, I2cLeftArmed, I2cArmed
<1>3. CASE pc = "wait1"
  <2>1. CASE I2cRefused
    BY <1>0, <1>1, <1>3, <2>1 DEF I2cPhases
  <2>2. CASE ~I2cRefused
    BY <1>0, <1>1, <1>3, <2>2 DEF I2cPhases, I2cWriting
  <2> QED
    BY <2>1, <2>2
<1>4. CASE pc \in {"transmit2", "txdmaen", "wait2"}
  <2>1. CASE I2cRefused
    BY <1>0, <1>1, <1>4, <2>1 DEF I2cPhases, I2cAtRest
  <2>2. CASE ~I2cRefused
    BY <1>0, <1>1, <1>4, <2>2 DEF I2cPhases, I2cReading
  <2> QED
    BY <2>1, <2>2
<1> QED
  BY <1>0, <1>2, <1>3, <1>4 DEF I2c!Labels

LEMMA FirstByte ==
  ASSUME NEW m \in Seq(Bytes), m # << >>
  PROVE  /\ SubSeq(m, 1, 1) \in Seq(Bytes) /\ Len(SubSeq(m, 1, 1)) = 1
         /\ SubSeq(m, 1, 1)[1] = m[1] /\ Len(m) \in Nat /\ Len(m) > 0
<1>1. Len(m) \in Nat /\ Len(m) > 0
  OBVIOUS
<1>2. 1 \in 1..Len(m) /\ 1 \in Int
  BY <1>1
<1>3. Len(SubSeq(m, 1, 1)) = 1
  BY <1>2
<1>4. SubSeq(m, 1, 1)[1] = m[1]
  BY <1>2, <1>3
<1>5. SubSeq(m, 1, 1) \in Seq(Bytes)
  BY <1>2
<1> QED
  BY <1>1, <1>3, <1>4, <1>5

LEMMA FlagSet ==
  ASSUME NEW S, NEW f \in [S -> BOOLEAN], NEW p \in S, NEW b
  PROVE  /\ b \in BOOLEAN => [f EXCEPT ![p] = b] \in [S -> BOOLEAN]
         /\ [f EXCEPT ![p] = TRUE] \in [S -> BOOLEAN]
  BY Zenon

LEMMA I2cTypes == I2cInv /\ [I2c!Next]_(I2c!vars) => (I2c!TypeOK)'
<1> SUFFICES ASSUME I2cInv, [I2c!Next]_(I2c!vars) PROVE (I2c!TypeOK)'
  OBVIOUS
<1>0. I2c!TypeOK /\ (I2c!TestTypeOK)' /\ msg \in Seq(Bytes)
  BY I2cTestTypes DEF I2cInv, I2c!TypeOK, I2cTexts, I2cProgress
<1> USE DEF I2c!testVars, I2c!flags, I2c!dma, I2c!handles, I2c!isr, I2c!wires, I2c!history,
            I2c!hi2c1, I2c!hi2c2, I2c!Ports
<1>1. CASE UNCHANGED I2c!vars
  BY <1>0, <1>1 DEF I2c!vars, I2c!TypeOK
<1>2. CASE I2c!Begin
  <2>1. /\ \A p \in I2c!Ports : i2c_buf'[p] = << >>
        /\ i2c_buf' \in [I2c!Ports -> Seq(Bytes)]
        /\ i2c_tx_done' \in [I2c!Ports -> BOOLEAN] /\ i2c_rx_done' \in [I2c!Ports -> BOOLEAN]
    BY <1>2 DEF I2c!Begin, I2c!Each, I2c!ClearFlags
  <2>2. msg' \in Seq(Bytes) /\ pc' \in I2c!Labels
    BY <1>2, PeripheralAssumption DEF I2c!Begin, I2c!BeginTest, I2c!Labels
  <2>3. \A p \in I2c!Ports : Len(i2c_buf'[p]) <= Len(msg')
    BY <2>1, <2>2
  <2> QED
    BY <1>0, <1>2, <2>1, <2>2, <2>3 DEF I2c!Begin, I2c!TypeOK
<1>3. ASSUME NEW busy \in {"BUSY_RX", "BUSY_TX"}, NEW here, NEW next \in {"rxdmaen", "txdmaen"},
             I2c!SlaveDMA(busy, here, next)
      PROVE  (I2c!TypeOK)'
  <2>1. /\ UNCHANGED <<msg, i2c_tx_done, i2c_rx_done, i2c_buf, AF, STOPI, i2c_TCIF, DMAEN, TXDR, i2c_RDR,
                       NACKF, STOPF, bus, left>>
        /\ pc' \in I2c!Labels
    BY <1>3 DEF I2c!SlaveDMA, I2c!Return, I2c!Labels
  <2>2. /\ i2c_State' \in [I2c!Ports -> {"READY", "BUSY_TX", "BUSY_RX"}]
        /\ i2c_NDTR' \in [I2c!Ports -> Nat]
    BY <1>0, <1>3 DEF I2c!SlaveDMA, I2c!TypeOK
  <2> QED
    BY <1>0, <2>1, <2>2 DEF I2c!TypeOK
<1>4. ASSUME NEW here, NEW next \in {"transmit1", "wait2"}, I2c!EnableDMA(here, next)
      PROVE  (I2c!TypeOK)'
  <2>1. DMAEN' \in [I2c!Ports -> BOOLEAN] /\ pc' \in I2c!Labels
    BY <1>0, <1>4 DEF I2c!EnableDMA, I2c!TypeOK, I2c!Labels
  <2> QED
    BY <1>0, <1>4, <2>1 DEF I2c!EnableDMA, I2c!TypeOK
<1>5. ASSUME NEW busy \in {"BUSY_RX", "BUSY_TX"}, NEW preload \in {<< >>, SubSeq(msg, 1, 1)},
             NEW here, NEW next \in {"wait1", "transmit2"},
             I2c!MasterDMA(busy, preload, here, next), msg # << >>
      PROVE  (I2c!TypeOK)'
  <2>1. preload \in Seq(Bytes) /\ Len(preload) <= 1 /\ Len(msg) - Len(preload) \in Nat /\ Len(msg) \in Nat
    <3>1. SubSeq(msg, 1, 1) \in Seq(Bytes) /\ Len(SubSeq(msg, 1, 1)) = 1 /\ Len(msg) \in Nat /\ Len(msg) > 0
      BY <1>0, <1>5, FirstByte
    <3>2. CASE preload = << >>
      BY <3>1, <3>2
    <3>3. CASE preload = SubSeq(msg, 1, 1)
      BY <3>1, <3>3
    <3> QED
      BY <3>2, <3>3
  <2>2. UNCHANGED <<msg, i2c_tx_done, i2c_rx_done, i2c_buf, i2c_TCIF, i2c_RDR, NACKF, STOPF>>
    BY <1>5 DEF I2c!MasterDMA
  <2>3. CASE ~I2c!CanAddress
    BY <1>0, <1>5, <2>2, <2>3 DEF I2c!MasterDMA, I2c!Return, I2c!TypeOK, I2c!Labels
  <2>4. CASE I2c!CanAddress
    <3> DEFINE n == Len(msg) - Len(preload)
    <3>1. n \in Nat
      BY <2>1
    <3>2. /\ i2c_State' = [i2c_State EXCEPT ![I2c!hi2c1] = busy]
          /\ TXDR' = [TXDR EXCEPT ![I2c!hi2c1] = preload]
          /\ i2c_NDTR' = [i2c_NDTR EXCEPT ![I2c!hi2c1] = n]
          /\ DMAEN' = [DMAEN EXCEPT ![I2c!hi2c1] = Len(msg) > Len(preload)]
          /\ STOPI' \in BOOLEAN /\ AF' \in BOOLEAN /\ bus' = "start" /\ left' = Len(msg) /\ pc' = next
      BY <1>5, <2>4 DEF I2c!MasterDMA
    <3> HIDE DEF n
    <3>3. /\ i2c_State' \in [I2c!Ports -> {"READY", "BUSY_TX", "BUSY_RX"}]
          /\ i2c_NDTR' \in [I2c!Ports -> Nat]
      BY <1>0, <3>1, <3>2 DEF I2c!TypeOK
    <3>4. DMAEN' \in [I2c!Ports -> BOOLEAN]
      <4>1. (Len(msg) > Len(preload)) \in BOOLEAN /\ DMAEN \in [I2c!Ports -> BOOLEAN]
        BY <1>0 DEF I2c!TypeOK
      <4>2. I2c!hi2c1 \in I2c!Ports
        OBVIOUS
      <4> QED
        <5> DEFINE b == Len(msg) > Len(preload)
        <5>1. DMAEN' = [DMAEN EXCEPT ![I2c!hi2c1] = b] /\ b \in BOOLEAN
          BY <3>2, <4>1
        <5> HIDE DEF b
        <5> QED
          BY <4>1, <4>2, <5>1, Zenon
    <3>5. TXDR' \in [I2c!Ports -> Seq(Bytes)] /\ \A p \in I2c!Ports : Len(TXDR'[p]) <= 2
      <4>1. TXDR \in [I2c!Ports -> Seq(Bytes)] /\ \A p \in I2c!Ports : Len(TXDR[p]) <= 2
        BY <1>0 DEF I2c!TypeOK
      <4>2. preload \in Seq(Bytes) /\ Len(preload) <= 2
        BY <2>1
      <4> QED
        BY <3>2, <4>1, <4>2
    <3> QED
      BY <1>0, <2>1, <2>2, <3>2, <3>3, <3>4, <3>5 DEF I2c!TypeOK, I2c!Labels
  <2> QED
    BY <2>3, <2>4
<1>6. ASSUME NEW sender, NEW receiver, NEW here, NEW next \in {"receive1", "crc"},
             I2c!WaitDone(sender, receiver, here, next)
      PROVE  (I2c!TypeOK)'
  BY <1>0, <1>6 DEF I2c!WaitDone, I2c!TypeOK, I2c!Labels
<1>7. CASE I2c!MatchCRC
  BY <1>0, <1>7 DEF I2c!MatchCRC, I2c!Return, I2c!TypeOK, I2c!Labels
<1>8. CASE I2c!MainStep
  <2>1. SubSeq(msg, 1, 1) \in {<< >>, SubSeq(msg, 1, 1)} /\ << >> \in {<< >>, SubSeq(msg, 1, 1)}
    OBVIOUS
  <2>2. pc \in {"transmit1", "receive1"} => msg # << >>
    BY DEF I2cInv, I2cProgress
  <2>3. CASE \/ I2c!MasterDMA("BUSY_TX", SubSeq(msg, 1, 1), "transmit1", "wait1")
             \/ I2c!MasterDMA("BUSY_RX", << >>, "receive1", "transmit2")
    <3>1. msg # << >>
      BY <2>2, <2>3 DEF I2c!MasterDMA
    <3> QED
      BY <1>5, <2>1, <2>3, <3>1
  <2> QED
    BY <1>3, <1>4, <1>6, <1>7, <1>8, <2>3 DEF I2c!MainStep, I2c!I2C_Test_Perform
<1>9. CASE I2c!IrqStep
  <2>1. ASSUME NEW p \in I2c!Ports, I2c!DmaCplt(p) PROVE (I2c!TypeOK)'
    <3>1. i2c_TCIF' \in [I2c!Ports -> BOOLEAN] /\ DMAEN' \in [I2c!Ports -> BOOLEAN] /\ STOPI' \in BOOLEAN
      BY <1>0, <2>1 DEF I2c!DmaCplt, I2c!TypeOK
    <3> QED
      BY <1>0, <2>1, <3>1 DEF I2c!DmaCplt, I2c!TypeOK
  <2>2. CASE I2c!AddrCplt
    BY <1>0, <2>2 DEF I2c!AddrCplt, I2c!TypeOK
  <2>3. ASSUME NEW p \in I2c!Ports
        PROVE  /\ [TXDR EXCEPT ![p] = << >>] \in [I2c!Ports -> Seq(Bytes)]
               /\ \A q \in I2c!Ports : Len([TXDR EXCEPT ![p] = << >>][q]) <= 2
    <3>1. TXDR \in [I2c!Ports -> Seq(Bytes)] /\ \A q \in I2c!Ports : Len(TXDR[q]) <= 2
      BY <1>0 DEF I2c!TypeOK
    <3>2. << >> \in Seq(Bytes) /\ Len(<< >>) <= 2
      OBVIOUS
    <3> QED
      BY <3>1, <3>2
  <2>4. CASE I2c!MasterNack
    <3>1. NACKF' \in [I2c!Ports -> BOOLEAN]
      BY <1>0, <2>4 DEF I2c!MasterNack, I2c!TypeOK
    <3> QED
      BY <1>0, <2>3, <2>4, <3>1 DEF I2c!MasterNack, I2c!TypeOK
  <2>5. CASE I2c!SlaveNack
    <3>1. NACKF' \in [I2c!Ports -> BOOLEAN]
      BY <1>0, <2>5 DEF I2c!SlaveNack, I2c!TypeOK
    <3> QED
      BY <1>0, <2>5, <3>1 DEF I2c!SlaveNack, I2c!TypeOK
  <2>6. ASSUME NEW p \in I2c!Ports, NEW failed, I2c!Cplt(p, failed),
               UNCHANGED <<pc, msg, i2c_buf, AF, i2c_TCIF, i2c_RDR, bus, left>>,
               STOPI' \in BOOLEAN, DMAEN' \in [I2c!Ports -> BOOLEAN]
        PROVE  (I2c!TypeOK)'
    <3>1. /\ i2c_State' \in [I2c!Ports -> {"READY", "BUSY_TX", "BUSY_RX"}]
          /\ STOPF' \in [I2c!Ports -> BOOLEAN] /\ NACKF' \in [I2c!Ports -> BOOLEAN]
      BY <1>0, <2>6 DEF I2c!Cplt, I2c!TypeOK
    <3>2. i2c_NDTR' \in [I2c!Ports -> Nat]
      BY <1>0, <2>6 DEF I2c!Cplt, I2c!TypeOK
    <3>3. i2c_tx_done' \in [I2c!Ports -> BOOLEAN] /\ i2c_rx_done' \in [I2c!Ports -> BOOLEAN]
      <4>1. CASE failed
        BY <1>0, <2>6, <4>1 DEF I2c!Cplt, I2c!TypeOK
      <4>2. CASE ~failed
        <5>1. /\ i2c_tx_done' = [i2c_tx_done EXCEPT ![p] = i2c_tx_done[p] \/ i2c_State[p] = "BUSY_TX"]
              /\ i2c_rx_done' = [i2c_rx_done EXCEPT ![p] = i2c_rx_done[p] \/ i2c_State[p] = "BUSY_RX"]
          BY <2>6, <4>2, Zenon DEF I2c!Cplt, I2c!CpltCallback
        <5> QED
          BY <1>0, <2>6, <5>1, FlagSet DEF I2c!TypeOK
      <4> QED
        BY <4>1, <4>2
    <3>4. TXDR' = [TXDR EXCEPT ![p] = << >>]
      BY <2>6 DEF I2c!Cplt
    <3> QED
      BY <1>0, <2>3, <2>6, <3>1, <3>2, <3>3, <3>4 DEF I2c!TypeOK
  <2>7. CASE I2c!MasterCplt
    <3>1. DMAEN' \in [I2c!Ports -> BOOLEAN] /\ STOPI' \in BOOLEAN
      BY <1>0, <2>7 DEF I2c!MasterCplt, I2c!TypeOK
    <3> QED
      BY <2>6, <2>7, <3>1 DEF I2c!MasterCplt
  <2>8. CASE I2c!SlaveCplt
    <3>1. DMAEN' \in [I2c!Ports -> BOOLEAN] /\ STOPI' \in BOOLEAN
      BY <1>0, <2>8 DEF I2c!SlaveCplt, I2c!DmaOff, I2c!TypeOK
    <3> QED
      BY <2>6, <2>8, <3>1 DEF I2c!SlaveCplt
  <2> QED
    BY <1>9, <2>1, <2>2, <2>4, <2>5, <2>7, <2>8 DEF I2c!IrqStep
<1>10. ASSUME NEW p \in I2c!Ports, I2c!TxTransfer(p) PROVE (I2c!TypeOK)'
  <2>1. PICK b \in Bytes : TXDR' = [TXDR EXCEPT ![p] = Append(@, b)]
    <3>1. I2c!NextByte(p) \subseteq Bytes
      <4>1. I2c!Source(p) \in Seq(Bytes)
        BY <1>0 DEF I2c!Source, I2c!TypeOK
      <4> QED
        BY <4>1 DEF I2c!NextByte
    <3> QED
      BY <1>10, <3>1 DEF I2c!TxTransfer
  <2>2. TXDR' \in [I2c!Ports -> Seq(Bytes)] /\ \A q \in I2c!Ports : Len(TXDR'[q]) <= 2
    <3>1. Len(TXDR[p]) < 2 /\ TXDR[p] \in Seq(Bytes)
      BY <1>0, <1>10 DEF I2c!TxTransfer, I2c!TxRequest, I2c!TypeOK
    <3>2. Append(TXDR[p], b) \in Seq(Bytes) /\ Len(Append(TXDR[p], b)) <= 2
      BY <3>1
    <3> QED
      BY <1>0, <2>1, <3>2 DEF I2c!TypeOK
  <2>3. i2c_NDTR' \in [I2c!Ports -> Nat] /\ i2c_TCIF' \in [I2c!Ports -> BOOLEAN]
    BY <1>0, <1>10 DEF I2c!TxTransfer, I2c!TxRequest, I2c!Counted, I2c!TypeOK
  <2> QED
    BY <1>0, <1>10, <2>2, <2>3 DEF I2c!TxTransfer, I2c!TypeOK
<1>11. ASSUME NEW p \in I2c!Ports, I2c!RxTransfer(p) PROVE (I2c!TypeOK)'
  <2>1. /\ i2c_NDTR[p] > 0 /\ i2c_NDTR[p] \in Nat /\ i2c_buf[p] \in Seq(Bytes)
        /\ i2c_RDR[p] \in Bytes
    BY <1>0, <1>11 DEF I2c!RxTransfer, I2c!RxRequest, I2c!TypeOK
  <2>2. Len(i2c_buf[p]) + i2c_NDTR[p] = Len(msg)
    BY <1>11, I2cFilling DEF I2c!RxTransfer
  <2>3. Append(i2c_buf[p], i2c_RDR[p]) \in Seq(Bytes)
        /\ Len(Append(i2c_buf[p], i2c_RDR[p])) = Len(i2c_buf[p]) + 1
    BY <2>1
  <2>4. Len(Append(i2c_buf[p], i2c_RDR[p])) <= Len(msg) /\ msg' = msg
    BY <1>0, <1>11, <2>1, <2>2, <2>3 DEF I2c!RxTransfer
  <2>5. i2c_buf' \in [I2c!Ports -> Seq(Bytes)] /\ \A q \in I2c!Ports : Len(i2c_buf'[q]) <= Len(msg')
    BY <1>0, <1>11, <2>3, <2>4 DEF I2c!RxTransfer, I2c!TypeOK
  <2>6. /\ i2c_NDTR' \in [I2c!Ports -> Nat] /\ i2c_TCIF' \in [I2c!Ports -> BOOLEAN]
        /\ i2c_RDR' \in [I2c!Ports -> Bytes \cup {I2c!NoByte}]
    BY <1>0, <1>11, <2>1, SMTT(40) DEF I2c!RxTransfer, I2c!Counted, I2c!TypeOK
  <2> QED
    BY <1>0, <1>11, <2>5, <2>6 DEF I2c!RxTransfer, I2c!TypeOK
<1>12. CASE I2c!WireStep
  <2>1. UNCHANGED <<pc, msg, i2c_tx_done, i2c_rx_done, i2c_buf, i2c_State, AF, STOPI, i2c_NDTR, i2c_TCIF, DMAEN>>
    BY <1>12 DEF I2c!WireStep, I2c!Address, I2c!AddressLost, I2c!Transfer, I2c!TransferFlipped,
                 I2c!TransferRefused, I2c!IdleTransfer, I2c!Stop, I2c!Hold, I2c!LetGo, I2c!Byte
  <2>2. /\ bus' \in {"free", "held", "start", "refused", "addressed", "data", "released"} /\ left' \in Nat
        /\ NACKF' \in [I2c!Ports -> BOOLEAN] /\ STOPF' \in [I2c!Ports -> BOOLEAN]
    <3>1. bus \in {"free", "held", "start", "refused", "addressed", "data", "released"} /\ left \in Nat
          /\ NACKF \in [I2c!Ports -> BOOLEAN] /\ STOPF \in [I2c!Ports -> BOOLEAN]
      BY <1>0 DEF I2c!TypeOK
    <3>2. CASE I2c!Transfer \/ I2c!TransferFlipped
      <4>1. left > 0 /\ left' = left - 1 /\ bus' = bus /\ STOPF' = STOPF
            /\ NACKF' = [NACKF EXCEPT ![I2c!hi2c2] = NACKF[I2c!hi2c2] \/ (I2c!Sender = I2c!hi2c2 /\ left = 1)]
        BY <3>2 DEF I2c!Transfer, I2c!TransferFlipped, I2c!Acknowledged, I2c!Byte
      <4>2. NACKF' \in [I2c!Ports -> BOOLEAN]
        BY <3>1, <4>1, Zenon
      <4> QED
        BY <3>1, <4>1, <4>2
    <3>3. CASE I2c!TransferRefused
      BY <3>1, <3>3 DEF I2c!TransferRefused, I2c!Sender, I2c!Byte
    <3>4. CASE I2c!IdleTransfer
      BY <3>1, <3>4 DEF I2c!IdleTransfer
    <3>5. CASE I2c!Stop
      <4>1. STOPF' \in [I2c!Ports -> BOOLEAN]
        BY <3>5 DEF I2c!Stop
      <4> QED
        BY <3>1, <3>5, <4>1 DEF I2c!Stop
    <3>6. CASE I2c!Address \/ I2c!AddressLost \/ I2c!Hold \/ I2c!LetGo
      <4>1. CASE I2c!AddressLost
        <5>1. NACKF' = [NACKF EXCEPT ![I2c!hi2c1] = TRUE] /\ bus' = "refused" /\ left' = 0 /\ STOPF' = STOPF
          BY <4>1 DEF I2c!AddressLost
        <5> QED
          BY <3>1, <5>1, FlagSet
      <4>2. CASE I2c!Address \/ I2c!Hold \/ I2c!LetGo
        BY <3>1, <4>2 DEF I2c!Address, I2c!Hold, I2c!LetGo
      <4> QED
        BY <3>6, <4>1, <4>2
    <3> QED
      BY <1>12, <3>2, <3>3, <3>4, <3>5, <3>6 DEF I2c!WireStep
  <2>3. /\ TXDR' \in [I2c!Ports -> Seq(Bytes)] /\ \A q \in I2c!Ports : Len(TXDR'[q]) <= 2
        /\ i2c_RDR' \in [I2c!Ports -> Bytes \cup {I2c!NoByte}]
    <3>1. /\ TXDR \in [I2c!Ports -> Seq(Bytes)] /\ \A q \in I2c!Ports : Len(TXDR[q]) <= 2
          /\ i2c_RDR \in [I2c!Ports -> Bytes \cup {I2c!NoByte}] /\ IdleByte \in Bytes
      BY <1>0, PeripheralAssumption DEF I2c!TypeOK
    <3>2. ASSUME NEW got, I2c!Byte(got), got \in Bytes \/ got = Head(TXDR[I2c!Sender]) PROVE <2>3!:
      <4>1. I2c!Sender \in I2c!Ports /\ I2c!Receiver \in I2c!Ports
        BY DEF I2c!Sender, I2c!Receiver
      <4> DEFINE s == I2c!Sender
                 r == I2c!Receiver
      <4>2. TXDR[s] # << >> /\ TXDR' = [TXDR EXCEPT ![s] = Tail(@)] /\ i2c_RDR' = [i2c_RDR EXCEPT ![r] = got]
        BY <3>2 DEF I2c!Byte
      <4>3. s \in I2c!Ports /\ r \in I2c!Ports /\ TXDR[s] \in Seq(Bytes) /\ Len(TXDR[s]) <= 2
        BY <3>1, <4>1
      <4>4. got \in Bytes \/ got = Head(TXDR[s])
        BY <3>2
      <4> HIDE DEF s, r
      <4>5. Tail(TXDR[s]) \in Seq(Bytes) /\ Len(Tail(TXDR[s])) <= 2 /\ Head(TXDR[s]) \in Bytes
        BY <4>2, <4>3
      <4> QED
        BY <3>1, <4>2, <4>3, <4>4, <4>5
    <3>3. CASE I2c!Transfer \/ I2c!TransferFlipped \/ I2c!TransferRefused
      BY <3>2, <3>3 DEF I2c!Transfer, I2c!TransferFlipped, I2c!TransferRefused
    <3>4. CASE I2c!IdleTransfer
      BY <3>1, <3>4 DEF I2c!IdleTransfer
    <3>5. CASE I2c!Address \/ I2c!AddressLost \/ I2c!Hold \/ I2c!LetGo \/ I2c!Stop
      BY <3>1, <3>5 DEF I2c!Address, I2c!AddressLost, I2c!Hold, I2c!LetGo, I2c!Stop
    <3> QED
      BY <1>12, <3>3, <3>4, <3>5 DEF I2c!WireStep
  <2> QED
    BY <1>0, <2>1, <2>2, <2>3 DEF I2c!TypeOK
<1> QED
  BY <1>1, <1>2, <1>8, <1>9, <1>10, <1>11, <1>12 DEF I2c!Next, I2c!DmaStep

-----------------------------------------------------------------------------
(* The steps of the test.                                                  *)

I2cRest == I2cPhases /\ I2cProgress /\ I2cTexts

LEMMA I2cStutter == I2cInv /\ UNCHANGED I2c!vars => I2cRest'
<1> SUFFICES ASSUME I2cInv, UNCHANGED I2c!vars PROVE I2cRest'
  OBVIOUS
<1> USE DEF I2c!vars, I2c!testVars, I2c!flags, I2c!dma, I2c!handles, I2c!isr, I2c!wires, I2c!history
<1>1. I2cPhases'
  BY DEF I2cInv, I2cPhases, I2cUnused, I2cQuiet, I2cAtRest, I2cArmed, I2cLeftArmed, I2cRefused,
         I2cMasterDma, I2cMasterUp, I2cMasterEnds, I2cSlaveUp, I2cSlaveEnds, I2cHeld,
         I2cWriting, I2cReading, I2cAnswering, Happened
<1>2. I2cProgress'
  BY DEF I2cInv, I2cProgress
<1>3. I2cTexts'
  BY DEF I2cInv, I2cTexts, I2cReturning, I2cToSlave, I2cToMaster, I2cHeld, I2cSent, I2cRefused,
         I2cGivenUp, I2cUnused, Happened, OwnFault, Told
<1> QED
  BY <1>1, <1>2, <1>3 DEF I2cRest

LEMMA I2cBegin == I2cInv /\ I2c!Begin => I2cRest'
<1> SUFFICES ASSUME I2cInv, I2c!Begin PROVE I2cRest'
  OBVIOUS
<1> USE DEF I2c!testVars, I2c!flags, I2c!dma, I2c!handles, I2c!isr, I2c!wires, I2c!history,
            I2c!Ports, I2c!hi2c1, I2c!hi2c2
<1>1. /\ pc = "idle" /\ pc' = "start" /\ verdict' = "none" /\ damaged' = 0
      /\ msg' \in Seq(Bytes)
      /\ UNCHANGED <<faults, i2c_State, AF, STOPI, i2c_NDTR, i2c_TCIF, DMAEN, TXDR, i2c_RDR,
                     NACKF, STOPF, bus, left>>
      /\ i2c_tx_done' = I2c!Each(FALSE) /\ i2c_rx_done' = I2c!Each(FALSE)
      /\ i2c_buf' = I2c!Each(<< >>)
  BY PeripheralAssumption DEF I2c!Begin, I2c!BeginTest, I2c!ClearFlags
<1>2. /\ I2cUnused /\ I2cAtRest(I2c!hi2c1) /\ (I2cAtRest(I2c!hi2c2) \/ I2cLeftArmed)
      /\ (bus = "held" => Happened({"hold"}))
  BY <1>1 DEF I2cInv, I2cPhases, I2cTexts
<1>3. I2cPhases'
  BY <1>1, <1>2 DEF I2cPhases, I2cAtRest, I2cQuiet, I2cUnused, I2cLeftArmed, Happened
<1>4. I2cProgress'
  BY <1>1 DEF I2cProgress, I2c!Each
<1>5. I2cTexts'
  BY <1>1, <1>2 DEF I2cTexts, I2cUnused, I2cReturning, Happened
<1> QED
  BY <1>3, <1>4, <1>5 DEF I2cRest

(* The slave is armed, unless the message is empty or it still is.         *)
LEMMA I2cArm == I2cInv /\ I2c!SlaveDMA("BUSY_RX", "start", "rxdmaen") => I2cRest'
<1> SUFFICES ASSUME I2cInv, I2c!SlaveDMA("BUSY_RX", "start", "rxdmaen") PROVE I2cRest'
  OBVIOUS
<1> USE DEF I2c!testVars, I2c!flags, I2c!dma, I2c!handles, I2c!isr, I2c!wires, I2c!history,
            I2c!Ports, I2c!hi2c1, I2c!hi2c2
<1>0. I2cPhases /\ I2cProgress /\ I2cTexts /\ I2c!TypeOK
  BY DEF I2cInv
<1>1. /\ pc = "start"
      /\ UNCHANGED <<msg, i2c_tx_done, i2c_rx_done, i2c_buf, AF, STOPI, i2c_TCIF, DMAEN, TXDR, i2c_RDR,
                     NACKF, STOPF, bus, left, damaged, faults, since>>
  BY DEF I2c!SlaveDMA
<1>2. /\ I2cUnused /\ I2cAtRest(I2c!hi2c1) /\ (I2cAtRest(I2c!hi2c2) \/ I2cLeftArmed)
      /\ (bus = "held" => Happened({"hold"})) /\ (Happened({"hold"})' <=> Happened({"hold"}))
      /\ (OwnFault' <=> OwnFault) /\ damaged = 0
  BY <1>0, <1>1 DEF I2cPhases, I2cTexts, Happened, OwnFault
<1>3. CASE I2c!CanArm
  <2>1. /\ pc' = "rxdmaen" /\ verdict' = verdict /\ msg # << >>
        /\ i2c_State' = [i2c_State EXCEPT ![2] = "BUSY_RX"]
        /\ i2c_NDTR' = [i2c_NDTR EXCEPT ![2] = Len(msg)]
    BY <1>3 DEF I2c!SlaveDMA, I2c!CanArm
  <2>2. /\ i2c_State'[2] = "BUSY_RX" /\ i2c_NDTR'[2] = Len(msg)
        /\ i2c_State'[1] = i2c_State[1] /\ i2c_NDTR'[1] = i2c_NDTR[1]
    BY <1>0, <2>1 DEF I2c!TypeOK
  <2>3. I2cAtRest(I2c!hi2c2)
    BY <1>2, <1>3 DEF I2cLeftArmed, I2c!CanArm
  <2>4. I2cPhases'
    BY <1>1, <1>2, <2>1, <2>2, <2>3 DEF I2cPhases, I2cAtRest, I2cQuiet, I2cUnused, I2cArmed
  <2>5. I2cProgress'
    BY <1>0, <1>1, <2>1 DEF I2cProgress
  <2>6. I2cTexts'
    BY <1>0, <1>1, <1>2, <2>1 DEF I2cTexts, I2cReturning, I2cUnused
  <2> QED
    BY <2>4, <2>5, <2>6 DEF I2cRest
<1>4. CASE ~I2c!CanArm
  <2>1. pc' = "idle" /\ verdict' = "fail" /\ i2c_State' = i2c_State /\ i2c_NDTR' = i2c_NDTR
    BY <1>4 DEF I2c!SlaveDMA, I2c!Return
  <2>2. msg = << >> \/ Happened({"hold"})
    BY <1>2, <1>4 DEF I2cAtRest, I2cLeftArmed, I2c!CanArm, I2c!StreamReady
  <2>3. I2cPhases'
    BY <1>1, <1>2, <2>1 DEF I2cPhases, I2cAtRest, I2cQuiet, I2cUnused, I2cLeftArmed
  <2>4. I2cProgress'
    BY <1>0, <1>1, <2>1 DEF I2cProgress
  <2>5. I2cTexts'
    BY <1>0, <1>1, <1>2, <2>1, <2>2 DEF I2cTexts, I2cReturning, I2cUnused
  <2> QED
    BY <2>3, <2>4, <2>5 DEF I2cRest
<1> QED
  BY <1>3, <1>4

LEMMA I2cListens == I2cInv /\ I2c!EnableDMA("rxdmaen", "transmit1") => I2cRest'
<1> SUFFICES ASSUME I2cInv, I2c!EnableDMA("rxdmaen", "transmit1") PROVE I2cRest'
  OBVIOUS
<1> USE DEF I2c!testVars, I2c!flags, I2c!dma, I2c!handles, I2c!isr, I2c!wires, I2c!history,
            I2c!Ports, I2c!hi2c1, I2c!hi2c2
<1>0. I2cPhases /\ I2cProgress /\ I2cTexts /\ I2c!TypeOK
  BY DEF I2cInv
<1>1. /\ pc = "rxdmaen" /\ pc' = "transmit1" /\ DMAEN' = [DMAEN EXCEPT ![2] = TRUE]
      /\ UNCHANGED <<msg, verdict, i2c_tx_done, i2c_rx_done, i2c_buf, i2c_State, AF, STOPI, i2c_NDTR,
                     i2c_TCIF, TXDR, i2c_RDR, NACKF, STOPF, bus, left, damaged, faults, since>>
  BY DEF I2c!EnableDMA
<1>2. DMAEN'[2] /\ DMAEN'[1] = DMAEN[1]
  BY <1>0, <1>1 DEF I2c!TypeOK
<1>3. I2cUnused /\ I2cAtRest(I2c!hi2c1) /\ I2cArmed("BUSY_RX")
  BY <1>0, <1>1 DEF I2cPhases
<1>4. I2cPhases'
  BY <1>1, <1>2, <1>3 DEF I2cPhases, I2cAtRest, I2cQuiet, I2cUnused, I2cArmed
<1>5. I2cProgress'
  BY <1>0, <1>1 DEF I2cProgress
<1>6. I2cTexts'
  BY <1>0, <1>1, <1>3 DEF I2cTexts, I2cReturning, I2cUnused, OwnFault, Happened
<1> QED
  BY <1>4, <1>5, <1>6 DEF I2cRest

(* The master addresses the slave, unless the bus is busy; then the slave  *)
(* stays armed.                                                            *)
LEMMA I2cSend ==
  I2cInv /\ I2c!MasterDMA("BUSY_TX", SubSeq(msg, 1, 1), "transmit1", "wait1") => I2cRest'
<1> SUFFICES ASSUME I2cInv, I2c!MasterDMA("BUSY_TX", SubSeq(msg, 1, 1), "transmit1", "wait1")
             PROVE  I2cRest'
  OBVIOUS
<1> USE DEF I2c!testVars, I2c!flags, I2c!dma, I2c!handles, I2c!isr, I2c!wires, I2c!history,
            I2c!Ports, I2c!hi2c1, I2c!hi2c2
<1>0. I2cPhases /\ I2cProgress /\ I2cTexts /\ I2c!TypeOK
  BY DEF I2cInv
<1>1. /\ pc = "transmit1"
      /\ UNCHANGED <<msg, i2c_tx_done, i2c_rx_done, i2c_buf, i2c_TCIF, i2c_RDR, NACKF, STOPF,
                     damaged, faults, since>>
  BY DEF I2c!MasterDMA
<1>2. /\ I2cUnused /\ I2cAtRest(I2c!hi2c1) /\ I2cArmed("BUSY_RX") /\ DMAEN[2]
      /\ (bus = "held" => Happened({"hold"})) /\ (Happened({"hold"})' <=> Happened({"hold"}))
      /\ (OwnFault' <=> OwnFault) /\ damaged = 0
  BY <1>0, <1>1 DEF I2cPhases, I2cTexts, Happened, OwnFault
<1>3. /\ msg # << >> /\ msg \in Seq(Bytes) /\ i2c_buf[2] = << >> /\ i2c_buf[1] = << >>
      /\ ~i2c_tx_done[1] /\ ~i2c_rx_done[2] /\ ~i2c_rx_done[1] /\ ~i2c_tx_done[2]
  BY <1>0, <1>1 DEF I2cProgress
<1> DEFINE first == SubSeq(msg, 1, 1)
           n == Len(msg)
<1>4. /\ first \in Seq(Bytes) /\ Len(first) = 1 /\ first[1] = msg[1]
      /\ n \in Nat /\ n > 0 /\ n = Len(msg) /\ msg' = msg
  BY <1>1, <1>3, FirstByte
<1>5. CASE I2c!CanAddress
  <2>1. /\ pc' = "wait1" /\ verdict' = verdict /\ ~AF' /\ bus' = "start" /\ left' = n
        /\ i2c_State' = [i2c_State EXCEPT ![1] = "BUSY_TX"]
        /\ TXDR' = [TXDR EXCEPT ![1] = first]
        /\ i2c_NDTR' = [i2c_NDTR EXCEPT ![1] = n - Len(first)]
        /\ DMAEN' = [DMAEN EXCEPT ![1] = n > Len(first)]
        /\ (STOPI' <=> n = Len(first))
    BY <1>5 DEF I2c!MasterDMA
  <2> HIDE DEF first, n
  <2>2. /\ i2c_State'[1] = "BUSY_TX" /\ TXDR'[1] = first /\ i2c_NDTR'[1] = n - 1
        /\ i2c_State'[2] = i2c_State[2] /\ TXDR'[2] = TXDR[2] /\ i2c_NDTR'[2] = i2c_NDTR[2]
    BY <1>0, <1>4, <2>1 DEF I2c!TypeOK
  <2>3. (DMAEN'[1] <=> n > 1) /\ DMAEN'[2] /\ (STOPI' <=> n = 1)
    <3> DEFINE more == n > Len(first)
    <3>1. DMAEN' = [DMAEN EXCEPT ![1] = more] /\ DMAEN \in [I2c!Ports -> BOOLEAN]
      BY <1>0, <2>1 DEF I2c!TypeOK
    <3>2. (more <=> n > 1) /\ (STOPI' <=> n = 1)
      BY <1>4, <2>1
    <3> HIDE DEF more
    <3>3. (DMAEN'[1] <=> more) /\ DMAEN'[2] = DMAEN[2]
      BY <3>1
    <3> QED
      BY <1>2, <3>2, <3>3
  <2>4. ~I2cRefused'
    BY <1>1, <1>2, <2>1 DEF I2cRefused, I2cAtRest, I2cQuiet
  <2>5. I2cWriting'
    <3>1. I2cMasterDma'
      <4>1. ~i2c_TCIF'[1]
        BY <1>1, <1>2 DEF I2cAtRest
      <4>2. CASE n = 1
        <5>1. n - 1 = 0
          BY <4>2
        <5> QED
          BY <2>2, <2>3, <4>1, <4>2, <5>1 DEF I2cMasterDma
      <4>3. CASE n # 1
        <5>1. n - 1 > 0 /\ n > 1
          BY <1>4, <4>3
        <5> QED
          BY <2>2, <2>3, <4>1, <4>3, <5>1 DEF I2cMasterDma
      <4> QED
        BY <4>2, <4>3
    <3>2. I2cMasterUp("BUSY_TX", i2c_tx_done[1])' /\ I2cSlaveUp("BUSY_RX", i2c_rx_done[2])'
      BY <1>1, <1>2, <1>3, <2>2, <2>3, <3>1 DEF I2cMasterUp, I2cSlaveUp, I2cAtRest, I2cArmed, I2cQuiet
    <3>3. i2c_NDTR'[2] = n /\ Len(I2cHeld(2)') = 0 /\ Len(i2c_buf'[2]) = 0 /\ Len(TXDR'[1]) = 1
      BY <1>1, <1>2, <1>3, <1>4, <2>2 DEF I2cHeld, I2cArmed, I2cQuiet, n
    <3>4. TXDR'[2] = << >> /\ i2c_RDR'[1] = NoByte /\ ~NACKF'[2] /\ ~i2c_TCIF'[2]
      BY <1>1, <1>2, <2>2 DEF I2cAtRest, I2cArmed, I2cQuiet
    <3> QED
      <4>1. /\ Len(i2c_buf'[2]) + i2c_NDTR'[2] = Len(msg')
            /\ i2c_NDTR'[2] = left' + Len(I2cHeld(2)')
            /\ Len(TXDR'[1]) + i2c_NDTR'[1] = left'
        <5>1. n - 1 \in Int /\ 1 + (n - 1) = n /\ n + 0 = n /\ 0 + n = n
          BY <1>4
        <5>2. Len(msg') = n /\ left' = n /\ i2c_NDTR'[2] = n /\ i2c_NDTR'[1] = n - 1
          BY <1>4, <2>1, <2>2, <3>3
        <5> QED
          BY <3>3, <5>1, <5>2
      <4> QED
        BY <2>1, <3>2, <3>4, <4>1 DEF I2cWriting, I2cUnused
  <2>6. I2cPhases'
    BY <2>1, <2>4, <2>5 DEF I2cPhases
  <2>7. I2cProgress'
    BY <1>0, <1>1, <1>3, <2>1 DEF I2cProgress
  <2>8. \A k \in 1..n : I2cToSlave(k)' = msg[k]
    <3>1. Len(i2c_buf'[2]) = 0 /\ I2cHeld(2)' = << >> /\ I2cSent(1)' = first
      BY <1>1, <1>2, <1>3, <1>4, <2>1, <2>2 DEF I2cHeld, I2cSent, I2cArmed, I2cQuiet
    <3>2. Len(I2cHeld(2)') = 0 /\ Len(I2cSent(1)') = 1 /\ I2cSent(1)'[1] = msg[1]
      BY <1>4, <3>1
    <3>3. ASSUME NEW k \in 1..n PROVE I2cToSlave(k)' = msg[k]
      <4>1. k = 1 => k - (Len(i2c_buf'[2]) + Len(I2cHeld(2)')) = 1
        BY <3>1, <3>2
      <4> QED
        BY <1>4, <3>1, <3>2, <3>3, <4>1 DEF I2cToSlave, OnTheWay
    <3> QED
      BY <3>3
  <2>9. I2cTexts'
    BY <1>0, <1>1, <1>2, <1>4, <2>1, <2>4, <2>8 DEF I2cTexts, I2cReturning, Told
  <2> QED
    BY <2>6, <2>7, <2>9 DEF I2cRest
<1>6. CASE ~I2c!CanAddress
  <2>1. /\ pc' = "idle" /\ verdict' = "fail"
        /\ UNCHANGED <<i2c_State, AF, STOPI, i2c_NDTR, DMAEN, TXDR, bus, left>>
    BY <1>6 DEF I2c!MasterDMA, I2c!Return
  <2>2. Happened({"hold"})
    BY <1>2, <1>6 DEF I2cAtRest, I2c!CanAddress, I2c!StreamReady, I2cUnused
  <2>3. I2cPhases'
    BY <1>1, <1>2, <2>1, <2>2 DEF I2cPhases, I2cAtRest, I2cQuiet, I2cUnused, I2cLeftArmed, I2cArmed
  <2>4. I2cProgress'
    BY <1>0, <1>1, <2>1 DEF I2cProgress
  <2>5. I2cTexts'
    BY <1>0, <1>1, <1>2, <2>1, <2>2 DEF I2cTexts, I2cReturning, I2cUnused
  <2> QED
    BY <2>3, <2>4, <2>5 DEF I2cRest
<1> QED
  BY <1>5, <1>6

(* Both sides are through: the slave has the whole message.                *)
LEMMA I2cSentOff ==
  I2cInv /\ I2c!WaitDone(I2c!hi2c1, I2c!hi2c2, "wait1", "receive1") => I2cRest'
<1> SUFFICES ASSUME I2cInv, I2c!WaitDone(I2c!hi2c1, I2c!hi2c2, "wait1", "receive1") PROVE I2cRest'
  OBVIOUS
<1> USE DEF I2c!testVars, I2c!flags, I2c!dma, I2c!handles, I2c!isr, I2c!wires, I2c!history,
            I2c!Ports, I2c!hi2c1, I2c!hi2c2
<1>0. I2cPhases /\ I2cProgress /\ I2cTexts /\ I2c!TypeOK
  BY DEF I2cInv
<1>1. /\ pc = "wait1" /\ pc' = "receive1" /\ i2c_tx_done[1] /\ i2c_rx_done[2] /\ ~i2c_TCIF[2]
      /\ UNCHANGED <<msg, verdict, i2c_tx_done, i2c_rx_done, i2c_buf, i2c_State, AF, STOPI, i2c_NDTR,
                     i2c_TCIF, DMAEN, TXDR, i2c_RDR, NACKF, STOPF, bus, left, damaged, faults, since>>
  BY DEF I2c!WaitDone, I2c!BothDone, I2c!Pending
<1>2. ~I2cRefused /\ I2cWriting
  BY <1>0, <1>1 DEF I2cPhases
<1>3. /\ I2cUnused /\ left = 0 /\ i2c_RDR[2] = NoByte
      /\ I2cMasterEnds("BUSY_TX", i2c_tx_done[1]) /\ I2cSlaveEnds("BUSY_RX", i2c_rx_done[2])
      /\ Len(I2cHeld(2)) = 0 /\ Len(TXDR[1]) \in Nat /\ TXDR[1] \in Seq(Bytes) /\ i2c_NDTR[1] \in Nat
      /\ Len(TXDR[1]) + i2c_NDTR[1] = left /\ i2c_NDTR[2] = left + Len(I2cHeld(2))
      /\ Len(i2c_buf[2]) + i2c_NDTR[2] = Len(msg) /\ Len(i2c_buf[2]) \in Nat
  BY <1>1, <1>2, I2cFacts DEF I2cWriting, I2cMasterUp
<1>4. i2c_NDTR[1] = 0 /\ TXDR[1] = << >> /\ i2c_NDTR[2] = 0 /\ Len(i2c_buf[2]) = Len(msg)
  BY <1>3
<1>5. I2cAtRest(1) /\ I2cAtRest(2)
  BY <1>1, <1>2, <1>3, <1>4 DEF I2cAtRest, I2cQuiet, I2cMasterEnds, I2cSlaveEnds, I2cRefused, I2cWriting
<1>6. I2cPhases'
  BY <1>1, <1>3, <1>5 DEF I2cPhases, I2cAtRest, I2cQuiet, I2cUnused
<1>7. I2cProgress'
  BY <1>0, <1>1, <1>4 DEF I2cProgress
<1>8. /\ \A k \in 1..Len(msg) : I2cToSlave(k) = i2c_buf[2][k]
      /\ \A k \in 1..Len(msg) : I2cToMaster(k)' = i2c_buf[2][k]
  <2>1. Len(i2c_buf'[1]) = 0 /\ Len(I2cHeld(1)') = 0 /\ Len(I2cSent(2)') = 0
    BY <1>0, <1>1, <1>5 DEF I2cHeld, I2cSent, I2cAtRest, I2cQuiet, I2cProgress
  <2> QED
    BY <1>1, <1>4, <2>1 DEF I2cToSlave, I2cToMaster, OnTheWay
<1>9. I2cTexts'
  BY <1>0, <1>1, <1>2, <1>8 DEF I2cTexts, I2cReturning, OwnFault, Happened, Told
<1> QED
  BY <1>6, <1>7, <1>9 DEF I2cRest

(* The master asks for the message before the slave is armed to send it.   *)
LEMMA I2cAsk == I2cInv /\ I2c!MasterDMA("BUSY_RX", << >>, "receive1", "transmit2") => I2cRest'
<1> SUFFICES ASSUME I2cInv, I2c!MasterDMA("BUSY_RX", << >>, "receive1", "transmit2") PROVE I2cRest'
  OBVIOUS
<1> USE DEF I2c!testVars, I2c!flags, I2c!dma, I2c!handles, I2c!isr, I2c!wires, I2c!history,
            I2c!Ports, I2c!hi2c1, I2c!hi2c2
<1>0. I2cPhases /\ I2cProgress /\ I2cTexts /\ I2c!TypeOK
  BY DEF I2cInv
<1>1. /\ pc = "receive1"
      /\ UNCHANGED <<msg, i2c_tx_done, i2c_rx_done, i2c_buf, i2c_TCIF, i2c_RDR, NACKF, STOPF,
                     damaged, faults, since>>
  BY DEF I2c!MasterDMA
<1>2. /\ I2cUnused /\ I2cAtRest(1) /\ I2cAtRest(2)
      /\ (bus = "held" => Happened({"hold"})) /\ (Happened({"hold"})' <=> Happened({"hold"}))
      /\ (OwnFault' <=> OwnFault)
  BY <1>0, <1>1 DEF I2cPhases, I2cTexts, Happened, OwnFault
<1> DEFINE n == Len(msg)
<1>3. /\ msg # << >> /\ msg \in Seq(Bytes) /\ i2c_buf[1] = << >> /\ ~i2c_rx_done[1]
      /\ n \in Nat /\ n > 0 /\ Len(msg') = n /\ ~(n = 0)
  BY <1>0, <1>1 DEF I2cProgress
<1>4. CASE I2c!CanAddress
  <2>0. n - Len(<< >>) = n /\ n > Len(<< >>) /\ n # Len(<< >>)
    BY <1>3
  <2>1. /\ pc' = "transmit2" /\ verdict' = verdict /\ ~AF' /\ bus' = "start" /\ left' = n
        /\ i2c_State' = [i2c_State EXCEPT ![1] = "BUSY_RX"]
        /\ TXDR' = [TXDR EXCEPT ![1] = << >>]
        /\ i2c_NDTR' = [i2c_NDTR EXCEPT ![1] = n]
        /\ DMAEN' = [DMAEN EXCEPT ![1] = TRUE]
        /\ ~STOPI'
    BY <1>4, <2>0 DEF I2c!MasterDMA
  <2> HIDE DEF n
  <2>2. /\ i2c_State'[1] = "BUSY_RX" /\ TXDR'[1] = << >> /\ i2c_NDTR'[1] = n /\ DMAEN'[1]
        /\ i2c_State'[2] = i2c_State[2] /\ TXDR'[2] = TXDR[2] /\ i2c_NDTR'[2] = i2c_NDTR[2]
        /\ DMAEN'[2] = DMAEN[2]
    BY <1>0, <2>1 DEF I2c!TypeOK
  <2>3. ~I2cRefused' /\ I2cAtRest(2)'
    BY <1>1, <1>2, <2>1, <2>2 DEF I2cRefused, I2cAtRest, I2cQuiet
  <2>4. I2cReading'
    <3>1. I2cMasterUp("BUSY_RX", i2c_rx_done[1])'
      BY <1>1, <1>2, <1>3, <2>1, <2>2 DEF I2cMasterUp, I2cMasterDma, I2cAtRest, I2cQuiet
    <3>2. Len(I2cHeld(1)') = 0 /\ Len(i2c_buf'[1]) = 0 /\ i2c_RDR'[2] = NoByte
      BY <1>1, <1>2, <1>3 DEF I2cHeld, I2cAtRest, I2cQuiet
    <3>3. n + 0 = n /\ 0 + n = n
      BY <1>3
    <3>4. Len(i2c_buf'[1]) + i2c_NDTR'[1] = Len(msg') /\ i2c_NDTR'[1] = left' + Len(I2cHeld(1)')
      BY <1>3, <2>1, <2>2, <3>2, <3>3
    <3> QED
      BY <2>1, <2>2, <3>1, <3>2, <3>4 DEF I2cReading, I2cUnused
  <2>5. I2cPhases'
    BY <1>3, <2>1, <2>3, <2>4 DEF I2cPhases
  <2>6. I2cProgress'
    BY <1>0, <1>1, <1>3, <2>1 DEF I2cProgress
  <2>7. \A k \in 1..Len(msg) : I2cToMaster(k)' = I2cToMaster(k)
    <3>1. I2cSent(2)' = I2cSent(2) /\ I2cHeld(1)' = I2cHeld(1)
      BY <1>1, <1>2, <2>2 DEF I2cSent, I2cHeld, I2cAtRest, I2cQuiet
    <3> QED
      BY <1>1, <3>1 DEF I2cToMaster
  <2>8. I2cTexts'
    BY <1>0, <1>1, <1>2, <2>1, <2>7 DEF I2cTexts, I2cReturning, Told
  <2> QED
    BY <2>5, <2>6, <2>8 DEF I2cRest
<1>5. CASE ~I2c!CanAddress
  <2>1. /\ pc' = "idle" /\ verdict' = "fail"
        /\ UNCHANGED <<i2c_State, AF, STOPI, i2c_NDTR, DMAEN, TXDR, bus, left>>
    BY <1>5 DEF I2c!MasterDMA, I2c!Return
  <2>2. Happened({"hold"})
    BY <1>2, <1>5 DEF I2cAtRest, I2c!CanAddress, I2c!StreamReady, I2cUnused
  <2>3. I2cPhases'
    BY <1>1, <1>2, <2>1, <2>2 DEF I2cPhases, I2cAtRest, I2cQuiet, I2cUnused
  <2>4. I2cProgress'
    BY <1>0, <1>1, <2>1 DEF I2cProgress
  <2>5. I2cTexts'
    BY <1>0, <1>1, <1>2, <2>1, <2>2 DEF I2cTexts, I2cReturning, I2cUnused
  <2> QED
    BY <2>3, <2>4, <2>5 DEF I2cRest
<1> QED
  BY <1>4, <1>5

(* The slave is armed to answer: it is always ready for that.              *)
LEMMA I2cAnswer == I2cInv /\ I2c!SlaveDMA("BUSY_TX", "transmit2", "txdmaen") => I2cRest'
<1> SUFFICES ASSUME I2cInv, I2c!SlaveDMA("BUSY_TX", "transmit2", "txdmaen") PROVE I2cRest'
  OBVIOUS
<1> USE DEF I2c!testVars, I2c!flags, I2c!dma, I2c!handles, I2c!isr, I2c!wires, I2c!history,
            I2c!Ports, I2c!hi2c1, I2c!hi2c2
<1>0. I2cPhases /\ I2cProgress /\ I2cTexts /\ I2c!TypeOK
  BY DEF I2cInv
<1>1. /\ pc = "transmit2"
      /\ UNCHANGED <<msg, i2c_tx_done, i2c_rx_done, i2c_buf, AF, STOPI, i2c_TCIF, DMAEN, TXDR, i2c_RDR,
                     NACKF, STOPF, bus, left, damaged, faults, since>>
  BY DEF I2c!SlaveDMA
<1>2. I2cAtRest(2) /\ msg # << >>
  BY <1>0, <1>1 DEF I2cPhases, I2cProgress
<1>3. /\ pc' = "txdmaen" /\ verdict' = verdict
      /\ i2c_State' = [i2c_State EXCEPT ![2] = "BUSY_TX"]
      /\ i2c_NDTR' = [i2c_NDTR EXCEPT ![2] = Len(msg)]
  BY <1>2 DEF I2c!SlaveDMA, I2c!CanArm, I2c!StreamReady, I2cAtRest
<1>4. /\ i2c_State'[2] = "BUSY_TX" /\ i2c_NDTR'[2] = Len(msg)
      /\ i2c_State'[1] = i2c_State[1] /\ i2c_NDTR'[1] = i2c_NDTR[1]
  BY <1>0, <1>3 DEF I2c!TypeOK
<1>5. I2cArmed("BUSY_TX")' /\ ~DMAEN'[2]
  BY <1>1, <1>2, <1>4 DEF I2cArmed, I2cAtRest, I2cQuiet
<1>6. (I2cRefused' <=> I2cRefused) /\ (I2cReading => I2cReading')
  BY <1>1, <1>4 DEF I2cRefused, I2cReading, I2cUnused, I2cHeld, I2cMasterEnds, I2cMasterUp, I2cMasterDma
<1>7. I2cPhases'
  BY <1>0, <1>1, <1>3, <1>4, <1>5, <1>6 DEF I2cPhases, I2cUnused
<1>8. I2cProgress'
  BY <1>0, <1>1, <1>3 DEF I2cProgress
<1>9. I2cTexts'
  <2>1. \A k \in 1..Len(msg) : I2cToMaster(k)' = I2cToMaster(k)
    BY <1>1 DEF I2cToMaster, I2cSent, I2cHeld
  <2> QED
    BY <1>0, <1>1, <1>3, <1>6, <2>1 DEF I2cTexts, I2cReturning, Told, Happened, OwnFault
<1> QED
  BY <1>7, <1>8, <1>9 DEF I2cRest

LEMMA I2cAnswers == I2cInv /\ I2c!EnableDMA("txdmaen", "wait2") => I2cRest'
<1> SUFFICES ASSUME I2cInv, I2c!EnableDMA("txdmaen", "wait2") PROVE I2cRest'
  OBVIOUS
<1> USE DEF I2c!testVars, I2c!flags, I2c!dma, I2c!handles, I2c!isr, I2c!wires, I2c!history,
            I2c!Ports, I2c!hi2c1, I2c!hi2c2
<1>0. I2cPhases /\ I2cProgress /\ I2cTexts /\ I2c!TypeOK
  BY DEF I2cInv
<1>1. /\ pc = "txdmaen" /\ pc' = "wait2" /\ DMAEN' = [DMAEN EXCEPT ![2] = TRUE]
      /\ UNCHANGED <<msg, verdict, i2c_tx_done, i2c_rx_done, i2c_buf, i2c_State, AF, STOPI, i2c_NDTR,
                     i2c_TCIF, TXDR, i2c_RDR, NACKF, STOPF, bus, left, damaged, faults, since>>
  BY DEF I2c!EnableDMA
<1>2. DMAEN'[2] /\ DMAEN'[1] = DMAEN[1]
  BY <1>0, <1>1 DEF I2c!TypeOK
<1>3. (I2cRefused' <=> I2cRefused) /\ (I2cReading => I2cReading')
  BY <1>1, <1>2 DEF I2cRefused, I2cReading, I2cUnused, I2cHeld, I2cMasterEnds, I2cMasterUp, I2cMasterDma
<1>4. ~I2cRefused => I2cAnswering'
  <2> SUFFICES ASSUME ~I2cRefused PROVE I2cAnswering'
    OBVIOUS
  <2>1. /\ bus \in {"start", "addressed", "data"} /\ left = Len(msg) /\ Len(msg) \in Nat
        /\ i2c_State[2] = "BUSY_TX" /\ i2c_NDTR[2] = Len(msg) /\ ~i2c_TCIF[2] /\ ~STOPF[2]
        /\ TXDR[2] = << >> /\ ~i2c_tx_done[2]
    BY <1>0, <1>1, I2cFacts DEF I2cPhases, I2cArmed, I2cQuiet, I2cProgress
  <2>2. Len(TXDR[2]) + i2c_NDTR[2] = left
    BY <2>1
  <2> QED
    BY <1>1, <1>2, <2>1, <2>2 DEF I2cAnswering, I2cSlaveUp, I2cUnused
<1>5. I2cPhases'
  BY <1>0, <1>1, <1>3, <1>4 DEF I2cPhases, I2cUnused
<1>6. I2cProgress'
  BY <1>0, <1>1 DEF I2cProgress
<1>7. I2cTexts'
  <2>1. \A k \in 1..Len(msg) : I2cToMaster(k)' = I2cToMaster(k)
    BY <1>1 DEF I2cToMaster, I2cSent, I2cHeld
  <2> QED
    BY <1>0, <1>1, <1>3, <2>1 DEF I2cTexts, I2cReturning, Told, Happened, OwnFault
<1> QED
  BY <1>5, <1>6, <1>7 DEF I2cRest

(* Both sides are through: the master has the whole message.               *)
LEMMA I2cReturned ==
  I2cInv /\ I2c!WaitDone(I2c!hi2c2, I2c!hi2c1, "wait2", "crc") => I2cRest'
<1> SUFFICES ASSUME I2cInv, I2c!WaitDone(I2c!hi2c2, I2c!hi2c1, "wait2", "crc") PROVE I2cRest'
  OBVIOUS
<1> USE DEF I2c!testVars, I2c!flags, I2c!dma, I2c!handles, I2c!isr, I2c!wires, I2c!history,
            I2c!Ports, I2c!hi2c1, I2c!hi2c2
<1>0. I2cPhases /\ I2cProgress /\ I2cTexts /\ I2c!TypeOK
  BY DEF I2cInv
<1>1. /\ pc = "wait2" /\ pc' = "crc" /\ i2c_tx_done[2] /\ i2c_rx_done[1] /\ ~i2c_TCIF[2]
      /\ UNCHANGED <<msg, verdict, i2c_tx_done, i2c_rx_done, i2c_buf, i2c_State, AF, STOPI, i2c_NDTR,
                     i2c_TCIF, DMAEN, TXDR, i2c_RDR, NACKF, STOPF, bus, left, damaged, faults, since>>
  BY DEF I2c!WaitDone, I2c!BothDone, I2c!Pending
<1>2. ~I2cRefused /\ I2cReading /\ I2cAnswering
  BY <1>0, <1>1 DEF I2cPhases
<1>3. /\ I2cUnused /\ left = 0 /\ i2c_RDR[1] = NoByte
      /\ I2cMasterEnds("BUSY_RX", i2c_rx_done[1]) /\ I2cSlaveEnds("BUSY_TX", i2c_tx_done[2])
      /\ Len(I2cHeld(1)) = 0 /\ i2c_NDTR[1] = left + Len(I2cHeld(1))
      /\ Len(i2c_buf[1]) + i2c_NDTR[1] = Len(msg) /\ Len(i2c_buf[1]) \in Nat
  BY <1>1, <1>2, I2cFacts DEF I2cReading, I2cAnswering, I2cMasterUp
<1>4. i2c_NDTR[1] = 0 /\ Len(i2c_buf[1]) = Len(msg)
  BY <1>3
<1>5. I2cAtRest(1) /\ I2cAtRest(2)
  BY <1>1, <1>2, <1>3, <1>4 DEF I2cAtRest, I2cQuiet, I2cMasterEnds, I2cSlaveEnds, I2cRefused, I2cReading
<1>6. I2cPhases'
  BY <1>1, <1>3, <1>5 DEF I2cPhases, I2cAtRest, I2cQuiet, I2cUnused
<1>7. I2cProgress'
  BY <1>0, <1>1, <1>4 DEF I2cProgress
<1>8. I2cTexts'
  <2>1. I2cReturning
    BY <1>1, <1>2, <1>5 DEF I2cReturning, I2cGivenUp, I2cAtRest
  <2>2. \A k \in 1..Len(msg) : I2cToMaster(k)' = I2cToMaster(k)
    BY <1>1 DEF I2cToMaster, I2cSent, I2cHeld
  <2> QED
    BY <1>0, <1>1, <2>1, <2>2 DEF I2cTexts, Told, Happened, OwnFault
<1> QED
  BY <1>6, <1>7, <1>8 DEF I2cRest

(* The test returns, and says what it has got.                             *)
LEMMA I2cMatchCRC == I2cInv /\ I2c!MatchCRC => I2cRest'
<1> SUFFICES ASSUME I2cInv, I2c!MatchCRC PROVE I2cRest'
  OBVIOUS
<1> USE DEF I2c!testVars, I2c!flags, I2c!dma, I2c!handles, I2c!isr, I2c!wires, I2c!history,
            I2c!Ports, I2c!hi2c1, I2c!hi2c2
<1>0. I2cPhases /\ I2cProgress /\ I2cTexts /\ I2c!TypeOK
  BY DEF I2cInv
<1>1. /\ pc = "crc" /\ pc' = "idle" /\ verdict' \in I2c!CrcVerdicts(i2c_buf[1])
      /\ UNCHANGED <<msg, i2c_tx_done, i2c_rx_done, i2c_buf, i2c_State, AF, STOPI, i2c_NDTR,
                     i2c_TCIF, DMAEN, TXDR, i2c_RDR, NACKF, STOPF, bus, left, damaged, faults, since>>
  BY DEF I2c!MatchCRC, I2c!Return
<1>2. I2cUnused /\ I2cAtRest(1) /\ I2cAtRest(2)
  BY <1>0, <1>1 DEF I2cPhases
<1>3. Len(i2c_buf[1]) = Len(msg) /\ i2c_buf[1] \in Seq(Bytes) /\ msg \in Seq(Bytes)
  BY <1>0, <1>1, I2cFacts DEF I2cProgress
<1>4. I2cPhases'
  BY <1>1, <1>2 DEF I2cPhases, I2cAtRest, I2cQuiet, I2cUnused
<1>5. I2cProgress'
  BY <1>0, <1>1 DEF I2cProgress
<1>6. verdict' = IF i2c_buf[1] = msg THEN "pass" ELSE "fail"
  <2>1. ~(Len(i2c_buf[1]) < Len(msg))
    BY <1>3
  <2> QED
    BY <1>1, <2>1 DEF I2c!CrcVerdicts
<1>7. i2c_buf[1] = msg <=> \A k \in 1..Len(msg) : I2cToMaster(k) = msg[k]
  <2>1. \A k \in 1..Len(msg) : I2cToMaster(k) = i2c_buf[1][k]
    BY <1>3 DEF I2cToMaster, OnTheWay
  <2>2. i2c_buf[1] = msg <=> \A k \in 1..Len(msg) : i2c_buf[1][k] = msg[k]
    BY <1>3
  <2> QED
    BY <2>1, <2>2
<1>8. Told(i2c_buf[1] = msg)
  BY <1>0, <1>1, <1>7 DEF I2cTexts, I2cReturning, Told
<1>9. I2cTexts'
  <2>1. damaged \in 0..2
    BY I2cFacts
  <2>2. /\ damaged' = damaged /\ (OwnFault' <=> OwnFault) /\ (damaged > 0 => OwnFault)
        /\ (bus' = "held" => Happened({"hold"})') /\ I2cUnused'
    BY <1>0, <1>1, <1>2 DEF I2cTexts, OwnFault, Happened, I2cUnused
  <2> QED
    BY <1>1, <1>6, <1>8, <2>1, <2>2 DEF I2cTexts, I2cReturning, I2cUnused, Told
<1> QED
  BY <1>4, <1>5, <1>9 DEF I2cRest

-----------------------------------------------------------------------------
(* The handlers, the DMA and the bus.                                      *)

I2cAtWork == pc \in {"wait1", "transmit2", "txdmaen", "wait2"}

(* Who may send, and who may receive.                                      *)
LEMMA I2cWhere ==
  ASSUME I2cInv
  PROVE  /\ pc = "wait1" => i2c_State[1] \in {"BUSY_TX", "READY"} /\ i2c_State[2] \in {"BUSY_RX", "READY"}
         /\ pc \in {"transmit2", "txdmaen", "wait2"} =>
              i2c_State[1] \in {"BUSY_RX", "READY"} /\ i2c_State[2] \in {"BUSY_TX", "READY"}
         /\ pc \in {"transmit2", "txdmaen"} => (~STOPF[2] /\ ~NACKF[2]) \/ (I2cRefused /\ ~STOPF[2])
         /\ pc = "transmit2" => I2cAtRest(2)
<1> USE DEF I2c!hi2c1, I2c!hi2c2
<1>0. I2cPhases
  BY DEF I2cInv
<1>1. CASE I2cRefused
  BY <1>0, <1>1 DEF I2cPhases, I2cAtRest, I2cQuiet
<1>2. CASE ~I2cRefused
  BY <1>0, <1>2 DEF I2cPhases, I2cAtRest, I2cQuiet, I2cArmed, I2cWriting, I2cReading, I2cAnswering,
                    I2cMasterUp, I2cMasterEnds, I2cSlaveUp, I2cSlaveEnds
<1> QED
  BY <1>1, <1>2

(* Outside the transfers the bus may become busy and free again, and       *)
(* nothing else happens by itself.                                         *)
LEMMA I2cNothingElse ==
  ASSUME I2cInv, ~I2cAtWork, I2c!IrqStep \/ I2c!DmaStep \/ I2c!WireStep
  PROVE  I2c!Hold \/ I2c!LetGo
<1> USE DEF I2c!Ports, I2c!hi2c1, I2c!hi2c2
<1>0. pc \in {"idle", "start", "rxdmaen", "transmit1", "receive1", "crc"}
  BY DEF I2cInv, I2c!TypeOK, I2c!Labels, I2cAtWork
<1>1. /\ I2cUnused /\ I2cAtRest(1)
      /\ ~i2c_TCIF[2] /\ I2cQuiet(2) /\ i2c_State[2] # "BUSY_TX"
  BY <1>0 DEF I2cInv, I2cPhases, I2cAtRest, I2cLeftArmed, I2cArmed
<1>2. ASSUME NEW p \in I2c!Ports
      PROVE  ~I2c!DmaCplt(p) /\ ~I2c!TxTransfer(p) /\ ~I2c!RxTransfer(p)
  BY <1>1, NoByteIsNone DEF I2cAtRest, I2cQuiet, I2c!DmaCplt, I2c!TxTransfer, I2c!RxTransfer,
                            I2c!TxRequest, I2c!RxRequest
<1>3. ~I2c!AddrCplt /\ ~I2c!MasterNack /\ ~I2c!SlaveNack /\ ~I2c!MasterCplt /\ ~I2c!SlaveCplt
  BY <1>1 DEF I2cAtRest, I2cQuiet, I2cUnused, I2c!AddrCplt, I2c!AddrPending, I2c!MasterNack,
              I2c!SlaveNack, I2c!MasterCplt, I2c!SlaveCplt, I2c!Cplt, I2c!NackPending, I2c!StopPending
<1>4. /\ ~I2c!Address /\ ~I2c!AddressLost /\ ~I2c!Transfer /\ ~I2c!TransferFlipped
      /\ ~I2c!TransferRefused /\ ~I2c!IdleTransfer /\ ~I2c!Stop
  BY <1>1 DEF I2cUnused, I2c!Address, I2c!AddressLost, I2c!Transfer, I2c!TransferFlipped, I2c!Byte,
              I2c!TransferRefused, I2c!IdleTransfer, I2c!Stop
<1> QED
  BY <1>2, <1>3, <1>4 DEF I2c!IrqStep, I2c!DmaStep, I2c!WireStep

(* What a fault leaves in the history.                                     *)
LEMMA I2cFault ==
  ASSUME I2cInv, NEW kind, I2c!Fault(kind)
  PROVE  OwnFault' /\ (Happened({"hold"})' <=> Happened({"hold"}) \/ kind = "hold")
<1>1. faults' = Append(faults, kind) /\ since' = since /\ faults \in Seq(LineFaults) /\ kind \in LineFaults
      /\ since \in 0..Len(faults)
  BY DEF I2c!Fault, I2cInv, I2c!TypeOK, I2c!TestTypeOK
<1>2. /\ Len(faults) \in Nat /\ Len(faults') = Len(faults) + 1
      /\ DOMAIN faults = 1..Len(faults) /\ DOMAIN faults' = 1..Len(faults) + 1
      /\ \A i \in 1..Len(faults) : faults'[i] = faults[i]
      /\ faults'[Len(faults) + 1] = kind
  BY <1>1
<1>3. OwnFault'
  BY <1>1, <1>2 DEF OwnFault
<1>4. Happened({"hold"})' <=> Happened({"hold"}) \/ kind = "hold"
  <2>1. \A i \in DOMAIN faults' : i \in DOMAIN faults \/ i = Len(faults) + 1
    BY <1>2
  <2>2. DOMAIN faults \subseteq DOMAIN faults' /\ Len(faults) + 1 \in DOMAIN faults'
    BY <1>2
  <2>3. Happened({"hold"}) => Happened({"hold"})'
    BY <1>2, <2>2 DEF Happened
  <2>4. kind = "hold" => Happened({"hold"})'
    BY <1>2, <2>2 DEF Happened
  <2>5. Happened({"hold"})' => Happened({"hold"}) \/ kind = "hold"
    BY <1>2, <2>1 DEF Happened
  <2> QED
    BY <2>3, <2>4, <2>5
<1> QED
  BY <1>3, <1>4

(* What becomes of the bytes has its reason.                               *)
LEMMA I2cBlame ==
  ASSUME I2cInv, I2c!IrqStep \/ I2c!DmaStep \/ I2c!WireStep
  PROVE  /\ UNCHANGED <<pc, msg, verdict>>
         /\ damaged' > 0 \/ bus' = "released" => OwnFault'
         /\ bus' = "held" => Happened({"hold"})'
         /\ OwnFault => OwnFault'
         /\ Happened({"hold"}) => Happened({"hold"})'
<1> USE DEF I2c!testVars, I2c!flags, I2c!dma, I2c!handles, I2c!isr, I2c!wires, I2c!history
<1>0. damaged > 0 \/ bus = "released" => OwnFault
  BY DEF I2cInv, I2cTexts
<1>00. bus = "held" => Happened({"hold"})
  BY DEF I2cInv, I2cTexts
<1>1. CASE I2c!IrqStep \/ I2c!DmaStep
  <2>1. UNCHANGED <<pc, msg, verdict, damaged, faults, since>> /\ bus' \in {bus, "data"}
    BY <1>1 DEF I2c!IrqStep, I2c!DmaStep, I2c!DmaCplt, I2c!AddrCplt, I2c!MasterNack, I2c!SlaveNack,
                I2c!MasterCplt, I2c!SlaveCplt, I2c!TxTransfer, I2c!RxTransfer
  <2> QED
    BY <1>0, <1>00, <2>1 DEF OwnFault, Happened
<1>2. CASE I2c!WireStep
  <2>1. ASSUME NEW kind, I2c!Fault(kind), bus' = "held" => kind = "hold", UNCHANGED <<pc, msg, verdict>>
        PROVE  /\ UNCHANGED <<pc, msg, verdict>>
               /\ damaged' > 0 \/ bus' = "released" => OwnFault'
               /\ bus' = "held" => Happened({"hold"})'
               /\ OwnFault => OwnFault'
               /\ Happened({"hold"}) => Happened({"hold"})'
    BY <1>0, <1>00, <2>1, I2cFault
  <2>2. ASSUME UNCHANGED <<faults, since, pc, msg, verdict>>, bus' \in {bus, "addressed", "free"},
               damaged' = damaged \/ bus = "released"
        PROVE  /\ UNCHANGED <<pc, msg, verdict>>
               /\ damaged' > 0 \/ bus' = "released" => OwnFault'
               /\ bus' = "held" => Happened({"hold"})'
               /\ OwnFault => OwnFault'
               /\ Happened({"hold"}) => Happened({"hold"})'
    BY <1>0, <1>00, <2>2 DEF OwnFault, Happened
  <2>3. CASE I2c!Address \/ I2c!Transfer \/ I2c!IdleTransfer \/ I2c!Stop \/ I2c!LetGo
    <3>1. /\ UNCHANGED <<faults, since, pc, msg, verdict>> /\ bus' \in {bus, "addressed", "free"}
          /\ damaged' = damaged \/ bus = "released"
      BY <2>3 DEF I2c!Address, I2c!Transfer, I2c!IdleTransfer, I2c!Stop, I2c!LetGo, I2c!Byte, I2c!Acknowledged
    <3> QED
      BY <2>2, <3>1
  <2>4. CASE I2c!AddressLost
    BY <2>1, <2>4 DEF I2c!AddressLost
  <2>5. CASE I2c!TransferFlipped
    <3>1. bus' # "held"
      BY <2>5 DEF I2c!TransferFlipped, I2c!Byte, I2c!Acknowledged
    <3> QED
      BY <2>1, <2>5, <3>1 DEF I2c!TransferFlipped, I2c!Byte
  <2>6. CASE I2c!TransferRefused
    <3>1. bus' # "held"
      BY <2>6 DEF I2c!TransferRefused, I2c!Byte
    <3> QED
      BY <2>1, <2>6, <3>1 DEF I2c!TransferRefused, I2c!Byte
  <2>7. CASE I2c!Hold
    BY <2>1, <2>7 DEF I2c!Hold
  <2> QED
    BY <1>2, <2>3, <2>4, <2>5, <2>6, <2>7 DEF I2c!WireStep
<1> QED
  BY <1>1, <1>2

(* No test before, and no step in the background, brings forward what the  *)
(* test has by now.                                                        *)
LEMMA I2cProgressKept ==
  ASSUME I2cInv, I2cAtWork, I2c!IrqStep \/ I2c!DmaStep \/ I2c!WireStep
  PROVE  I2cProgress'
<1> USE DEF I2c!testVars, I2c!flags, I2c!dma, I2c!handles, I2c!isr, I2c!wires, I2c!history,
            I2c!Ports, I2c!hi2c1, I2c!hi2c2
<1>0. /\ I2cProgress /\ pc' = pc /\ msg' = msg
      /\ i2c_buf \in [I2c!Ports -> Seq(Bytes)]
      /\ i2c_tx_done \in [I2c!Ports -> BOOLEAN] /\ i2c_rx_done \in [I2c!Ports -> BOOLEAN]
  BY I2cBlame DEF I2cInv, I2c!TypeOK
<1>1. /\ pc = "wait1" => i2c_buf'[1] = i2c_buf[1] /\ ~i2c_rx_done'[1] /\ ~i2c_tx_done'[2]
      /\ pc \in {"transmit2", "txdmaen"} => ~i2c_tx_done'[2]
      /\ pc \in {"transmit2", "txdmaen", "wait2"} => i2c_buf'[2] = i2c_buf[2]
  <2>0. /\ pc = "wait1" => ~i2c_rx_done[1] /\ ~i2c_tx_done[2]
        /\ pc \in {"transmit2", "txdmaen"} => ~i2c_tx_done[2]
    BY <1>0 DEF I2cProgress
  <2>1. CASE UNCHANGED <<i2c_buf, i2c_tx_done, i2c_rx_done>>
    BY <2>0, <2>1
  <2>2. ASSUME NEW p \in I2c!Ports, I2c!RxTransfer(p) PROVE <1>1!:
    <3>1. i2c_buf' = [i2c_buf EXCEPT ![p] = Append(@, i2c_RDR[p])] /\ i2c_State[p] = "BUSY_RX"
          /\ UNCHANGED <<i2c_tx_done, i2c_rx_done>>
      BY <2>2 DEF I2c!RxTransfer, I2c!RxRequest
    <3>2. /\ pc = "wait1" => p = 2
          /\ pc \in {"transmit2", "txdmaen", "wait2"} => p = 1
      BY <3>1, I2cWhere
    <3> QED
      BY <1>0, <2>0, <3>1, <3>2
  <2>3. ASSUME NEW p \in I2c!Ports, NEW failed, I2c!Cplt(p, failed), UNCHANGED i2c_buf PROVE <1>1!:
    <3>1. CASE failed
      BY <2>0, <2>3, <3>1 DEF I2c!Cplt
    <3>2. CASE ~failed
      <4>1. /\ i2c_tx_done' = [i2c_tx_done EXCEPT ![p] = i2c_tx_done[p] \/ i2c_State[p] = "BUSY_TX"]
            /\ i2c_rx_done' = [i2c_rx_done EXCEPT ![p] = i2c_rx_done[p] \/ i2c_State[p] = "BUSY_RX"]
            /\ STOPF[p]
        BY <2>3, <3>2, Zenon DEF I2c!Cplt, I2c!CpltCallback, I2c!StopPending
      <4>2. CASE pc = "wait1"
        <5>1. i2c_State[p] = "BUSY_TX" => p # 2
          BY <4>2, I2cWhere
        <5>2. i2c_State[p] = "BUSY_RX" => p # 1
          BY <4>2, I2cWhere
        <5> QED
          BY <1>0, <2>0, <2>3, <4>1, <4>2, <5>1, <5>2
      <4>3. CASE pc \in {"transmit2", "txdmaen"}
        <5>1. p # 2
          BY <4>1, <4>3, I2cWhere
        <5> QED
          BY <1>0, <2>0, <2>3, <4>1, <4>3, <5>1
      <4> QED
        BY <2>3, <4>2, <4>3 DEF I2cAtWork
    <3> QED
      BY <3>1, <3>2
  <2>4. CASE I2c!MasterCplt \/ I2c!SlaveCplt
    BY <2>3, <2>4 DEF I2c!MasterCplt, I2c!SlaveCplt
  <2>5. CASE (\E p \in I2c!Ports : I2c!DmaCplt(p) \/ I2c!TxTransfer(p)) \/ I2c!AddrCplt
             \/ I2c!MasterNack \/ I2c!SlaveNack \/ I2c!WireStep
    <3>1. UNCHANGED <<i2c_buf, i2c_tx_done, i2c_rx_done>>
      BY <2>5 DEF I2c!DmaCplt, I2c!TxTransfer, I2c!AddrCplt, I2c!MasterNack, I2c!SlaveNack,
                  I2c!WireStep, I2c!Address, I2c!AddressLost, I2c!Transfer, I2c!TransferFlipped,
                  I2c!TransferRefused, I2c!IdleTransfer, I2c!Stop, I2c!Hold, I2c!LetGo, I2c!Byte
    <3> QED
      BY <2>1, <3>1
  <2> QED
    BY <2>2, <2>4, <2>5 DEF I2c!IrqStep, I2c!DmaStep
<1> QED
  BY <1>0, <1>1 DEF I2cProgress, I2cAtWork

(* The verdict is about what gets through.                                 *)
LEMMA I2cTextsKept ==
  ASSUME I2cInv, I2cAtWork, I2c!IrqStep \/ I2c!DmaStep \/ I2c!WireStep,
         pc = "wait1" /\ ~I2cRefused' => Told(\A k \in 1..Len(msg) : I2cToSlave(k) = msg[k])',
         I2cReturning' => Told(\A k \in 1..Len(msg) : I2cToMaster(k) = msg[k])'
  PROVE  I2cTexts'
<1>1. verdict = "pass" => pc = "idle"
  BY DEF I2cInv, I2cTexts
<1>2. verdict = "fail" => pc = "idle"
  BY DEF I2cInv, I2cTexts
<1> QED
  BY <1>1, <1>2, I2cBlame DEF I2cTexts, I2cAtWork

(* Nobody minds whether a bus that is not used is busy.                    *)
LEMMA I2cIdleBus == I2cInv /\ (I2c!Hold \/ I2c!LetGo) => I2cRest'
<1> SUFFICES ASSUME I2cInv, I2c!Hold \/ I2c!LetGo PROVE I2cRest'
  OBVIOUS
<1> USE DEF I2c!testVars, I2c!flags, I2c!dma, I2c!handles, I2c!isr, I2c!wires, I2c!history
<1>0. I2cPhases /\ I2cProgress /\ I2cTexts
  BY DEF I2cInv
<1>1. /\ bus \in {"free", "held"} /\ bus' \in {"free", "held"}
      /\ UNCHANGED <<pc, msg, verdict, i2c_tx_done, i2c_rx_done, i2c_buf, i2c_State, AF, STOPI, i2c_NDTR,
                     i2c_TCIF, DMAEN, TXDR, i2c_RDR, NACKF, STOPF, left, damaged>>
  BY DEF I2c!Hold, I2c!LetGo
<1>2. /\ damaged' > 0 \/ bus' = "released" => OwnFault'
      /\ bus' = "held" => Happened({"hold"})'
      /\ OwnFault => OwnFault'
      /\ Happened({"hold"}) => Happened({"hold"})'
  BY I2cBlame DEF I2c!WireStep
<1>3. /\ I2cUnused /\ I2cUnused'
      /\ (I2cWriting => I2cWriting') /\ (I2cReading => I2cReading') /\ (I2cAnswering => I2cAnswering')
      /\ (I2cRefused' <=> I2cRefused) /\ (I2cGivenUp' <=> I2cGivenUp)
      /\ I2cAtRest(I2c!hi2c1)' = I2cAtRest(I2c!hi2c1) /\ I2cAtRest(I2c!hi2c2)' = I2cAtRest(I2c!hi2c2)
  <2>1. I2cUnused /\ I2cUnused' /\ (I2cRefused' <=> I2cRefused) /\ (I2cGivenUp' <=> I2cGivenUp)
    BY <1>1 DEF I2cUnused, I2cRefused, I2cGivenUp
  <2>2. I2cWriting => I2cWriting'
    BY <1>1, <2>1 DEF I2cWriting, I2cMasterEnds, I2cSlaveEnds, I2cMasterDma, I2cHeld
  <2>3. I2cReading => I2cReading'
    BY <1>1, <2>1 DEF I2cReading, I2cMasterEnds, I2cMasterDma, I2cHeld
  <2>4. I2cAnswering => I2cAnswering'
    BY <1>1, <2>1 DEF I2cAnswering, I2cSlaveEnds
  <2>5. I2cAtRest(I2c!hi2c1)' = I2cAtRest(I2c!hi2c1) /\ I2cAtRest(I2c!hi2c2)' = I2cAtRest(I2c!hi2c2)
    BY <1>1 DEF I2cAtRest, I2cQuiet
  <2> QED
    BY <2>1, <2>2, <2>3, <2>4, <2>5
<1>4. I2cPhases'
  BY <1>0, <1>1, <1>2, <1>3 DEF I2cPhases, I2cUnused, I2cLeftArmed, I2cArmed, I2cQuiet
<1>5. I2cProgress'
  BY <1>0, <1>1 DEF I2cProgress
<1>6. I2cTexts'
  <2>1. \A k \in 1..Len(msg) : I2cToSlave(k)' = I2cToSlave(k) /\ I2cToMaster(k)' = I2cToMaster(k)
    BY <1>1 DEF I2cToSlave, I2cToMaster, I2cSent, I2cHeld
  <2>2. I2cReturning' <=> I2cReturning
    BY <1>1, <1>3 DEF I2cReturning
  <2> QED
    BY <1>0, <1>1, <1>2, <1>3, <2>1, <2>2 DEF I2cTexts, Told
<1> QED
  BY <1>4, <1>5, <1>6 DEF I2cRest

-----------------------------------------------------------------------------
(* Once an acknowledge was missed the test waits for ever: the master does *)
(* not forget it before the next test, which never begins.                 *)
LEMMA I2cStaysRefused ==
  ASSUME I2cInv, I2cRefused, I2c!IrqStep \/ I2c!DmaStep \/ I2c!WireStep
  PROVE  I2cRefused'
<1> USE DEF I2c!testVars, I2c!flags, I2c!dma, I2c!handles, I2c!isr, I2c!wires, I2c!history,
            I2c!Ports, I2c!hi2c1, I2c!hi2c2
<1>0. NACKF \in [I2c!Ports -> BOOLEAN] /\ AF \in BOOLEAN
  BY DEF I2cInv, I2c!TypeOK
<1>1. CASE UNCHANGED <<NACKF, AF>>
  BY <1>1 DEF I2cRefused
<1>2. CASE I2c!MasterNack
  BY <1>2 DEF I2c!MasterNack, I2cRefused
<1>3. CASE I2c!SlaveNack
  BY <1>0, <1>3 DEF I2c!SlaveNack, I2cRefused
<1>4. CASE I2c!MasterCplt
  <2>1. ~NACKF[1] /\ AF' = AF
    BY <1>4 DEF I2c!MasterCplt, I2c!Cplt, I2c!StopPending
  <2> QED
    BY <2>1 DEF I2cRefused
<1>5. CASE I2c!SlaveCplt
  <2>1. NACKF' = [NACKF EXCEPT ![2] = FALSE] /\ AF' = AF
    BY <1>5 DEF I2c!SlaveCplt, I2c!Cplt
  <2> QED
    BY <1>0, <2>1 DEF I2cRefused
<1>6. CASE I2c!AddressLost \/ I2c!Transfer \/ I2c!TransferFlipped \/ I2c!TransferRefused
  <2>1. AF' = AF
    BY <1>6 DEF I2c!AddressLost, I2c!Transfer, I2c!TransferFlipped, I2c!TransferRefused, I2c!Byte
  <2>2. NACKF[1] => NACKF'[1]
    <3>1. CASE I2c!AddressLost
      BY <1>0, <3>1 DEF I2c!AddressLost
    <3>2. CASE I2c!Transfer \/ I2c!TransferFlipped
      BY <1>0, <3>2 DEF I2c!Transfer, I2c!TransferFlipped, I2c!Acknowledged
    <3>3. CASE I2c!TransferRefused
      BY <1>0, <3>3 DEF I2c!TransferRefused, I2c!Sender
    <3> QED
      BY <1>6, <3>1, <3>2, <3>3
  <2> QED
    BY <2>1, <2>2 DEF I2cRefused
<1>7. CASE (\E p \in I2c!Ports : I2c!DmaCplt(p) \/ I2c!TxTransfer(p) \/ I2c!RxTransfer(p))
           \/ I2c!AddrCplt \/ I2c!Address \/ I2c!IdleTransfer \/ I2c!Stop \/ I2c!Hold \/ I2c!LetGo
  BY <1>1, <1>7 DEF I2c!DmaCplt, I2c!TxTransfer, I2c!RxTransfer, I2c!AddrCplt, I2c!Address,
                    I2c!IdleTransfer, I2c!Stop, I2c!Hold, I2c!LetGo
<1> QED
  BY <1>2, <1>3, <1>4, <1>5, <1>6, <1>7 DEF I2c!IrqStep, I2c!DmaStep, I2c!WireStep

(* What is stored and what is still expected are the message.              *)
LEMMA I2cStores ==
  ASSUME I2cInv, NEW p \in I2c!Ports, I2c!RxTransfer(p)
  PROVE  /\ i2c_State[p] = "BUSY_RX" /\ DMAEN[p] /\ i2c_NDTR[p] > 0 /\ i2c_RDR[p] \in Bytes
         /\ i2c_buf'[p] = Append(i2c_buf[p], i2c_RDR[p]) /\ i2c_RDR'[p] = NoByte
         /\ i2c_NDTR'[p] = i2c_NDTR[p] - 1 /\ (i2c_TCIF'[p] <=> i2c_NDTR[p] = 1)
         /\ \A q \in I2c!Ports \ {p} : /\ i2c_buf'[q] = i2c_buf[q] /\ i2c_RDR'[q] = i2c_RDR[q]
                                       /\ i2c_NDTR'[q] = i2c_NDTR[q] /\ i2c_TCIF'[q] = i2c_TCIF[q]
         /\ UNCHANGED <<pc, msg, verdict, i2c_tx_done, i2c_rx_done, i2c_State, AF, STOPI, DMAEN, TXDR,
                        NACKF, STOPF, bus, left, damaged, faults, since>>
         /\ Len(i2c_buf[p]) + i2c_NDTR[p] = Len(msg) /\ Len(i2c_buf'[p]) + i2c_NDTR'[p] = Len(msg)
         /\ Len(i2c_buf'[p]) = Len(i2c_buf[p]) + 1
<1> USE DEF I2c!testVars, I2c!flags, I2c!dma, I2c!handles, I2c!isr, I2c!wires, I2c!history
<1>0. /\ i2c_buf \in [I2c!Ports -> Seq(Bytes)] /\ i2c_RDR \in [I2c!Ports -> Bytes \cup {NoByte}]
      /\ i2c_NDTR \in [I2c!Ports -> Nat] /\ i2c_TCIF \in [I2c!Ports -> BOOLEAN]
  BY NoByteIsNone DEF I2cInv, I2c!TypeOK
<1>1. /\ i2c_State[p] = "BUSY_RX" /\ DMAEN[p] /\ i2c_NDTR[p] > 0 /\ i2c_RDR[p] # NoByte
      /\ i2c_buf' = [i2c_buf EXCEPT ![p] = Append(@, i2c_RDR[p])]
      /\ i2c_RDR' = [i2c_RDR EXCEPT ![p] = NoByte]
      /\ i2c_NDTR' = [i2c_NDTR EXCEPT ![p] = @ - 1]
      /\ i2c_TCIF' = [i2c_TCIF EXCEPT ![p] = i2c_NDTR[p] = 1]
      /\ UNCHANGED <<pc, msg, verdict, i2c_tx_done, i2c_rx_done, i2c_State, AF, STOPI, DMAEN, TXDR,
                     NACKF, STOPF, bus, left, damaged, faults, since>>
  BY NoByteIsNone DEF I2c!RxTransfer, I2c!RxRequest, I2c!Counted
<1>2. /\ i2c_buf'[p] = Append(i2c_buf[p], i2c_RDR[p]) /\ i2c_RDR'[p] = NoByte
      /\ i2c_NDTR'[p] = i2c_NDTR[p] - 1 /\ i2c_RDR[p] \in Bytes
      /\ \A q \in I2c!Ports \ {p} : /\ i2c_buf'[q] = i2c_buf[q] /\ i2c_RDR'[q] = i2c_RDR[q]
                                    /\ i2c_NDTR'[q] = i2c_NDTR[q] /\ i2c_TCIF'[q] = i2c_TCIF[q]
  BY <1>0, <1>1
<1>3. i2c_TCIF'[p] <=> i2c_NDTR[p] = 1
  BY <1>0, <1>1
<1>4. Len(i2c_buf[p]) + i2c_NDTR[p] = Len(msg)
  BY I2cFilling DEF I2c!RxTransfer
<1>5. Len(i2c_buf'[p]) + i2c_NDTR'[p] = Len(msg) /\ Len(i2c_buf'[p]) = Len(i2c_buf[p]) + 1
  <2> DEFINE a == Len(i2c_buf[p])
             r == i2c_NDTR[p]
  <2>1. /\ Len(i2c_buf'[p]) = a + 1 /\ a \in Nat /\ r \in Nat /\ a + r = Len(msg) /\ i2c_NDTR'[p] = r - 1
    BY <1>0, <1>2, <1>4
  <2> HIDE DEF a, r
  <2> QED
    BY <2>1 DEF a
<1> QED
  BY <1>1, <1>2, <1>3, <1>4, <1>5

LEMMA I2cRefusedWriting ==
  ASSUME I2cInv, I2cRefused, pc = "wait1", I2c!IrqStep \/ I2c!DmaStep \/ I2c!WireStep
  PROVE  I2cPhases'
<1> USE DEF I2c!testVars, I2c!flags, I2c!dma, I2c!handles, I2c!isr, I2c!wires, I2c!history,
            I2c!Ports, I2c!hi2c1, I2c!hi2c2
<1>0. /\ I2cRefused' /\ pc' = "wait1" /\ msg' = msg
      /\ i2c_State[1] \in {"BUSY_TX", "READY"} /\ ~i2c_tx_done[1]
      /\ \/ i2c_State[2] = "READY"
         \/ i2c_State[2] = "BUSY_RX" /\ Len(i2c_buf[2]) + i2c_NDTR[2] = Len(msg)
      /\ I2c!TypeOK
  BY I2cBlame, I2cStaysRefused DEF I2cInv, I2cPhases
<1>1. /\ i2c_State'[1] \in {"BUSY_TX", "READY"} /\ ~i2c_tx_done'[1]
      /\ \/ i2c_State'[2] = "READY"
         \/ i2c_State'[2] = "BUSY_RX" /\ Len(i2c_buf'[2]) + i2c_NDTR'[2] = Len(msg)
  <2>1. CASE UNCHANGED <<i2c_State, i2c_tx_done, i2c_buf>> /\ i2c_NDTR'[2] = i2c_NDTR[2]
    BY <1>0, <2>1
  <2>2. ASSUME NEW p \in I2c!Ports, I2c!RxTransfer(p) PROVE <1>1!:
    <3>1. p = 2
      BY <1>0, <2>2 DEF I2c!RxTransfer, I2c!RxRequest
    <3> QED
      BY <1>0, <2>2, <3>1, I2cStores
  <2>3. ASSUME NEW p \in I2c!Ports, I2c!TxTransfer(p) PROVE <1>1!:
    <3>1. p = 1
      BY <1>0, <2>3 DEF I2c!TxTransfer, I2c!TxRequest
    <3>2. i2c_NDTR'[2] = i2c_NDTR[2] /\ UNCHANGED <<i2c_State, i2c_tx_done, i2c_buf>>
      BY <1>0, <2>3, <3>1 DEF I2c!TxTransfer, I2c!Counted, I2c!TypeOK
    <3> QED
      BY <2>1, <3>2
  <2>4. CASE I2c!MasterCplt
    <3>1. AF /\ ~NACKF[1]
      BY <2>4 DEF I2c!MasterCplt, I2c!Cplt, I2c!StopPending, I2cRefused
    <3>2. /\ i2c_State' = [i2c_State EXCEPT ![1] = "READY"] /\ i2c_NDTR' = [i2c_NDTR EXCEPT ![1] = 0]
          /\ UNCHANGED <<i2c_tx_done, i2c_buf>>
      BY <2>4, <3>1 DEF I2c!MasterCplt, I2c!Cplt
    <3>3. i2c_State'[1] = "READY" /\ i2c_State'[2] = i2c_State[2] /\ i2c_NDTR'[2] = i2c_NDTR[2]
      BY <1>0, <3>2 DEF I2c!TypeOK
    <3> QED
      BY <1>0, <3>2, <3>3
  <2>5. CASE I2c!SlaveCplt
    <3>1. i2c_State' = [i2c_State EXCEPT ![2] = "READY"]
      BY <2>5 DEF I2c!SlaveCplt, I2c!Cplt
    <3>2. i2c_State'[2] = "READY" /\ i2c_State'[1] = i2c_State[1]
      BY <1>0, <3>1 DEF I2c!TypeOK
    <3>3. ~i2c_tx_done'[1]
      <4>1. CASE i2c_NDTR[2] # 0
        BY <1>0, <2>5, <4>1 DEF I2c!SlaveCplt, I2c!Cplt
      <4>2. CASE ~(i2c_NDTR[2] # 0)
        <5>1. i2c_tx_done' = [i2c_tx_done EXCEPT ![2] = @ \/ i2c_State[2] = "BUSY_TX"]
          BY <2>5, <4>2, Zenon DEF I2c!SlaveCplt, I2c!Cplt, I2c!CpltCallback
        <5> QED
          BY <1>0, <5>1 DEF I2c!TypeOK
      <4> QED
        BY <4>1, <4>2
    <3> QED
      BY <1>0, <3>2, <3>3
  <2>6. CASE (\E p \in I2c!Ports : I2c!DmaCplt(p)) \/ I2c!AddrCplt \/ I2c!MasterNack \/ I2c!SlaveNack
             \/ I2c!WireStep
    <3>1. UNCHANGED <<i2c_State, i2c_tx_done, i2c_buf, i2c_NDTR>>
      BY <2>6 DEF I2c!DmaCplt, I2c!AddrCplt, I2c!MasterNack, I2c!SlaveNack,
                  I2c!WireStep, I2c!Address, I2c!AddressLost, I2c!Transfer, I2c!TransferFlipped,
                  I2c!TransferRefused, I2c!IdleTransfer, I2c!Stop, I2c!Hold, I2c!LetGo, I2c!Byte
    <3> QED
      BY <2>1, <3>1
  <2> QED
    BY <2>2, <2>3, <2>4, <2>5, <2>6 DEF I2c!IrqStep, I2c!DmaStep
<1> QED
  BY <1>0, <1>1 DEF I2cPhases

(* Who sees the STOP condition.                                            *)
LEMMA I2cStops ==
  ASSUME I2c!Stop
  PROVE  /\ STOPF'[1] /\ (STOPF'[2] <=> bus # "refused") /\ bus' = "free" /\ left = 0 /\ I2c!Served
         /\ UNCHANGED <<pc, msg, verdict, i2c_tx_done, i2c_rx_done, i2c_buf, i2c_State, AF, STOPI, i2c_NDTR,
                        i2c_TCIF, DMAEN, TXDR, i2c_RDR, NACKF, left, damaged, faults, since>>
<1>1. /\ bus' = "free" /\ left = 0 /\ I2c!Served
      /\ UNCHANGED <<pc, msg, verdict, i2c_tx_done, i2c_rx_done, i2c_buf, i2c_State, AF, STOPI, i2c_NDTR,
                     i2c_TCIF, DMAEN, TXDR, i2c_RDR, NACKF, left, damaged, faults, since>>
  BY DEF I2c!Stop, I2c!testVars, I2c!flags, I2c!dma, I2c!handles, I2c!history
<1>2. STOPF' = [p \in {1, 2} |-> p = 1 \/ bus # "refused"]
  BY DEF I2c!Stop, I2c!Ports, I2c!hi2c1, I2c!hi2c2
<1>3. STOPF'[1]
  BY <1>2, Zenon
<1>4. STOPF'[2] <=> bus # "refused"
  <2>1. 2 # 1
    OBVIOUS
  <2> QED
    BY <1>2, <2>1, Zenon
<1> QED
  BY <1>1, <1>3, <1>4

LEMMA I2cRefusedReading ==
  ASSUME I2cInv, I2cRefused, pc \in {"transmit2", "txdmaen", "wait2"},
         I2c!IrqStep \/ I2c!DmaStep \/ I2c!WireStep
  PROVE  I2cPhases'
<1> USE DEF I2c!testVars, I2c!flags, I2c!dma, I2c!handles, I2c!isr, I2c!wires, I2c!history,
            I2c!Ports, I2c!hi2c1, I2c!hi2c2
<1>0. /\ I2cRefused' /\ pc' = pc /\ msg' = msg
      /\ I2cUnused \/ bus = "refused"
      /\ ~i2c_rx_done[1] /\ ~STOPF[2]
      /\ \/ i2c_State[1] = "READY"
         \/ i2c_State[1] = "BUSY_RX" /\ Len(i2c_buf[1]) + i2c_NDTR[1] = Len(msg)
      /\ pc # "transmit2" => i2c_State[2] = "BUSY_TX"
      /\ pc = "transmit2" => I2cAtRest(2)
      /\ I2c!TypeOK
  BY I2cBlame, I2cStaysRefused DEF I2cInv, I2cPhases
<1>1. /\ I2cUnused' \/ bus' = "refused"
      /\ ~i2c_rx_done'[1] /\ ~STOPF'[2]
      /\ \/ i2c_State'[1] = "READY"
         \/ i2c_State'[1] = "BUSY_RX" /\ Len(i2c_buf'[1]) + i2c_NDTR'[1] = Len(msg)
      /\ pc # "transmit2" => i2c_State'[2] = "BUSY_TX"
      /\ pc = "transmit2" => I2cAtRest(2)'
  <2>1. CASE /\ UNCHANGED <<i2c_State, i2c_rx_done, i2c_buf, i2c_NDTR, STOPF, bus, i2c_TCIF, DMAEN>>
             /\ TXDR'[2] = TXDR[2] /\ i2c_RDR'[2] = i2c_RDR[2] /\ NACKF'[2] = NACKF[2]
    BY <1>0, <2>1 DEF I2cUnused, I2cAtRest, I2cQuiet
  <2>2. ASSUME NEW p \in I2c!Ports, I2c!RxTransfer(p) PROVE <1>1!:
    <3>1. p = 1
      BY <1>0, <2>2 DEF I2c!RxTransfer, I2c!RxRequest, I2cAtRest
    <3> QED
      BY <1>0, <2>2, <3>1, I2cStores DEF I2cUnused, I2cAtRest, I2cQuiet
  <2>3. ASSUME NEW p \in I2c!Ports, I2c!DmaCplt(p) PROVE <1>1!:
    <3>1. /\ i2c_TCIF' = [i2c_TCIF EXCEPT ![p] = FALSE] /\ DMAEN' = [DMAEN EXCEPT ![1] = @ /\ p # 1]
          /\ UNCHANGED <<i2c_State, i2c_rx_done, i2c_buf, i2c_NDTR, STOPF, bus, TXDR, i2c_RDR, NACKF>>
      BY <2>3 DEF I2c!DmaCplt
    <3>2. DMAEN'[2] = DMAEN[2] /\ (i2c_TCIF'[2] => i2c_TCIF[2])
      BY <1>0, <3>1 DEF I2c!TypeOK
    <3> QED
      BY <1>0, <3>1, <3>2 DEF I2cUnused, I2cAtRest, I2cQuiet
  <2>4. CASE I2c!MasterNack
    <3>1. /\ NACKF' = [NACKF EXCEPT ![1] = FALSE] /\ TXDR' = [TXDR EXCEPT ![1] = << >>]
          /\ UNCHANGED <<i2c_State, i2c_rx_done, i2c_buf, i2c_NDTR, STOPF, bus, i2c_TCIF, DMAEN, i2c_RDR>>
      BY <2>4 DEF I2c!MasterNack
    <3>2. NACKF'[2] = NACKF[2] /\ TXDR'[2] = TXDR[2]
      BY <1>0, <3>1 DEF I2c!TypeOK
    <3> QED
      BY <2>1, <3>1, <3>2
  <2>5. CASE I2c!SlaveNack
    <3>1. pc # "transmit2"
      BY <1>0, <2>5 DEF I2c!SlaveNack, I2c!NackPending, I2cAtRest
    <3> QED
      BY <1>0, <2>5, <3>1 DEF I2c!SlaveNack, I2cUnused
  <2>6. CASE I2c!MasterCplt
    <3>1. AF /\ ~NACKF[1]
      BY <2>6 DEF I2c!MasterCplt, I2c!Cplt, I2c!StopPending, I2cRefused
    <3>2. /\ i2c_State' = [i2c_State EXCEPT ![1] = "READY"] /\ STOPF' = [STOPF EXCEPT ![1] = FALSE]
          /\ NACKF' = [NACKF EXCEPT ![1] = FALSE] /\ TXDR' = [TXDR EXCEPT ![1] = << >>]
          /\ i2c_NDTR' = [i2c_NDTR EXCEPT ![1] = 0] /\ DMAEN' = [DMAEN EXCEPT ![1] = @ /\ ~AF]
          /\ UNCHANGED <<i2c_rx_done, i2c_buf, bus, i2c_TCIF, i2c_RDR>>
      BY <2>6, <3>1 DEF I2c!MasterCplt, I2c!Cplt
    <3>3. /\ i2c_State'[1] = "READY" /\ i2c_State'[2] = i2c_State[2] /\ STOPF'[2] = STOPF[2]
          /\ i2c_NDTR'[2] = i2c_NDTR[2] /\ NACKF'[2] = NACKF[2] /\ TXDR'[2] = TXDR[2]
      BY <1>0, <3>2 DEF I2c!TypeOK
    <3>4. DMAEN'[2] = DMAEN[2]
      BY <1>0, <3>2 DEF I2c!TypeOK
    <3> QED
      BY <1>0, <3>2, <3>3, <3>4 DEF I2cUnused, I2cAtRest, I2cQuiet
  <2>7. CASE I2c!Stop
    <3>1. bus = "refused" /\ bus' = "free" /\ ~STOPF'[2]
      BY <1>0, <2>7, I2cStops DEF I2c!Stop, I2cUnused
    <3> QED
      BY <1>0, <2>7, <3>1 DEF I2c!Stop, I2cUnused, I2cAtRest, I2cQuiet
  <2>8. CASE I2c!Hold \/ I2c!LetGo
    BY <1>0, <2>8 DEF I2c!Hold, I2c!LetGo, I2cUnused, I2cAtRest, I2cQuiet
  <2>9. /\ ~I2c!SlaveCplt /\ ~I2c!AddrCplt /\ \A p \in I2c!Ports : ~I2c!TxTransfer(p)
        /\ ~I2c!Address /\ ~I2c!AddressLost /\ ~I2c!Transfer /\ ~I2c!TransferFlipped
        /\ ~I2c!TransferRefused /\ ~I2c!IdleTransfer
    BY <1>0 DEF I2cUnused, I2c!SlaveCplt, I2c!Cplt, I2c!StopPending, I2c!AddrCplt, I2c!AddrPending,
                I2c!TxTransfer, I2c!TxRequest, I2c!Address, I2c!AddressLost, I2c!Transfer,
                I2c!TransferFlipped, I2c!Byte, I2c!TransferRefused, I2c!IdleTransfer
  <2> QED
    BY <2>2, <2>3, <2>4, <2>5, <2>6, <2>7, <2>8, <2>9 DEF I2c!IrqStep, I2c!DmaStep, I2c!WireStep
<1> QED
  BY <1>0, <1>1 DEF I2cPhases

LEMMA I2cRefusedStep ==
  ASSUME I2cInv, I2cAtWork, I2cRefused, I2c!IrqStep \/ I2c!DmaStep \/ I2c!WireStep
  PROVE  I2cRest'
<1>1. I2cPhases'
  BY I2cRefusedWriting, I2cRefusedReading DEF I2cAtWork
<1>2. I2cTexts'
  <2>1. I2cRefused' /\ ~I2cReturning'
    BY I2cStaysRefused, I2cBlame DEF I2cReturning, I2cAtWork
  <2> QED
    BY <2>1, I2cTextsKept
<1> QED
  BY <1>1, <1>2, I2cProgressKept DEF I2cRest

-----------------------------------------------------------------------------
(* What the handlers and the DMA do to either port.                        *)

LEMMA I2cDmaEnds ==
  ASSUME I2cInv, NEW p \in I2c!Ports, I2c!DmaCplt(p)
  PROVE  /\ i2c_TCIF[p] /\ ~i2c_TCIF'[p]
         /\ \A q \in I2c!Ports \ {p} : i2c_TCIF'[q] = i2c_TCIF[q]
         /\ DMAEN'[2] = DMAEN[2]
         /\ p = 1 => ~DMAEN'[1] /\ STOPI'
         /\ p = 2 => DMAEN'[1] = DMAEN[1] /\ (STOPI' <=> STOPI)
         /\ UNCHANGED <<pc, msg, verdict, i2c_tx_done, i2c_rx_done, i2c_buf, i2c_State, AF, i2c_NDTR,
                        TXDR, i2c_RDR, NACKF, STOPF, bus, left, damaged, faults, since>>
<1> USE DEF I2c!testVars, I2c!flags, I2c!dma, I2c!handles, I2c!isr, I2c!wires, I2c!history,
            I2c!Ports, I2c!hi2c1, I2c!hi2c2
<1>1. /\ i2c_TCIF[p] /\ i2c_TCIF' = [i2c_TCIF EXCEPT ![p] = FALSE]
      /\ DMAEN' = [DMAEN EXCEPT ![1] = DMAEN[1] /\ p # 1] /\ (STOPI' <=> STOPI \/ p = 1)
      /\ UNCHANGED <<pc, msg, verdict, i2c_tx_done, i2c_rx_done, i2c_buf, i2c_State, AF, i2c_NDTR,
                     TXDR, i2c_RDR, NACKF, STOPF, bus, left, damaged, faults, since>>
  BY DEF I2c!DmaCplt
<1>2. /\ i2c_TCIF \in [I2c!Ports -> BOOLEAN] /\ DMAEN \in [I2c!Ports -> BOOLEAN]
  BY DEF I2cInv, I2c!TypeOK
<1> DEFINE on == DMAEN[1] /\ p # 1
<1>3. DMAEN' = [DMAEN EXCEPT ![1] = on]
  BY <1>1
<1>4. on \in BOOLEAN /\ (p = 1 => ~on) /\ (p = 2 => on = DMAEN[1])
  BY <1>2
<1> HIDE DEF on
<1>5. DMAEN'[2] = DMAEN[2] /\ DMAEN'[1] = on
  BY <1>2, <1>3
<1>6. ~i2c_TCIF'[p] /\ \A q \in I2c!Ports \ {p} : i2c_TCIF'[q] = i2c_TCIF[q]
  BY <1>1, <1>2
<1> QED
  BY <1>1, <1>4, <1>5, <1>6

LEMMA I2cMasterIsDone ==
  ASSUME I2cInv, ~I2cRefused, I2c!MasterCplt
  PROVE  /\ STOPF[1] /\ STOPI /\ i2c_State[1] # "READY" /\ i2c_State'[1] = "READY"
         /\ ~STOPF'[1] /\ ~NACKF'[1] /\ TXDR'[1] = << >>
         /\ (i2c_tx_done'[1] <=> i2c_tx_done[1] \/ i2c_State[1] = "BUSY_TX")
         /\ (i2c_rx_done'[1] <=> i2c_rx_done[1] \/ i2c_State[1] = "BUSY_RX")
         /\ i2c_State'[2] = i2c_State[2] /\ (STOPF'[2] <=> STOPF[2]) /\ (NACKF'[2] <=> NACKF[2])
         /\ TXDR'[2] = TXDR[2] /\ (i2c_tx_done'[2] <=> i2c_tx_done[2]) /\ (i2c_rx_done'[2] <=> i2c_rx_done[2])
         /\ (DMAEN'[1] <=> DMAEN[1]) /\ (DMAEN'[2] <=> DMAEN[2])
         /\ UNCHANGED <<pc, msg, verdict, i2c_buf, AF, i2c_NDTR, i2c_TCIF, i2c_RDR, bus, left,
                        damaged, faults, since>>
<1> USE DEF I2c!testVars, I2c!flags, I2c!dma, I2c!handles, I2c!isr, I2c!wires, I2c!history,
            I2c!Ports, I2c!hi2c1, I2c!hi2c2
<1>1. ~AF /\ ~NACKF[1]
  BY DEF I2cRefused
<1>2. /\ STOPF[1] /\ STOPI /\ i2c_State[1] # "READY"
      /\ i2c_State' = [i2c_State EXCEPT ![1] = "READY"] /\ STOPF' = [STOPF EXCEPT ![1] = FALSE]
      /\ NACKF' = [NACKF EXCEPT ![1] = FALSE] /\ TXDR' = [TXDR EXCEPT ![1] = << >>]
      /\ I2c!CpltCallback(1)
      /\ DMAEN' = [DMAEN EXCEPT ![1] = DMAEN[1] /\ ~AF]
      /\ UNCHANGED <<pc, msg, verdict, i2c_buf, AF, i2c_NDTR, i2c_TCIF, i2c_RDR, bus, left,
                     damaged, faults, since>>
  BY <1>1 DEF I2c!MasterCplt, I2c!Cplt, I2c!StopPending
<1>3. /\ i2c_State \in [I2c!Ports -> {"READY", "BUSY_TX", "BUSY_RX"}] /\ STOPF \in [I2c!Ports -> BOOLEAN]
      /\ NACKF \in [I2c!Ports -> BOOLEAN] /\ TXDR \in [I2c!Ports -> Seq(Bytes)]
      /\ DMAEN \in [I2c!Ports -> BOOLEAN]
      /\ i2c_tx_done \in [I2c!Ports -> BOOLEAN] /\ i2c_rx_done \in [I2c!Ports -> BOOLEAN]
  BY DEF I2cInv, I2c!TypeOK
<1> DEFINE sent == i2c_tx_done[1] \/ i2c_State[1] = "BUSY_TX"
           received == i2c_rx_done[1] \/ i2c_State[1] = "BUSY_RX"
           on == DMAEN[1] /\ ~AF
<1>4. /\ i2c_tx_done' = [i2c_tx_done EXCEPT ![1] = sent] /\ i2c_rx_done' = [i2c_rx_done EXCEPT ![1] = received]
      /\ DMAEN' = [DMAEN EXCEPT ![1] = on] /\ (on <=> DMAEN[1])
  BY <1>1, <1>2, Zenon DEF I2c!CpltCallback
<1>5. /\ (sent <=> i2c_tx_done[1] \/ i2c_State[1] = "BUSY_TX")
      /\ (received <=> i2c_rx_done[1] \/ i2c_State[1] = "BUSY_RX")
  OBVIOUS
<1> HIDE DEF sent, received, on
<1>6. /\ (i2c_tx_done'[1] <=> sent) /\ (i2c_rx_done'[1] <=> received) /\ (DMAEN'[1] <=> on)
      /\ i2c_tx_done'[2] = i2c_tx_done[2] /\ i2c_rx_done'[2] = i2c_rx_done[2] /\ DMAEN'[2] = DMAEN[2]
  BY <1>3, <1>4
<1>7. /\ i2c_State'[1] = "READY" /\ ~STOPF'[1] /\ ~NACKF'[1] /\ TXDR'[1] = << >>
      /\ i2c_State'[2] = i2c_State[2] /\ STOPF'[2] = STOPF[2] /\ NACKF'[2] = NACKF[2] /\ TXDR'[2] = TXDR[2]
  BY <1>2, <1>3
<1> QED
  BY <1>2, <1>4, <1>5, <1>6, <1>7

LEMMA I2cSlaveIsDone ==
  ASSUME I2cInv, I2c!SlaveCplt
  PROVE  /\ STOPF[2] /\ i2c_State[2] # "READY" /\ i2c_State'[2] = "READY"
         /\ ~STOPF'[2] /\ ~NACKF'[2] /\ TXDR'[2] = << >> /\ ~DMAEN'[2] /\ i2c_NDTR'[2] = 0
         /\ IF i2c_NDTR[2] # 0
              THEN UNCHANGED <<i2c_tx_done, i2c_rx_done>>
              ELSE /\ (i2c_tx_done'[2] <=> i2c_tx_done[2] \/ i2c_State[2] = "BUSY_TX")
                   /\ (i2c_rx_done'[2] <=> i2c_rx_done[2] \/ i2c_State[2] = "BUSY_RX")
         /\ i2c_State'[1] = i2c_State[1] /\ (STOPF'[1] <=> STOPF[1]) /\ (NACKF'[1] <=> NACKF[1])
         /\ TXDR'[1] = TXDR[1] /\ (i2c_tx_done'[1] <=> i2c_tx_done[1]) /\ (i2c_rx_done'[1] <=> i2c_rx_done[1])
         /\ (DMAEN'[1] <=> DMAEN[1]) /\ i2c_NDTR'[1] = i2c_NDTR[1]
         /\ UNCHANGED <<pc, msg, verdict, i2c_buf, AF, STOPI, i2c_TCIF, i2c_RDR, bus, left,
                        damaged, faults, since>>
<1> USE DEF I2c!testVars, I2c!flags, I2c!dma, I2c!handles, I2c!isr, I2c!wires, I2c!history,
            I2c!Ports, I2c!hi2c1, I2c!hi2c2
<1>1. /\ STOPF[2] /\ i2c_State[2] # "READY"
      /\ i2c_State' = [i2c_State EXCEPT ![2] = "READY"] /\ STOPF' = [STOPF EXCEPT ![2] = FALSE]
      /\ NACKF' = [NACKF EXCEPT ![2] = FALSE] /\ TXDR' = [TXDR EXCEPT ![2] = << >>]
      /\ DMAEN' = [DMAEN EXCEPT ![2] = FALSE]
      /\ i2c_NDTR[2] # 0 => i2c_NDTR' = [i2c_NDTR EXCEPT ![2] = 0] /\ UNCHANGED <<i2c_tx_done, i2c_rx_done>>
      /\ i2c_NDTR[2] = 0 => I2c!CpltCallback(2) /\ UNCHANGED i2c_NDTR
      /\ UNCHANGED <<pc, msg, verdict, i2c_buf, AF, STOPI, i2c_TCIF, i2c_RDR, bus, left,
                     damaged, faults, since>>
  BY DEF I2c!SlaveCplt, I2c!Cplt, I2c!StopPending, I2c!DmaOff
<1>2. /\ i2c_State \in [I2c!Ports -> {"READY", "BUSY_TX", "BUSY_RX"}] /\ STOPF \in [I2c!Ports -> BOOLEAN]
      /\ NACKF \in [I2c!Ports -> BOOLEAN] /\ TXDR \in [I2c!Ports -> Seq(Bytes)]
      /\ DMAEN \in [I2c!Ports -> BOOLEAN] /\ i2c_NDTR \in [I2c!Ports -> Nat]
      /\ i2c_tx_done \in [I2c!Ports -> BOOLEAN] /\ i2c_rx_done \in [I2c!Ports -> BOOLEAN]
  BY DEF I2cInv, I2c!TypeOK
<1>3. /\ i2c_State'[2] = "READY" /\ ~STOPF'[2] /\ ~NACKF'[2] /\ TXDR'[2] = << >> /\ ~DMAEN'[2]
      /\ i2c_State'[1] = i2c_State[1] /\ STOPF'[1] = STOPF[1] /\ NACKF'[1] = NACKF[1] /\ TXDR'[1] = TXDR[1]
      /\ DMAEN'[1] = DMAEN[1] /\ i2c_NDTR'[1] = i2c_NDTR[1] /\ i2c_NDTR'[2] = 0
  BY <1>1, <1>2
<1>4. ASSUME i2c_NDTR[2] = 0
      PROVE  /\ (i2c_tx_done'[2] <=> i2c_tx_done[2] \/ i2c_State[2] = "BUSY_TX")
             /\ (i2c_rx_done'[2] <=> i2c_rx_done[2] \/ i2c_State[2] = "BUSY_RX")
             /\ i2c_tx_done'[1] = i2c_tx_done[1] /\ i2c_rx_done'[1] = i2c_rx_done[1]
  <2> DEFINE sent == i2c_tx_done[2] \/ i2c_State[2] = "BUSY_TX"
             received == i2c_rx_done[2] \/ i2c_State[2] = "BUSY_RX"
  <2>1. i2c_tx_done' = [i2c_tx_done EXCEPT ![2] = sent] /\ i2c_rx_done' = [i2c_rx_done EXCEPT ![2] = received]
    BY <1>1, <1>4, Zenon DEF I2c!CpltCallback
  <2>2. /\ (sent <=> i2c_tx_done[2] \/ i2c_State[2] = "BUSY_TX")
        /\ (received <=> i2c_rx_done[2] \/ i2c_State[2] = "BUSY_RX")
    OBVIOUS
  <2> HIDE DEF sent, received
  <2>3. /\ (i2c_tx_done'[2] <=> sent) /\ (i2c_rx_done'[2] <=> received)
        /\ i2c_tx_done'[1] = i2c_tx_done[1] /\ i2c_rx_done'[1] = i2c_rx_done[1]
    BY <1>2, <2>1
  <2> QED
    BY <2>2, <2>3
<1> QED
  BY <1>1, <1>3, <1>4

LEMMA I2cTakes ==
  ASSUME I2cInv, NEW p \in I2c!Ports, I2c!TxTransfer(p)
  PROVE  /\ i2c_State[p] = "BUSY_TX" /\ DMAEN[p] /\ i2c_NDTR[p] > 0 /\ bus = "data"
         /\ \E b \in Bytes : /\ TXDR'[p] = Append(TXDR[p], b)
                             /\ LET i == Len(msg) - i2c_NDTR[p] + 1
                                IN  i \in DOMAIN I2c!Source(p) => b = I2c!Source(p)[i]
         /\ i2c_NDTR'[p] = i2c_NDTR[p] - 1 /\ (i2c_TCIF'[p] <=> i2c_NDTR[p] = 1)
         /\ Len(TXDR'[p]) + i2c_NDTR'[p] = Len(TXDR[p]) + i2c_NDTR[p]
         /\ \A q \in I2c!Ports \ {p} : /\ TXDR'[q] = TXDR[q] /\ i2c_NDTR'[q] = i2c_NDTR[q]
                                       /\ i2c_TCIF'[q] = i2c_TCIF[q]
         /\ UNCHANGED <<pc, msg, verdict, i2c_tx_done, i2c_rx_done, i2c_buf, i2c_State, AF, STOPI, DMAEN,
                        i2c_RDR, NACKF, STOPF, bus, left, damaged, faults, since>>
<1> USE DEF I2c!testVars, I2c!flags, I2c!dma, I2c!handles, I2c!isr, I2c!wires, I2c!history
<1>0. /\ TXDR \in [I2c!Ports -> Seq(Bytes)] /\ i2c_buf \in [I2c!Ports -> Seq(Bytes)]
      /\ i2c_NDTR \in [I2c!Ports -> Nat] /\ i2c_TCIF \in [I2c!Ports -> BOOLEAN] /\ msg \in Seq(Bytes)
  BY DEF I2cInv, I2c!TypeOK, I2cProgress
<1> DEFINE i == Len(msg) - i2c_NDTR[p] + 1
<1>1. /\ i2c_State[p] = "BUSY_TX" /\ DMAEN[p] /\ i2c_NDTR[p] > 0 /\ bus = "data"
      /\ i2c_NDTR' = [i2c_NDTR EXCEPT ![p] = @ - 1]
      /\ i2c_TCIF' = [i2c_TCIF EXCEPT ![p] = i2c_NDTR[p] = 1]
      /\ UNCHANGED <<pc, msg, verdict, i2c_tx_done, i2c_rx_done, i2c_buf, i2c_State, AF, STOPI, DMAEN,
                     i2c_RDR, NACKF, STOPF, bus, left, damaged, faults, since>>
  BY DEF I2c!TxTransfer, I2c!TxRequest, I2c!Counted
<1>2. PICK b \in I2c!NextByte(p) : TXDR' = [TXDR EXCEPT ![p] = Append(@, b)]
  BY DEF I2c!TxTransfer
<1>3. b \in Bytes /\ (i \in DOMAIN I2c!Source(p) => b = I2c!Source(p)[i])
  <2>1. I2c!Source(p) \in Seq(Bytes)
    BY <1>0 DEF I2c!Source, I2c!Ports, I2c!hi2c1, I2c!hi2c2
  <2>2. b \in IF i \in DOMAIN I2c!Source(p) THEN {I2c!Source(p)[i]} ELSE Bytes
    BY <1>2 DEF I2c!NextByte
  <2> HIDE DEF i
  <2> QED
    BY <2>1, <2>2
<1>4. /\ TXDR'[p] = Append(TXDR[p], b) /\ i2c_NDTR'[p] = i2c_NDTR[p] - 1
      /\ \A q \in I2c!Ports \ {p} : /\ TXDR'[q] = TXDR[q] /\ i2c_NDTR'[q] = i2c_NDTR[q]
                                    /\ i2c_TCIF'[q] = i2c_TCIF[q]
  BY <1>0, <1>1, <1>2
<1>5. i2c_TCIF'[p] <=> i2c_NDTR[p] = 1
  BY <1>0, <1>1
<1>6. Len(TXDR'[p]) + i2c_NDTR'[p] = Len(TXDR[p]) + i2c_NDTR[p]
  <2> DEFINE a == Len(TXDR[p])
             r == i2c_NDTR[p]
  <2>1. Len(TXDR'[p]) = a + 1 /\ a \in Nat /\ r \in Nat /\ i2c_NDTR'[p] = r - 1
    BY <1>0, <1>3, <1>4
  <2> HIDE DEF a, r
  <2>2. Len(TXDR'[p]) + i2c_NDTR'[p] = a + r
    BY <2>1
  <2> QED
    BY <2>2 DEF a, r
<1> QED
  BY <1>1, <1>3, <1>4, <1>5, <1>6

LEMMA I2cMoves ==
  ASSUME I2cInv, NEW got, I2c!Byte(got), NEW s \in I2c!Ports, NEW r \in I2c!Ports,
         s = I2c!Sender, r = I2c!Receiver
  PROVE  /\ bus = "data" /\ left > 0 /\ TXDR[s] # << >> /\ i2c_RDR[r] = NoByte
         /\ TXDR'[s] = Tail(TXDR[s]) /\ Len(TXDR'[s]) = Len(TXDR[s]) - 1 /\ Head(TXDR[s]) \in Bytes
         /\ i2c_RDR'[r] = got
         /\ \A q \in I2c!Ports \ {s} : TXDR'[q] = TXDR[q]
         /\ \A q \in I2c!Ports \ {r} : i2c_RDR'[q] = i2c_RDR[q]
         /\ UNCHANGED <<pc, msg, verdict, i2c_tx_done, i2c_rx_done, i2c_buf, i2c_State, AF, STOPI, i2c_NDTR,
                        i2c_TCIF, DMAEN, STOPF>>
<1> USE DEF I2c!testVars, I2c!flags, I2c!dma, I2c!handles
<1>0. TXDR \in [I2c!Ports -> Seq(Bytes)] /\ i2c_RDR \in [I2c!Ports -> Bytes \cup {NoByte}]
  BY NoByteIsNone DEF I2cInv, I2c!TypeOK
<1>1. /\ bus = "data" /\ left > 0 /\ TXDR[s] # << >> /\ i2c_RDR[r] = NoByte
      /\ TXDR' = [TXDR EXCEPT ![s] = Tail(@)] /\ i2c_RDR' = [i2c_RDR EXCEPT ![r] = got]
      /\ UNCHANGED <<pc, msg, verdict, i2c_tx_done, i2c_rx_done, i2c_buf, i2c_State, AF, STOPI, i2c_NDTR,
                     i2c_TCIF, DMAEN, STOPF>>
  BY NoByteIsNone DEF I2c!Byte
<1>2. /\ TXDR'[s] = Tail(TXDR[s]) /\ i2c_RDR'[r] = got
      /\ \A q \in I2c!Ports \ {s} : TXDR'[q] = TXDR[q]
      /\ \A q \in I2c!Ports \ {r} : i2c_RDR'[q] = i2c_RDR[q]
  BY <1>0, <1>1
<1>3. Len(Tail(TXDR[s])) = Len(TXDR[s]) - 1 /\ Head(TXDR[s]) \in Bytes
  BY <1>0, <1>1
<1> QED
  BY <1>1, <1>2, <1>3

(* What has been read, is held and is still to be sent makes up m.         *)
I2cWhole(a, b, c, src, m) == \A k \in 1..Len(m) : OnTheWay(a, b, c, src, k) = m[k]

(* A byte that is sent gets to the receiver, perhaps as another one.       *)
LEMMA I2cGetsThrough ==
  ASSUME NEW a \in Seq(Bytes), NEW c \in Seq(Bytes), NEW src, NEW got \in Bytes,
         NEW d \in 0..2, NEW e, NEW m \in Seq(Bytes), c # << >>, Len(a) < Len(m),
         d = 0 => I2cWhole(a, << >>, c, src, m),
         d = 1 => ~I2cWhole(a, << >>, c, src, m),
         e = IF Head(c) # got /\ d < 2 THEN d + 1 ELSE d
  PROVE  /\ e = 0 => I2cWhole(a, <<got>>, Tail(c), src, m)
         /\ e = 1 => ~I2cWhole(a, <<got>>, Tail(c), src, m)
<1> DEFINE n == Len(m)
<1>0. n \in Nat /\ Len(a) < n
  OBVIOUS
<1> DEFINE S == 1..n
           f == [k \in S |-> OnTheWay(a, << >>, c, src, k)]
           g == [k \in S |-> OnTheWay(a, <<got>>, Tail(c), src, k)]
           here == Len(a) + 1
<1>1. /\ Len(a) \in Nat /\ here \in S /\ << >> \in Seq(Bytes) /\ here = Len(a) + Len(<< >>) + 1
      /\ Append(<< >>, got) = <<got>> /\ here \in Nat \ {0}
  BY <1>0
<1>2. /\ \A k \in S : OnTheWay(a, Append(<< >>, got), Tail(c), src, k)
                         = IF k = here THEN got ELSE OnTheWay(a, << >>, c, src, k)
      /\ OnTheWay(a, << >>, c, src, here) = Head(c)
  <2> DEFINE b == << >>
  <2>1. b \in Seq(Bytes) /\ here = Len(a) + Len(b) + 1 /\ here \in Nat \ {0} /\ S \subseteq Nat \ {0}
    BY <1>1
  <2> HIDE DEF b, here, S, f, g
  <2>2. ASSUME NEW k \in Nat \ {0}
        PROVE  /\ OnTheWay(a, Append(b, got), Tail(c), src, k)
                    = IF k = here THEN got ELSE OnTheWay(a, b, c, src, k)
               /\ OnTheWay(a, b, c, src, here) = Head(c)
    BY <2>1, ByteClocked
  <2> QED
    BY <2>1, <2>2 DEF b
<1>3. f[here] = Head(c) /\ \A k \in S : g[k] = IF k = here THEN got ELSE f[k]
  BY <1>1, <1>2
<1>4. /\ d = 0 => \A k \in S : f[k] = m[k]
      /\ d = 1 => ~\A k \in S : f[k] = m[k]
  BY DEF I2cWhole
<1>5. /\ e = 0 => \A k \in S : g[k] = m[k]
      /\ e = 1 => ~\A k \in S : g[k] = m[k]
  <2> HIDE DEF f, g, here, S
  <2> QED
    BY <1>1, <1>3, <1>4, OneByteClocked
<1> QED
  BY <1>5 DEF I2cWhole

-----------------------------------------------------------------------------
(* The first phase: the master sends.                                      *)

I2cWrites == I2cWriting /\ Told(\A k \in 1..Len(msg) : I2cToSlave(k) = msg[k])

LEMMA I2cWritesNow ==
  ASSUME I2cInv, pc = "wait1", ~I2cRefused
  PROVE  /\ I2cWrites /\ ~NACKF[1] /\ ~AF
         /\ I2cSent(1) = TXDR[1]
         /\ i2c_State[1] \in {"BUSY_TX", "READY"} /\ i2c_State[2] \in {"BUSY_RX", "READY"}
         /\ bus \in {"free", "held", "start", "addressed", "data"}
         /\ ~I2cUnused => i2c_State[1] = "BUSY_TX" /\ i2c_State[2] = "BUSY_RX" /\ DMAEN[2]
<1> USE DEF I2c!hi2c1, I2c!hi2c2
<1>1. I2cWrites /\ ~NACKF[1] /\ ~AF
  BY DEF I2cInv, I2cPhases, I2cTexts, I2cWrites, I2cRefused
<1>2. I2cSent(1) = TXDR[1]
  <2>1. left = 0 => TXDR[1] = << >>
    <3>1. TXDR[1] \in Seq(Bytes) /\ Len(TXDR[1]) \in Nat /\ i2c_NDTR[1] \in Nat
          /\ Len(TXDR[1]) + i2c_NDTR[1] = left
      BY <1>1, I2cFacts DEF I2cWrites, I2cWriting, I2c!Ports
    <3> QED
      BY <3>1
  <2> QED
    BY <2>1 DEF I2cSent
<1>3. bus \in {"free", "held", "start", "addressed", "data"}
  BY <1>1 DEF I2cWrites, I2cWriting, I2cUnused
<1>4. ~I2cUnused => i2c_State[1] = "BUSY_TX" /\ i2c_State[2] = "BUSY_RX" /\ DMAEN[2]
  BY <1>1 DEF I2cWrites, I2cWriting, I2cMasterUp, I2cSlaveUp
<1> QED
  BY <1>1, <1>2, <1>3, <1>4, I2cWhere

LEMMA I2cToSlaveKept ==
  ASSUME Told(\A k \in 1..Len(msg) : I2cToSlave(k) = msg[k]),
         UNCHANGED <<msg, damaged>>, i2c_buf'[2] = i2c_buf[2], i2c_RDR'[2] = i2c_RDR[2],
         I2cSent(1)' = I2cSent(1)
  PROVE  Told(\A k \in 1..Len(msg) : I2cToSlave(k) = msg[k])'
<1>1. \A k \in 1..Len(msg) : I2cToSlave(k)' = I2cToSlave(k)
  BY DEF I2cToSlave, I2cHeld, I2c!hi2c1, I2c!hi2c2
<1> QED
  BY <1>1 DEF Told

LEMMA I2cWritingIrq ==
  ASSUME I2cInv, pc = "wait1", ~I2cRefused, I2c!IrqStep
  PROVE  ~I2cRefused' /\ I2cWrites'
<1> USE DEF I2c!Ports, I2c!hi2c1, I2c!hi2c2
<1>0. I2cWrites /\ ~NACKF[1] /\ ~AF /\ I2cSent(1) = TXDR[1]
  BY I2cWritesNow
<1>00. I2cSent(1)' = IF left' = 0 THEN << >> ELSE TXDR'[1]
  BY DEF I2cSent
<1>1. ASSUME NEW p \in I2c!Ports, I2c!DmaCplt(p) PROVE ~I2cRefused' /\ I2cWrites'
  <2>1. ~I2cRefused'
    BY <1>0, <1>1, I2cDmaEnds DEF I2cRefused
  <2>2. I2cWriting'
    <3>1. i2c_TCIF'[2] => i2c_TCIF[2]
      BY <1>1, I2cDmaEnds
    <3>2. I2cMasterDma => I2cMasterDma'
      BY <1>1, I2cDmaEnds DEF I2cMasterDma
    <3>3. i2c_State[1] = "READY" => p = 2
      BY <1>0, <1>1, I2cDmaEnds DEF I2cWrites, I2cWriting, I2cMasterEnds, I2cMasterUp
    <3>4. /\ I2cMasterUp("BUSY_TX", i2c_tx_done[1]) => I2cMasterUp("BUSY_TX", i2c_tx_done[1])'
          /\ I2cMasterEnds("BUSY_TX", i2c_tx_done[1]) => I2cMasterEnds("BUSY_TX", i2c_tx_done[1])'
      BY <1>1, <3>2, <3>3, I2cDmaEnds DEF I2cMasterUp, I2cMasterEnds
    <3>5. /\ I2cSlaveUp("BUSY_RX", i2c_rx_done[2]) => I2cSlaveUp("BUSY_RX", i2c_rx_done[2])'
          /\ I2cSlaveEnds("BUSY_RX", i2c_rx_done[2]) => I2cSlaveEnds("BUSY_RX", i2c_rx_done[2])'
      BY <1>1, I2cDmaEnds DEF I2cSlaveUp, I2cSlaveEnds
    <3> QED
      BY <1>0, <1>1, <3>1, <3>4, <3>5, I2cDmaEnds DEF I2cWrites, I2cWriting, I2cUnused, I2cHeld
  <2>3. Told(\A k \in 1..Len(msg) : I2cToSlave(k) = msg[k])'
    BY <1>0, <1>00, <1>1, I2cDmaEnds, I2cToSlaveKept DEF I2cWrites, I2cSent
  <2> QED
    BY <2>1, <2>2, <2>3 DEF I2cWrites
<1>2. CASE I2c!AddrCplt
  <2>1. /\ bus = "addressed" /\ bus' = "data"
        /\ UNCHANGED <<pc, msg, verdict, i2c_tx_done, i2c_rx_done, i2c_buf, i2c_State, AF, STOPI, i2c_NDTR,
                       i2c_TCIF, DMAEN, TXDR, i2c_RDR, NACKF, STOPF, left, damaged>>
    BY <1>2 DEF I2c!AddrCplt, I2c!AddrPending, I2c!testVars, I2c!flags, I2c!dma, I2c!handles, I2c!isr, I2c!history
  <2>2. ~I2cRefused'
    BY <1>0, <2>1 DEF I2cRefused
  <2>3. I2cWriting'
    BY <1>0, <2>1 DEF I2cWrites, I2cWriting, I2cUnused, I2cHeld, I2cMasterUp, I2cMasterDma, I2cSlaveUp
  <2>4. Told(\A k \in 1..Len(msg) : I2cToSlave(k) = msg[k])'
    BY <1>0, <2>1, I2cToSlaveKept DEF I2cWrites, I2cSent
  <2> QED
    BY <2>2, <2>3, <2>4 DEF I2cWrites
<1>3. CASE I2c!MasterCplt
  <2>1. ~I2cRefused'
    BY <1>0, <1>3, I2cMasterIsDone DEF I2cRefused
  <2>2. I2cUnused /\ left = 0 /\ I2cMasterEnds("BUSY_TX", i2c_tx_done[1])
    BY <1>0, <1>3, I2cMasterIsDone DEF I2cWrites, I2cWriting, I2cMasterUp
  <2>3. i2c_State[1] = "BUSY_TX" /\ ~DMAEN[1] /\ ~i2c_TCIF[1] /\ TXDR[1] = << >>
    BY <1>0, <1>3, <2>2, I2cMasterIsDone DEF I2cMasterEnds, I2cMasterDma, I2cSent
  <2>4. I2cWriting'
    <3>1. I2cMasterEnds("BUSY_TX", i2c_tx_done[1])'
      BY <1>3, <2>3, I2cMasterIsDone DEF I2cMasterEnds
    <3>2. I2cSlaveEnds("BUSY_RX", i2c_rx_done[2])'
      BY <1>0, <1>3, <2>2, I2cMasterIsDone DEF I2cWrites, I2cWriting, I2cSlaveEnds
    <3>3. TXDR'[1] = TXDR[1]
      BY <1>3, <2>3, I2cMasterIsDone
    <3> QED
      BY <1>0, <1>3, <2>2, <3>1, <3>2, <3>3, I2cMasterIsDone DEF I2cWrites, I2cWriting, I2cUnused, I2cHeld
  <2>5. Told(\A k \in 1..Len(msg) : I2cToSlave(k) = msg[k])'
    BY <1>0, <1>00, <1>3, <2>2, <2>3, I2cMasterIsDone, I2cToSlaveKept DEF I2cWrites
  <2> QED
    BY <2>1, <2>4, <2>5 DEF I2cWrites
<1>4. CASE I2c!SlaveCplt
  <2>1. ~I2cRefused'
    BY <1>0, <1>4, I2cSlaveIsDone DEF I2cRefused
  <2>2. I2cUnused /\ left = 0 /\ I2cSlaveEnds("BUSY_RX", i2c_rx_done[2]) /\ i2c_RDR[2] = NoByte
    BY <1>0, <1>4, I2cSlaveIsDone DEF I2cWrites, I2cWriting, I2cSlaveUp
  <2>3. i2c_NDTR[2] = 0
    <3>1. I2cHeld(2) = << >> /\ Len(I2cHeld(2)) = 0
      BY <2>2 DEF I2cHeld
    <3>2. i2c_NDTR[2] = left + Len(I2cHeld(2))
      BY <1>0 DEF I2cWrites, I2cWriting
    <3> QED
      BY <2>2, <3>1, <3>2
  <2>4. I2cWriting'
    <3>1. I2cSlaveEnds("BUSY_RX", i2c_rx_done[2])'
      BY <1>4, I2cSlaveIsDone DEF I2cSlaveEnds
    <3>2. I2cMasterEnds("BUSY_TX", i2c_tx_done[1])'
      <4>1. I2cMasterDma => I2cMasterDma'
        BY <1>4, I2cSlaveIsDone DEF I2cMasterDma
      <4> QED
        BY <1>0, <1>4, <2>2, <4>1, I2cSlaveIsDone DEF I2cWrites, I2cWriting, I2cMasterEnds
    <3> QED
      BY <1>0, <1>4, <2>2, <2>3, <3>1, <3>2, I2cSlaveIsDone DEF I2cWrites, I2cWriting, I2cUnused, I2cHeld
  <2>5. Told(\A k \in 1..Len(msg) : I2cToSlave(k) = msg[k])'
    BY <1>0, <1>00, <1>4, I2cSlaveIsDone, I2cToSlaveKept DEF I2cWrites, I2cSent
  <2> QED
    BY <2>1, <2>4, <2>5 DEF I2cWrites
<1>5. ~I2c!MasterNack /\ ~I2c!SlaveNack
  BY <1>0 DEF I2cWrites, I2cWriting, I2c!MasterNack, I2c!SlaveNack, I2c!NackPending
<1> QED
  BY <1>1, <1>2, <1>3, <1>4, <1>5 DEF I2c!IrqStep

LEMMA OneByte ==
  ASSUME NEW x \in Bytes
  PROVE  Head(<<x>>) = x /\ Tail(<<x>>) = << >> /\ <<x>> # << >> /\ <<x>> \in Seq(Bytes)
  OBVIOUS

LEMMA NoBytes == \A s \in Seq(Bytes) : Len(s) = 0 => s = << >>
  OBVIOUS

(* A single byte is the last one.                                          *)
LEMMA LastByte ==
  ASSUME NEW s \in Seq(Bytes), Len(s) = 1
  PROVE  s # << >> /\ Tail(s) = << >>
<1>0. Len(<< >>) = 0
  OBVIOUS
<1>1. s # << >>
  <2> SUFFICES ASSUME s = << >> PROVE FALSE
    OBVIOUS
  <2> QED
    BY <1>0
<1>2. Tail(s) \in Seq(Bytes)
  BY <1>1
<1>3. Len(Tail(s)) = Len(s) - 1
  BY <1>1
<1>4. Len(Tail(s)) = 0
  BY <1>3
<1> QED
  BY <1>1, <1>2, <1>4, NoBytes

LEMMA I2cWritingTx ==
  ASSUME I2cInv, pc = "wait1", ~I2cRefused, NEW p \in I2c!Ports, I2c!TxTransfer(p)
  PROVE  ~I2cRefused' /\ I2cWrites'
<1> USE DEF I2c!Ports, I2c!hi2c1, I2c!hi2c2
<1>0. I2cWrites /\ ~NACKF[1] /\ ~AF /\ I2cSent(1) = TXDR[1]
  BY I2cWritesNow
<1>1. p = 1 /\ ~I2cUnused
  BY I2cTakes, I2cWritesNow DEF I2cUnused
<1>2. ~I2cRefused'
  BY <1>0, I2cTakes DEF I2cRefused
<1>3. /\ left' = left /\ i2c_NDTR'[2] = i2c_NDTR[2] /\ TXDR'[2] = TXDR[2] /\ i2c_TCIF'[2] = i2c_TCIF[2]
      /\ Len(TXDR'[1]) + i2c_NDTR'[1] = left
      /\ UNCHANGED <<pc, msg, verdict, i2c_tx_done, i2c_rx_done, i2c_buf, i2c_State, AF, STOPI, DMAEN,
                     i2c_RDR, NACKF, STOPF, bus, damaged>>
  BY <1>0, <1>1, I2cTakes DEF I2cWrites, I2cWriting
<1>4. I2cWriting'
  <2>1. I2cMasterUp("BUSY_TX", i2c_tx_done[1]) /\ I2cSlaveUp("BUSY_RX", i2c_rx_done[2])
    BY <1>0, <1>1 DEF I2cWrites, I2cWriting
  <2>2. I2cMasterDma'
    <3>1. i2c_NDTR[1] > 0 /\ i2c_NDTR[1] \in Nat /\ i2c_NDTR'[1] = i2c_NDTR[1] - 1
          /\ (i2c_TCIF'[1] <=> i2c_NDTR[1] = 1) /\ DMAEN[1]
      BY <1>1, I2cTakes, I2cFacts
    <3>2. i2c_NDTR'[1] = 0 <=> i2c_NDTR[1] = 1
      BY <3>1
    <3>3. i2c_NDTR'[1] > 0 \/ i2c_NDTR'[1] = 0
      BY <3>1
    <3> QED
      BY <1>3, <2>1, <3>1, <3>2, <3>3 DEF I2cMasterUp, I2cMasterDma
  <2>3. I2cMasterUp("BUSY_TX", i2c_tx_done[1])' /\ I2cSlaveUp("BUSY_RX", i2c_rx_done[2])'
    BY <1>3, <2>1, <2>2 DEF I2cMasterUp, I2cSlaveUp
  <2> QED
    BY <1>0, <1>1, <1>3, <2>3 DEF I2cWrites, I2cWriting, I2cUnused, I2cHeld
<1>5. Told(\A k \in 1..Len(msg) : I2cToSlave(k) = msg[k])'
  <2> DEFINE a == i2c_buf[2]
             b == I2cHeld(2)
             c == TXDR[1]
             n == i2c_NDTR[1]
             i == Len(msg) - n + 1
  <2>1. PICK byte \in Bytes : TXDR'[1] = Append(c, byte) /\ (i \in DOMAIN msg => byte = msg[i])
    BY <1>1, I2cTakes DEF I2c!Source
  <2>2. /\ a \in Seq(Bytes) /\ b \in Seq(Bytes) /\ c \in Seq(Bytes) /\ msg \in Seq(Bytes)
        /\ Len(a) \in Nat /\ Len(b) \in Nat /\ Len(c) \in Nat /\ n \in Nat /\ Len(msg) \in Nat
        /\ i2c_NDTR[2] \in Nat /\ left \in Nat /\ DOMAIN msg = 1..Len(msg)
    BY I2cFacts
  <2>3. /\ n > 0 /\ Len(a) + i2c_NDTR[2] = Len(msg) /\ i2c_NDTR[2] = left + Len(b) /\ Len(c) + n = left
    BY <1>0, <1>1, I2cTakes DEF I2cWrites, I2cWriting
  <2>4. Len(a) + Len(b) + Len(c) + 1 = i /\ i \in 1..Len(msg)
    <3> DEFINE la == Len(a)
               lb == Len(b)
               lc == Len(c)
               m == Len(msg)
               r == i2c_NDTR[2]
    <3>1. /\ la \in Nat /\ lb \in Nat /\ lc \in Nat /\ n \in Nat /\ m \in Nat /\ r \in Nat /\ left \in Nat
          /\ n > 0 /\ la + r = m /\ r = left + lb /\ lc + n = left
      BY <2>2, <2>3, Zenon
    <3>2. la + lb + lc + 1 = m - n + 1 /\ m - n + 1 \in 1..m
      <4> HIDE DEF la, lb, lc, n, m, r
      <4> QED
        BY <3>1
    <3> QED
      BY <3>2, Zenon
  <2> HIDE DEF a, b, c, i
  <2>5. byte = msg[Len(a) + Len(b) + Len(c) + 1]
    BY <2>1, <2>2, <2>4
  <2>6. \A k \in Nat \ {0} : OnTheWay(a, b, Append(c, byte), msg, k) = OnTheWay(a, b, c, msg, k)
    BY <2>2, <2>5, ByteQueued, SMTT(40)
  <2>7. \A k \in 1..Len(msg) : I2cToSlave(k)' = I2cToSlave(k)
    <3>1. I2cSent(1)' = Append(c, byte) /\ I2cHeld(2)' = b /\ i2c_buf'[2] = a /\ I2cSent(1) = c
      <4>1. left # 0
        BY <2>2, <2>3
      <4> QED
        BY <1>0, <1>3, <2>1, <4>1 DEF I2cSent, I2cHeld, a, b, c
    <3>2. \A k \in 1..Len(msg) : k \in Nat \ {0}
      BY <2>2
    <3> QED
      BY <1>3, <2>6, <3>1, <3>2 DEF I2cToSlave, a, b
  <2> QED
    BY <1>0, <1>3, <2>7 DEF I2cWrites, Told
<1> QED
  BY <1>2, <1>4, <1>5 DEF I2cWrites

LEMMA I2cWritingRx ==
  ASSUME I2cInv, pc = "wait1", ~I2cRefused, NEW p \in I2c!Ports, I2c!RxTransfer(p)
  PROVE  ~I2cRefused' /\ I2cWrites'
<1> USE DEF I2c!Ports, I2c!hi2c1, I2c!hi2c2
<1>0. I2cWrites /\ ~NACKF[1] /\ ~AF /\ I2cSent(1) = TXDR[1]
  BY I2cWritesNow
<1>1. p = 2
  BY I2cStores, I2cWritesNow
<1>2. ~I2cRefused'
  BY <1>0, I2cStores DEF I2cRefused
<1>3. ~I2cUnused /\ i2c_RDR[2] # NoByte /\ I2cHeld(2) = <<i2c_RDR[2]>> /\ I2cHeld(2)' = << >>
  BY <1>0, <1>1, I2cStores, NoByteIsNone DEF I2cWrites, I2cWriting, I2cHeld
<1>4. /\ i2c_NDTR[1] = i2c_NDTR'[1] /\ i2c_RDR'[1] = i2c_RDR[1] /\ i2c_TCIF'[1] = i2c_TCIF[1]
      /\ i2c_buf'[1] = i2c_buf[1]
      /\ Len(i2c_buf'[2]) + i2c_NDTR'[2] = Len(msg)
      /\ UNCHANGED <<pc, msg, verdict, i2c_tx_done, i2c_rx_done, i2c_State, AF, STOPI, DMAEN, TXDR,
                     NACKF, STOPF, bus, left, damaged>>
  BY <1>1, I2cStores
<1>5. i2c_NDTR'[2] = left' + Len(I2cHeld(2)') /\ (i2c_TCIF'[2] => i2c_NDTR'[2] = 0)
  <2>1. /\ i2c_NDTR[2] = left + 1 /\ left \in Nat /\ i2c_NDTR'[2] = i2c_NDTR[2] - 1 /\ i2c_NDTR[2] \in Nat
        /\ (i2c_TCIF'[2] <=> i2c_NDTR[2] = 1) /\ Len(I2cHeld(2)') = 0 /\ left' = left
    BY <1>0, <1>1, <1>3, <1>4, I2cStores, I2cFacts DEF I2cWrites, I2cWriting
  <2> QED
    BY <2>1
<1>6. I2cWriting'
  <2>1. I2cMasterUp("BUSY_TX", i2c_tx_done[1])' /\ I2cSlaveUp("BUSY_RX", i2c_rx_done[2])'
    BY <1>0, <1>3, <1>4 DEF I2cWrites, I2cWriting, I2cMasterUp, I2cMasterDma, I2cSlaveUp
  <2> QED
    BY <1>0, <1>3, <1>4, <1>5, <2>1 DEF I2cWrites, I2cWriting, I2cUnused
<1>7. Told(\A k \in 1..Len(msg) : I2cToSlave(k) = msg[k])'
  <2> DEFINE a == i2c_buf[2]
             b == I2cHeld(2)
             c == TXDR[1]
  <2>1. /\ a \in Seq(Bytes) /\ b \in Seq(Bytes) /\ c \in Seq(Bytes) /\ b # << >> /\ Len(msg) \in Nat
        /\ Head(b) = i2c_RDR[2] /\ Tail(b) = << >>
    <3>1. /\ a \in Seq(Bytes) /\ b \in Seq(Bytes) /\ c \in Seq(Bytes) /\ Len(msg) \in Nat
          /\ b = <<i2c_RDR[2]>> /\ i2c_RDR[2] \in Bytes
      BY <1>3, I2cFacts
    <3> QED
      BY <3>1, OneByte
  <2>2. /\ I2cSent(1)' = c /\ I2cSent(1) = c /\ I2cHeld(2)' = Tail(b) /\ i2c_buf'[2] = Append(a, Head(b))
    BY <1>0, <1>1, <1>3, <1>4, <2>1, I2cStores DEF I2cSent
  <2> HIDE DEF a, b, c
  <2>3. \A k \in Nat \ {0} : OnTheWay(Append(a, Head(b)), Tail(b), c, msg, k) = OnTheWay(a, b, c, msg, k)
    BY <2>1, ByteRead
  <2>4. \A k \in 1..Len(msg) : I2cToSlave(k)' = I2cToSlave(k)
    <3>1. \A k \in 1..Len(msg) : k \in Nat \ {0}
      BY <2>1
    <3> QED
      BY <1>4, <2>2, <2>3, <3>1 DEF I2cToSlave, a, b
  <2> QED
    BY <1>0, <1>4, <2>4 DEF I2cWrites, Told
<1> QED
  BY <1>2, <1>6, <1>7 DEF I2cWrites

(* A byte of the master gets to the slave.                                 *)
LEMMA I2cWritingByte ==
  ASSUME I2cInv, pc = "wait1", ~I2cRefused, I2c!Transfer \/ I2c!TransferFlipped
  PROVE  ~I2cRefused' /\ I2cWrites'
<1> USE DEF I2c!Ports, I2c!hi2c1, I2c!hi2c2
<1>0. I2cWrites /\ ~NACKF[1] /\ ~AF /\ I2cSent(1) = TXDR[1]
  BY I2cWritesNow
<1>1. /\ I2c!Sender = 1 /\ I2c!Receiver = 2 /\ ~I2cUnused /\ bus = "data"
  <2>1. bus = "data"
    BY DEF I2c!Transfer, I2c!TransferFlipped, I2c!Byte
  <2> QED
    BY <2>1, I2cWritesNow DEF I2cUnused, I2c!Sender, I2c!Receiver
<1>2. PICK got \in Bytes :
        /\ I2c!Byte(got) /\ I2c!Acknowledged
        /\ damaged' = IF Head(TXDR[1]) # got /\ damaged < 2 THEN damaged + 1 ELSE damaged
  <2>1. CASE I2c!Transfer
    <3>1. I2c!Byte(Head(TXDR[1])) /\ I2c!Acknowledged /\ damaged' = damaged
      BY <1>1, <2>1 DEF I2c!Transfer, I2c!history
    <3>2. Head(TXDR[1]) \in Bytes
      BY <1>1, <3>1, I2cMoves
    <3> QED
      BY <3>1, <3>2
  <2>2. CASE I2c!TransferFlipped
    BY <1>1, <2>2 DEF I2c!TransferFlipped, I2c!Damage
  <2> QED
    BY <2>1, <2>2
<1>3. /\ bus' = "data" /\ left > 0 /\ left' = left - 1 /\ left \in Nat
      /\ TXDR[1] # << >> /\ i2c_RDR[2] = NoByte /\ I2cHeld(2) = << >>
      /\ TXDR'[1] = Tail(TXDR[1]) /\ TXDR'[2] = TXDR[2]
      /\ Len(TXDR'[1]) = Len(TXDR[1]) - 1
      /\ i2c_RDR'[2] = got /\ i2c_RDR'[1] = i2c_RDR[1] /\ I2cHeld(2)' = <<got>>
      /\ UNCHANGED <<pc, msg, verdict, i2c_tx_done, i2c_rx_done, i2c_buf, i2c_State, AF, STOPI, i2c_NDTR,
                     i2c_TCIF, DMAEN, STOPF>>
  <2>1. I2c!Byte(got) /\ left' = left - 1 /\ bus' = bus /\ left \in Nat
    BY <1>2, I2cFacts DEF I2c!Acknowledged
  <2>2. 1 \in I2c!Ports /\ 2 \in I2c!Ports /\ 1 # 2
    OBVIOUS
  <2>3. got # NoByte
    BY NoByteIsNone
  <2>4. /\ bus = "data" /\ left > 0 /\ TXDR[1] # << >> /\ i2c_RDR[2] = NoByte
        /\ TXDR'[1] = Tail(TXDR[1]) /\ Len(TXDR'[1]) = Len(TXDR[1]) - 1
        /\ i2c_RDR'[2] = got
        /\ \A q \in I2c!Ports \ {1} : TXDR'[q] = TXDR[q]
        /\ \A q \in I2c!Ports \ {2} : i2c_RDR'[q] = i2c_RDR[q]
        /\ UNCHANGED <<pc, msg, verdict, i2c_tx_done, i2c_rx_done, i2c_buf, i2c_State, AF, STOPI, i2c_NDTR,
                       i2c_TCIF, DMAEN, STOPF>>
    BY <1>1, <2>1, <2>2, I2cMoves
  <2> QED
    BY <2>1, <2>2, <2>3, <2>4 DEF I2cHeld
<1>4. NACKF'[1] = NACKF[1] /\ NACKF'[2] = NACKF[2]
  <2> DEFINE last == NACKF[2] \/ (I2c!Sender = 2 /\ left = 1)
  <2>1. NACKF' = [NACKF EXCEPT ![2] = last] /\ NACKF \in [I2c!Ports -> BOOLEAN]
    BY <1>2, Zenon DEF I2c!Acknowledged, I2cInv, I2c!TypeOK
  <2>2. last = NACKF[2]
    <3>1. NACKF[2] \in BOOLEAN
      BY <2>1
    <3>2. ~(I2c!Sender = 2)
      BY <1>1
    <3> QED
      BY <3>1, <3>2
  <2> HIDE DEF last
  <2> QED
    BY <2>1, <2>2
<1>5. ~I2cRefused'
  BY <1>0, <1>3, <1>4 DEF I2cRefused
<1> DEFINE a == i2c_buf[2]
           c == TXDR[1]
           m == Len(msg)
<1>6. /\ a \in Seq(Bytes) /\ c \in Seq(Bytes) /\ Len(a) \in Nat /\ Len(c) \in Nat /\ m \in Nat
      /\ i2c_NDTR[1] \in Nat /\ i2c_NDTR[2] \in Nat /\ left' \in Nat
      /\ Len(a) + i2c_NDTR[2] = m /\ i2c_NDTR[2] = left /\ Len(c) + i2c_NDTR[1] = left
  <2>1. /\ a \in Seq(Bytes) /\ c \in Seq(Bytes) /\ Len(a) \in Nat /\ Len(c) \in Nat /\ m \in Nat
        /\ i2c_NDTR[1] \in Nat /\ i2c_NDTR[2] \in Nat
    BY I2cFacts
  <2>2. Len(a) + i2c_NDTR[2] = m /\ Len(c) + i2c_NDTR[1] = left
    BY <1>0 DEF I2cWrites, I2cWriting
  <2>3. Len(I2cHeld(2)) = 0 /\ i2c_NDTR[2] = left + Len(I2cHeld(2))
    BY <1>0, <1>3 DEF I2cWrites, I2cWriting
  <2>4. left' \in Nat
    BY <1>3
  <2>5. i2c_NDTR[2] = left
    BY <1>3, <2>3
  <2> QED
    BY <2>1, <2>2, <2>4, <2>5
<1>7. /\ i2c_NDTR'[2] = left' + Len(I2cHeld(2)') /\ Len(TXDR'[1]) + i2c_NDTR'[1] = left'
      /\ Len(a) < m
  <2>1. Len(I2cHeld(2)') = 1 /\ i2c_NDTR'[1] = i2c_NDTR[1] /\ i2c_NDTR'[2] = i2c_NDTR[2]
    BY <1>3
  <2> DEFINE x == Len(c)
             y == Len(a)
             u == i2c_NDTR[1]
             v == i2c_NDTR[2]
             h == Len(I2cHeld(2)')
  <2>2. /\ x \in Nat /\ y \in Nat /\ u \in Nat /\ v \in Nat /\ m \in Nat /\ left \in Nat /\ left > 0
        /\ left' = left - 1 /\ y + v = m /\ v = left /\ x + u = left /\ h = 1
    BY <1>3, <1>6, <2>1
  <2>3. i2c_NDTR'[2] = v /\ i2c_NDTR'[1] = u /\ Len(TXDR'[1]) = x - 1
    BY <1>3, <2>1
  <2>4. v = left' + h /\ x - 1 + u = left' /\ y < m
    <3> HIDE DEF x, y, u, v, h, m
    <3> QED
      BY <2>2
  <2> QED
    BY <2>3, <2>4
<1>8. I2cWriting'
  <2>1. I2cMasterUp("BUSY_TX", i2c_tx_done[1])' /\ I2cSlaveUp("BUSY_RX", i2c_rx_done[2])'
    BY <1>0, <1>1, <1>3 DEF I2cWrites, I2cWriting, I2cMasterUp, I2cMasterDma, I2cSlaveUp
  <2>2. bus' \notin {"free", "held"} /\ bus' \in {"start", "addressed", "data"}
    BY <1>3
  <2> QED
    BY <1>0, <1>3, <1>4, <1>7, <2>1, <2>2 DEF I2cWrites, I2cWriting, I2cUnused
<1>9. Told(\A k \in 1..Len(msg) : I2cToSlave(k) = msg[k])'
  <2>1. I2cSent(1)' = Tail(c) /\ I2cSent(1) = c /\ I2cHeld(2) = << >>
    <3>1. left' = 0 => TXDR'[1] = << >>
      <4>1. TXDR'[1] \in Seq(Bytes) /\ Len(TXDR'[1]) \in Nat
        BY <1>3, <1>6
      <4>2. left' = 0 => Len(TXDR'[1]) = 0
        BY <1>3, <1>6, <1>7, <4>1, SMTT(40)
      <4> QED
        BY <4>1, <4>2
    <3> QED
      BY <1>0, <1>3, <3>1 DEF I2cSent
  <2>2. /\ damaged = 0 => I2cWhole(a, << >>, c, msg, msg)
        /\ damaged = 1 => ~I2cWhole(a, << >>, c, msg, msg)
    BY <1>0, <2>1 DEF I2cWrites, Told, I2cToSlave, I2cWhole
  <2>3. /\ damaged \in 0..2 /\ c # << >> /\ a \in Seq(Bytes) /\ c \in Seq(Bytes) /\ msg \in Seq(Bytes)
        /\ Len(a) < Len(msg)
    BY <1>3, <1>6, <1>7, I2cFacts
  <2>4. damaged' = IF Head(c) # got /\ damaged < 2 THEN damaged + 1 ELSE damaged
    BY <1>2
  <2>5. /\ damaged' = 0 => I2cWhole(a, <<got>>, Tail(c), msg, msg)
        /\ damaged' = 1 => ~I2cWhole(a, <<got>>, Tail(c), msg, msg)
    <3> DEFINE d == damaged
               e == damaged'
    <3>1. d \in 0..2 /\ e = IF Head(c) # got /\ d < 2 THEN d + 1 ELSE d
      BY <2>3, <2>4
    <3>2. /\ d = 0 => I2cWhole(a, << >>, c, msg, msg)
          /\ d = 1 => ~I2cWhole(a, << >>, c, msg, msg)
      BY <2>2
    <3> HIDE DEF a, c, d, e
    <3>3. /\ e = 0 => I2cWhole(a, <<got>>, Tail(c), msg, msg)
          /\ e = 1 => ~I2cWhole(a, <<got>>, Tail(c), msg, msg)
      BY <2>3, <3>1, <3>2, I2cGetsThrough
    <3> QED
      BY <3>3 DEF d, e
  <2> QED
    BY <1>3, <2>1, <2>5 DEF Told, I2cToSlave, I2cWhole
<1> QED
  BY <1>5, <1>8, <1>9 DEF I2cWrites

(* The slave has acknowledged its address, or the transfer ends.           *)
LEMMA I2cWritingBus ==
  ASSUME I2cInv, pc = "wait1", ~I2cRefused, I2c!Address \/ I2c!Stop
  PROVE  ~I2cRefused' /\ I2cWrites'
<1> USE DEF I2c!Ports, I2c!hi2c1, I2c!hi2c2
<1>0. I2cWrites /\ ~NACKF[1] /\ ~AF /\ I2cSent(1) = TXDR[1]
  BY I2cWritesNow
<1>1. CASE I2c!Address
  <2>1. /\ bus = "start" /\ bus' = "addressed"
        /\ UNCHANGED <<pc, msg, verdict, i2c_tx_done, i2c_rx_done, i2c_buf, i2c_State, AF, STOPI, i2c_NDTR,
                       i2c_TCIF, DMAEN, TXDR, i2c_RDR, NACKF, STOPF, left, damaged>>
    BY <1>1 DEF I2c!Address, I2c!testVars, I2c!flags, I2c!dma, I2c!handles, I2c!isr, I2c!history
  <2>2. ~I2cRefused'
    BY <1>0, <2>1 DEF I2cRefused
  <2>3. I2cWriting'
    BY <1>0, <2>1 DEF I2cWrites, I2cWriting, I2cUnused, I2cHeld, I2cMasterUp, I2cMasterDma, I2cSlaveUp
  <2>4. Told(\A k \in 1..Len(msg) : I2cToSlave(k) = msg[k])'
    BY <1>0, <2>1, I2cToSlaveKept DEF I2cWrites, I2cSent
  <2> QED
    BY <2>2, <2>3, <2>4 DEF I2cWrites
<1>2. CASE I2c!Stop
  <2>1. bus = "data" /\ ~I2cUnused /\ I2cUnused' /\ STOPF'[1] /\ STOPF'[2]
    BY <1>2, I2cStops, I2cWritesNow DEF I2cUnused, I2c!Stop
  <2>2. I2cMasterUp("BUSY_TX", i2c_tx_done[1]) /\ I2cSlaveUp("BUSY_RX", i2c_rx_done[2])
    BY <1>0, <2>1 DEF I2cWrites, I2cWriting
  <2>3. i2c_RDR[2] = NoByte
    <3> SUFFICES ASSUME i2c_RDR[2] # NoByte PROVE FALSE
      OBVIOUS
    <3>1. Len(I2cHeld(2)) = 1
      BY I2cFacts
    <3>2. i2c_NDTR[2] = left + Len(I2cHeld(2)) /\ left = 0
      BY <1>0, <1>2, I2cStops DEF I2cWrites, I2cWriting
    <3>3. i2c_NDTR[2] > 0
      <4> DEFINE h == Len(I2cHeld(2))
                 n == i2c_NDTR[2]
      <4>1. h = 1 /\ n = left + h /\ left = 0
        BY <3>1, <3>2
      <4> HIDE DEF h, n
      <4>2. n > 0
        BY <4>1
      <4> QED
        BY <4>2 DEF n
    <3> QED
      BY <1>2, <2>2, <3>3, I2cStops, NoByteIsNone DEF I2c!Served, I2c!RxRequest, I2cSlaveUp
  <2>4. ~I2cRefused'
    BY <1>0, <1>2, I2cStops DEF I2cRefused
  <2>5. I2cWriting'
    <3>1. I2cMasterEnds("BUSY_TX", i2c_tx_done[1])' /\ I2cSlaveEnds("BUSY_RX", i2c_rx_done[2])'
      BY <1>2, <2>1, <2>2, I2cStops DEF I2cMasterUp, I2cMasterEnds, I2cMasterDma, I2cSlaveUp, I2cSlaveEnds
    <3> QED
      BY <1>0, <1>2, <2>1, <2>3, <3>1, I2cStops DEF I2cWrites, I2cWriting, I2cHeld
  <2>6. Told(\A k \in 1..Len(msg) : I2cToSlave(k) = msg[k])'
    BY <1>0, <1>2, I2cStops, I2cToSlaveKept DEF I2cWrites, I2cSent
  <2> QED
    BY <2>4, <2>5, <2>6 DEF I2cWrites
<1> QED
  BY <1>1, <1>2

(* The address, or a byte of the master, is not acknowledged.              *)
LEMMA I2cWritingRefused ==
  ASSUME I2cInv, pc = "wait1", ~I2cRefused, I2c!AddressLost \/ I2c!TransferRefused
  PROVE  I2cRefused' /\ I2cPhases'
<1> USE DEF I2c!Ports, I2c!hi2c1, I2c!hi2c2
<1>0. I2cWrites
  BY I2cWritesNow
<1>1. bus \in {"start", "data"} /\ ~I2cUnused
  BY DEF I2c!AddressLost, I2c!TransferRefused, I2c!Byte, I2cUnused
<1>2. I2c!Sender = 1 /\ I2cMasterUp("BUSY_TX", i2c_tx_done[1]) /\ I2cSlaveUp("BUSY_RX", i2c_rx_done[2])
  BY <1>0, <1>1, I2cWritesNow DEF I2cWrites, I2cWriting, I2c!Sender
<1>3. NACKF' = [NACKF EXCEPT ![1] = TRUE]
  BY <1>2 DEF I2c!AddressLost, I2c!TransferRefused
<1>4. I2cRefused'
  <2>1. NACKF \in [I2c!Ports -> BOOLEAN]
    BY DEF I2cInv, I2c!TypeOK
  <2> QED
    BY <1>3, <2>1 DEF I2cRefused
<1>5. UNCHANGED <<pc, msg, i2c_State, i2c_tx_done, i2c_buf, i2c_NDTR>>
  BY DEF I2c!AddressLost, I2c!TransferRefused, I2c!Byte, I2c!testVars, I2c!flags, I2c!dma, I2c!handles
<1> QED
  BY <1>0, <1>2, <1>4, <1>5 DEF I2cPhases, I2cWrites, I2cWriting, I2cMasterUp, I2cSlaveUp

LEMMA I2cWritingStep ==
  ASSUME I2cInv, pc = "wait1", ~I2cRefused, I2c!IrqStep \/ I2c!DmaStep \/ I2c!WireStep
  PROVE  I2cRest'
<1>0. I2cAtWork /\ pc' = "wait1" /\ ~I2cReturning'
  BY I2cBlame DEF I2cAtWork, I2cReturning
<1>1. ASSUME ~I2cRefused', I2cWrites' PROVE I2cRest'
  <2>1. I2cPhases'
    BY <1>0, <1>1 DEF I2cPhases, I2cWrites
  <2>2. I2cTexts'
    BY <1>0, <1>1, I2cTextsKept DEF I2cWrites
  <2> QED
    BY <1>0, <2>1, <2>2, I2cProgressKept DEF I2cRest
<1>2. CASE I2c!IrqStep
  BY <1>1, <1>2, I2cWritingIrq
<1>3. CASE I2c!DmaStep
  BY <1>1, <1>3, I2cWritingTx, I2cWritingRx DEF I2c!DmaStep
<1>4. CASE I2c!AddressLost \/ I2c!TransferRefused
  <2>1. I2cRefused' /\ I2cPhases'
    BY <1>4, I2cWritingRefused
  <2>2. I2cTexts'
    BY <1>0, <2>1, I2cTextsKept
  <2> QED
    BY <1>0, <2>1, <2>2, I2cProgressKept DEF I2cRest
<1>5. CASE I2c!Transfer \/ I2c!TransferFlipped \/ I2c!Address \/ I2c!Stop
  BY <1>1, <1>5, I2cWritingByte, I2cWritingBus
<1>6. CASE I2c!Hold \/ I2c!LetGo
  BY <1>6, I2cIdleBus
<1>7. ~I2c!IdleTransfer
  BY I2cWritesNow DEF I2c!IdleTransfer
<1> QED
  BY <1>2, <1>3, <1>4, <1>5, <1>6, <1>7 DEF I2c!WireStep

-----------------------------------------------------------------------------
(* The second phase: the master receives.                                  *)

I2cReads ==
  /\ I2cReading
  /\ pc = "transmit2" => bus \in {"start", "addressed"} /\ left = Len(msg) /\ I2cAtRest(I2c!hi2c2)
  /\ pc = "txdmaen" => /\ bus \in {"start", "addressed", "data"} /\ left = Len(msg)
                       /\ I2cArmed("BUSY_TX") /\ ~DMAEN[I2c!hi2c2]
  /\ pc = "wait2" => I2cAnswering
  /\ pc # "wait2" \/ ~I2cGivenUp => Told(\A k \in 1..Len(msg) : I2cToMaster(k) = msg[k])

LEMMA I2cReadsNow ==
  ASSUME I2cInv, pc \in {"transmit2", "txdmaen", "wait2"}, ~I2cRefused
  PROVE  /\ I2cReads /\ ~NACKF[1] /\ ~AF
         /\ i2c_State[1] \in {"BUSY_RX", "READY"} /\ i2c_State[2] \in {"BUSY_TX", "READY"}
         /\ bus # "refused"
         /\ ~I2cUnused => i2c_State[1] = "BUSY_RX"
         /\ pc = "wait2" /\ ~I2cUnused =>
              i2c_State[2] = "BUSY_TX" /\ DMAEN[2] /\ ~STOPF[2] /\ ~i2c_tx_done[2]
         /\ i2c_TCIF[2] \/ NACKF[2] \/ STOPF[2] \/ DMAEN[2] \/ TXDR[2] # << >> => pc = "wait2"
         /\ I2cUnused \/ bus = "released" \/ left = 0 => pc = "wait2"
         /\ bus = "data" \/ i2c_State[2] # "READY" => pc # "transmit2"
<1> USE DEF I2c!hi2c1, I2c!hi2c2
<1>1. /\ I2cReads /\ ~NACKF[1] /\ ~AF
  <2>1. I2cReturning <=> pc # "wait2" \/ ~I2cGivenUp
    BY DEF I2cReturning
  <2> QED
    BY <2>1 DEF I2cInv, I2cPhases, I2cTexts, I2cReads, I2cRefused
<1>2. left = 0 => pc = "wait2"
  <2>1. msg # << >> /\ Len(msg) \in Nat /\ msg \in Seq(Bytes)
    BY I2cFacts DEF I2cInv, I2cProgress
  <2>2. Len(msg) # 0
    BY <2>1
  <2> QED
    BY <1>1, <2>2 DEF I2cReads
<1>3. bus # "refused" /\ (~I2cUnused => i2c_State[1] = "BUSY_RX")
  BY <1>1 DEF I2cReads, I2cReading, I2cUnused, I2cMasterUp
<1>4. pc = "wait2" /\ ~I2cUnused =>
        i2c_State[2] = "BUSY_TX" /\ DMAEN[2] /\ ~STOPF[2] /\ ~i2c_tx_done[2]
  BY <1>1 DEF I2cReads, I2cAnswering, I2cSlaveUp
<1>5. /\ i2c_TCIF[2] \/ NACKF[2] \/ STOPF[2] \/ DMAEN[2] \/ TXDR[2] # << >> => pc = "wait2"
      /\ I2cUnused \/ bus = "released" => pc = "wait2"
      /\ bus = "data" \/ i2c_State[2] # "READY" => pc # "transmit2"
  BY <1>1 DEF I2cReads, I2cAtRest, I2cQuiet, I2cArmed, I2cUnused
<1> QED
  BY <1>1, <1>2, <1>3, <1>4, <1>5, I2cWhere

LEMMA I2cToMasterKept ==
  ASSUME Told(\A k \in 1..Len(msg) : I2cToMaster(k) = msg[k]),
         UNCHANGED <<msg, damaged>>, i2c_buf' = i2c_buf, i2c_RDR'[1] = i2c_RDR[1],
         I2cSent(2)' = I2cSent(2)
  PROVE  Told(\A k \in 1..Len(msg) : I2cToMaster(k) = msg[k])'
<1>1. \A k \in 1..Len(msg) : I2cToMaster(k)' = I2cToMaster(k)
  BY DEF I2cToMaster, I2cHeld, I2c!hi2c1, I2c!hi2c2
<1> QED
  BY <1>1 DEF Told

LEMMA I2cReadingIrq ==
  ASSUME I2cInv, pc \in {"transmit2", "txdmaen", "wait2"}, ~I2cRefused, I2c!IrqStep
  PROVE  ~I2cRefused' /\ I2cReads'
<1> USE DEF I2c!Ports, I2c!hi2c1, I2c!hi2c2
<1>0. I2cReads /\ ~NACKF[1] /\ ~AF
  BY I2cReadsNow
<1>00. I2cSent(2)' = IF left' = 0 THEN << >> ELSE TXDR'[2]
  BY DEF I2cSent
<1>1. ASSUME NEW p \in I2c!Ports, I2c!DmaCplt(p) PROVE ~I2cRefused' /\ I2cReads'
  <2>1. ~I2cRefused'
    BY <1>0, <1>1, I2cDmaEnds DEF I2cRefused
  <2>2. i2c_State[1] = "READY" => p = 2
    BY <1>0, <1>1, I2cDmaEnds DEF I2cReads, I2cReading, I2cMasterEnds, I2cMasterUp
  <2>3. p = 2 => pc = "wait2"
    BY <1>1, I2cDmaEnds, I2cReadsNow
  <2>4. I2cReading'
    <3>1. I2cMasterDma => I2cMasterDma'
      BY <1>1, I2cDmaEnds DEF I2cMasterDma
    <3>2. /\ I2cMasterUp("BUSY_RX", i2c_rx_done[1]) => I2cMasterUp("BUSY_RX", i2c_rx_done[1])'
          /\ I2cMasterEnds("BUSY_RX", i2c_rx_done[1]) => I2cMasterEnds("BUSY_RX", i2c_rx_done[1])'
      BY <1>1, <2>2, <3>1, I2cDmaEnds DEF I2cMasterUp, I2cMasterEnds
    <3> QED
      BY <1>0, <1>1, <3>2, I2cDmaEnds DEF I2cReads, I2cReading, I2cUnused, I2cHeld
  <2>5. i2c_TCIF'[2] => i2c_TCIF[2]
    BY <1>1, I2cDmaEnds
  <2>6. pc = "wait2" => I2cAnswering'
    BY <1>0, <1>1, <2>5, I2cDmaEnds DEF I2cReads, I2cAnswering, I2cUnused, I2cSlaveUp, I2cSlaveEnds
  <2>7. /\ I2cAtRest(2) => I2cAtRest(2)'
        /\ I2cArmed("BUSY_TX") => I2cArmed("BUSY_TX")'
    BY <1>1, <2>5, I2cDmaEnds DEF I2cAtRest, I2cArmed, I2cQuiet
  <2>8. I2cGivenUp' <=> I2cGivenUp
    BY <1>1, I2cDmaEnds DEF I2cGivenUp, I2cUnused
  <2>9. pc' # "wait2" \/ ~I2cGivenUp' => Told(\A k \in 1..Len(msg) : I2cToMaster(k) = msg[k])'
    BY <1>0, <1>00, <1>1, <2>8, I2cDmaEnds, I2cToMasterKept DEF I2cReads, I2cSent
  <2> QED
    BY <1>0, <1>1, <2>1, <2>4, <2>6, <2>7, <2>9, I2cDmaEnds DEF I2cReads
<1>2. CASE I2c!AddrCplt
  <2>1. /\ bus = "addressed" /\ bus' = "data" /\ i2c_State[2] # "READY"
        /\ UNCHANGED <<pc, msg, verdict, i2c_tx_done, i2c_rx_done, i2c_buf, i2c_State, AF, STOPI, i2c_NDTR,
                       i2c_TCIF, DMAEN, TXDR, i2c_RDR, NACKF, STOPF, left, damaged>>
    BY <1>2 DEF I2c!AddrCplt, I2c!AddrPending, I2c!testVars, I2c!flags, I2c!dma, I2c!handles, I2c!isr, I2c!history
  <2>2. ~I2cRefused'
    BY <1>0, <2>1 DEF I2cRefused
  <2>3. I2cReading'
    BY <1>0, <2>1 DEF I2cReads, I2cReading, I2cUnused, I2cHeld, I2cMasterUp, I2cMasterDma
  <2>4. pc = "txdmaen" => I2cArmed("BUSY_TX")' /\ ~DMAEN'[2]
    BY <1>0, <2>1 DEF I2cReads, I2cArmed, I2cQuiet
  <2>5. pc = "wait2" => I2cAnswering'
    BY <1>0, <2>1 DEF I2cReads, I2cAnswering, I2cUnused, I2cSlaveUp
  <2>6. ~I2cGivenUp
    BY <2>1 DEF I2cGivenUp, I2cUnused
  <2>7. Told(\A k \in 1..Len(msg) : I2cToMaster(k) = msg[k])'
    BY <1>0, <1>00, <2>1, <2>6, I2cToMasterKept DEF I2cReads, I2cSent
  <2>8. pc # "transmit2"
    BY <2>1, I2cReadsNow
  <2> QED
    BY <1>0, <2>1, <2>2, <2>3, <2>4, <2>5, <2>7, <2>8 DEF I2cReads
<1>3. CASE I2c!MasterCplt
  <2>1. ~I2cRefused'
    BY <1>0, <1>3, I2cMasterIsDone DEF I2cRefused
  <2>2. I2cUnused /\ left = 0 /\ I2cMasterEnds("BUSY_RX", i2c_rx_done[1]) /\ pc = "wait2"
    BY <1>0, <1>3, I2cMasterIsDone, I2cReadsNow DEF I2cReads, I2cReading, I2cMasterUp
  <2>3. i2c_State[1] = "BUSY_RX" /\ ~DMAEN[1] /\ ~i2c_TCIF[1] /\ TXDR[1] = << >>
    BY <1>0, <1>3, <2>2, I2cMasterIsDone DEF I2cReads, I2cReading, I2cMasterEnds, I2cMasterDma
  <2>4. I2cReading'
    <3>1. I2cMasterEnds("BUSY_RX", i2c_rx_done[1])'
      BY <1>3, <2>3, I2cMasterIsDone DEF I2cMasterEnds
    <3>2. TXDR'[1] = TXDR[1]
      BY <1>3, <2>3, I2cMasterIsDone
    <3> QED
      BY <1>0, <1>3, <2>2, <3>1, <3>2, I2cMasterIsDone DEF I2cReads, I2cReading, I2cUnused, I2cHeld
  <2>5. I2cAnswering'
    BY <1>0, <1>3, <2>2, I2cMasterIsDone DEF I2cReads, I2cAnswering, I2cUnused, I2cSlaveEnds
  <2>6. I2cGivenUp' <=> I2cGivenUp
    BY <1>3, I2cMasterIsDone DEF I2cGivenUp, I2cUnused
  <2>7. ~I2cGivenUp' => Told(\A k \in 1..Len(msg) : I2cToMaster(k) = msg[k])'
    BY <1>0, <1>00, <1>3, <2>6, I2cMasterIsDone, I2cToMasterKept DEF I2cReads, I2cSent
  <2> QED
    BY <1>3, <2>1, <2>2, <2>4, <2>5, <2>7, I2cMasterIsDone DEF I2cReads
<1>4. CASE I2c!SlaveCplt
  <2>1. ~I2cRefused'
    BY <1>0, <1>4, I2cSlaveIsDone DEF I2cRefused
  <2>2. pc = "wait2" /\ I2cUnused /\ left = 0
    BY <1>0, <1>4, I2cSlaveIsDone, I2cReadsNow DEF I2cReads, I2cReading
  <2>3. i2c_State[2] = "BUSY_TX" /\ ~i2c_tx_done[2]
    BY <1>0, <1>4, <2>2, I2cSlaveIsDone DEF I2cReads, I2cAnswering, I2cSlaveEnds
  <2>4. I2cReading'
    <3>1. I2cMasterDma => I2cMasterDma'
      BY <1>4, I2cSlaveIsDone DEF I2cMasterDma
    <3>2. I2cMasterEnds("BUSY_RX", i2c_rx_done[1])'
      <4>1. I2cMasterEnds("BUSY_RX", i2c_rx_done[1]) /\ (i2c_rx_done'[1] <=> i2c_rx_done[1])
        BY <1>0, <1>4, <2>2, <2>3, I2cSlaveIsDone DEF I2cReads, I2cReading
      <4> QED
        BY <1>4, <3>1, <4>1, I2cSlaveIsDone DEF I2cMasterEnds
    <3> QED
      BY <1>0, <1>4, <2>2, <3>2, I2cSlaveIsDone DEF I2cReads, I2cReading, I2cUnused, I2cHeld
  <2>5. I2cAnswering'
    BY <1>4, <2>2, I2cSlaveIsDone DEF I2cAnswering, I2cUnused, I2cSlaveEnds
  <2>6. ~I2cGivenUp' => ~I2cGivenUp
    <3>1. CASE i2c_NDTR[2] = 0
      BY <2>3, <3>1 DEF I2cGivenUp
    <3>2. CASE i2c_NDTR[2] # 0
      <4>1. ~i2c_tx_done'[2] /\ i2c_State'[2] = "READY" /\ I2cUnused'
        BY <1>4, <2>2, <2>3, <3>2, I2cSlaveIsDone DEF I2cUnused
      <4> QED
        BY <4>1 DEF I2cGivenUp
    <3> QED
      BY <3>1, <3>2
  <2>7. ~I2cGivenUp' => Told(\A k \in 1..Len(msg) : I2cToMaster(k) = msg[k])'
    BY <1>0, <1>00, <1>4, <2>2, <2>6, I2cSlaveIsDone, I2cToMasterKept DEF I2cReads, I2cSent
  <2> QED
    BY <1>4, <2>1, <2>2, <2>4, <2>5, <2>7, I2cSlaveIsDone DEF I2cReads
<1>5. ~I2c!MasterNack
  BY <1>0 DEF I2c!MasterNack, I2c!NackPending
<1>6. CASE I2c!SlaveNack
  <2>1. /\ NACKF[2] /\ NACKF' = [NACKF EXCEPT ![2] = FALSE]
        /\ UNCHANGED <<pc, msg, verdict, i2c_tx_done, i2c_rx_done, i2c_buf, i2c_State, AF, STOPI, i2c_NDTR,
                       i2c_TCIF, DMAEN, TXDR, i2c_RDR, STOPF, bus, left, damaged>>
    BY <1>6 DEF I2c!SlaveNack, I2c!NackPending, I2c!testVars, I2c!flags, I2c!dma, I2c!handles, I2c!wires, I2c!history
  <2>2. pc = "wait2"
    BY <2>1, I2cReadsNow
  <2>3. ~NACKF'[2] /\ NACKF'[1] = NACKF[1]
    <3>1. NACKF \in [I2c!Ports -> BOOLEAN]
      BY DEF I2cInv, I2c!TypeOK
    <3> QED
      BY <2>1, <3>1
  <2>4. ~I2cRefused'
    BY <1>0, <2>1, <2>3 DEF I2cRefused
  <2>5. I2cReading'
    BY <1>0, <2>1 DEF I2cReads, I2cReading, I2cUnused, I2cHeld, I2cMasterUp, I2cMasterEnds, I2cMasterDma
  <2>6. I2cAnswering'
    BY <1>0, <2>1, <2>2, <2>3 DEF I2cReads, I2cAnswering, I2cUnused, I2cSlaveUp, I2cSlaveEnds
  <2>7. I2cGivenUp' <=> I2cGivenUp
    BY <2>1 DEF I2cGivenUp, I2cUnused
  <2>8. ~I2cGivenUp' => Told(\A k \in 1..Len(msg) : I2cToMaster(k) = msg[k])'
    BY <1>0, <1>00, <2>1, <2>7, I2cToMasterKept DEF I2cReads, I2cSent
  <2> QED
    BY <2>1, <2>2, <2>4, <2>5, <2>6, <2>8 DEF I2cReads
<1> QED
  BY <1>1, <1>2, <1>3, <1>4, <1>5, <1>6 DEF I2c!IrqStep

LEMMA I2cReadingTx ==
  ASSUME I2cInv, pc \in {"transmit2", "txdmaen", "wait2"}, ~I2cRefused,
         NEW p \in I2c!Ports, I2c!TxTransfer(p)
  PROVE  ~I2cRefused' /\ I2cReads'
<1> USE DEF I2c!Ports, I2c!hi2c1, I2c!hi2c2
<1>0. I2cReads /\ ~NACKF[1] /\ ~AF
  BY I2cReadsNow
<1>1. p = 2 /\ pc = "wait2" /\ bus = "data"
  <2>1. p = 2
    BY I2cTakes, I2cReadsNow
  <2>2. DMAEN[2] /\ bus = "data"
    BY <2>1, I2cTakes
  <2> QED
    BY <2>1, <2>2, I2cReadsNow
<1>2. ~I2cRefused'
  BY <1>0, I2cTakes DEF I2cRefused
<1>3. /\ i2c_NDTR'[1] = i2c_NDTR[1] /\ TXDR'[1] = TXDR[1] /\ i2c_TCIF'[1] = i2c_TCIF[1]
      /\ i2c_NDTR'[2] = i2c_NDTR[2] - 1 /\ (i2c_TCIF'[2] <=> i2c_NDTR[2] = 1) /\ i2c_NDTR[2] > 0
      /\ Len(TXDR'[2]) + i2c_NDTR'[2] = Len(TXDR[2]) + i2c_NDTR[2]
      /\ UNCHANGED <<pc, msg, verdict, i2c_tx_done, i2c_rx_done, i2c_buf, i2c_State, AF, STOPI, DMAEN,
                     i2c_RDR, NACKF, STOPF, bus, left, damaged>>
  BY <1>1, I2cTakes
<1>4. ~I2cUnused /\ I2cSlaveUp("BUSY_TX", i2c_tx_done[2]) /\ Len(TXDR[2]) + i2c_NDTR[2] = left
  BY <1>0, <1>1 DEF I2cReads, I2cAnswering, I2cUnused
<1>5. I2cReading'
  <2>1. I2cMasterUp("BUSY_RX", i2c_rx_done[1])'
    BY <1>0, <1>3, <1>4 DEF I2cReads, I2cReading, I2cMasterUp, I2cMasterDma
  <2> QED
    BY <1>0, <1>3, <1>4, <2>1 DEF I2cReads, I2cReading, I2cUnused, I2cHeld
<1>6. I2cAnswering'
  <2>1. i2c_TCIF'[2] => i2c_NDTR'[2] = 0
    <3>1. i2c_NDTR[2] \in Nat
      BY I2cFacts
    <3> QED
      BY <1>3, <3>1
  <2>2. I2cSlaveUp("BUSY_TX", i2c_tx_done[2])'
    BY <1>3, <1>4 DEF I2cSlaveUp
  <2> QED
    BY <1>1, <1>3, <1>4, <2>1, <2>2 DEF I2cAnswering, I2cUnused
<1>7. ~I2cGivenUp
  BY <1>1 DEF I2cGivenUp, I2cUnused
<1>8. Told(\A k \in 1..Len(msg) : I2cToMaster(k) = msg[k])'
  <2> DEFINE a == i2c_buf[1]
             b == I2cHeld(1)
             c == TXDR[2]
             src == i2c_buf[2]
  <2>1. PICK byte \in Bytes :
          /\ TXDR'[2] = Append(c, byte)
          /\ LET i == Len(msg) - i2c_NDTR[2] + 1
             IN  i \in DOMAIN src => byte = src[i]
    BY <1>1, I2cTakes DEF I2c!Source
  <2>2. /\ a \in Seq(Bytes) /\ b \in Seq(Bytes) /\ c \in Seq(Bytes) /\ src \in Seq(Bytes) /\ Len(msg) \in Nat
        /\ Len(a) \in Nat /\ Len(b) \in Nat /\ Len(c) \in Nat
        /\ i2c_NDTR[1] \in Nat /\ i2c_NDTR[2] \in Nat /\ left \in Nat
    <3>1. /\ a \in Seq(Bytes) /\ b \in Seq(Bytes) /\ c \in Seq(Bytes) /\ src \in Seq(Bytes) /\ Len(msg) \in Nat
          /\ i2c_NDTR[1] \in Nat /\ i2c_NDTR[2] \in Nat /\ left \in Nat
      BY I2cFacts
    <3> QED
      BY <3>1
  <2>3. /\ Len(a) + i2c_NDTR[1] = Len(msg) /\ i2c_NDTR[1] = left + Len(b)
        /\ Len(c) + i2c_NDTR[2] = left /\ i2c_NDTR[2] > 0 /\ Len(src) = Len(msg)
    BY <1>0, <1>1, <1>3, <1>4 DEF I2cReads, I2cReading, I2cInv, I2cProgress
  <2> DEFINE i == Len(msg) - i2c_NDTR[2] + 1
             here == Len(a) + Len(b) + Len(c) + 1
  <2>4. i = here /\ here \in 1..Len(src)
    <3> DEFINE la == Len(a)
               lb == Len(b)
               lc == Len(c)
               m == Len(msg)
               u == i2c_NDTR[1]
               v == i2c_NDTR[2]
               s == Len(src)
    <3>1. /\ la + u = m /\ u = left + lb /\ lc + v = left /\ v > 0 /\ s = m
          /\ la \in Nat /\ lb \in Nat /\ lc \in Nat /\ m \in Nat /\ u \in Nat /\ v \in Nat /\ left \in Nat
      BY <2>2, <2>3
    <3> HIDE DEF la, lb, lc, m, u, v, s
    <3>2. m - v + 1 = la + lb + lc + 1 /\ la + lb + lc + 1 \in 1..s
      BY <3>1
    <3> QED
      BY <3>2 DEF la, lb, lc, m, v, s
  <2> HIDE DEF a, b, c, src, i
  <2>5. byte = src[here]
    <3>1. DOMAIN src = 1..Len(src)
      BY <2>2
    <3>2. i \in DOMAIN src => byte = src[i]
      BY <2>1 DEF i, src
    <3> HIDE DEF here
    <3> QED
      BY <2>4, <3>1, <3>2
  <2>6. \A k \in Nat \ {0} : OnTheWay(a, b, Append(c, byte), src, k) = OnTheWay(a, b, c, src, k)
    BY <2>2, <2>5, ByteQueued
  <2>7. \A k \in 1..Len(msg) : I2cToMaster(k)' = I2cToMaster(k)
    <3>1. I2cSent(2)' = Append(c, byte) /\ I2cHeld(1)' = b /\ i2c_buf'[1] = a /\ I2cSent(2) = c
          /\ i2c_buf'[2] = src
      <4>1. left # 0
        <5> DEFINE lc == Len(c)
                   v == i2c_NDTR[2]
        <5>1. lc \in Nat /\ v \in Nat /\ v > 0 /\ lc + v = left
          BY <2>2, <2>3
        <5> HIDE DEF lc, v
        <5> QED
          BY <5>1
      <4> QED
        BY <1>3, <2>1, <4>1 DEF I2cSent, I2cHeld, a, b, c, src
    <3>2. \A k \in 1..Len(msg) : k \in Nat \ {0}
      BY <2>2
    <3> QED
      BY <1>3, <2>6, <3>1, <3>2 DEF I2cToMaster, a, b, src
  <2> QED
    BY <1>0, <1>3, <1>7, <2>7 DEF I2cReads, Told
<1> QED
  BY <1>1, <1>2, <1>3, <1>5, <1>6, <1>8 DEF I2cReads

LEMMA I2cReadingRx ==
  ASSUME I2cInv, pc \in {"transmit2", "txdmaen", "wait2"}, ~I2cRefused,
         NEW p \in I2c!Ports, I2c!RxTransfer(p)
  PROVE  ~I2cRefused' /\ I2cReads'
<1> USE DEF I2c!Ports, I2c!hi2c1, I2c!hi2c2
<1>0. I2cReads /\ ~NACKF[1] /\ ~AF
  BY I2cReadsNow
<1>1. p = 1
  BY I2cStores, I2cReadsNow
<1>2. ~I2cRefused'
  BY <1>0, I2cStores DEF I2cRefused
<1>3. ~I2cUnused /\ i2c_RDR[1] # NoByte /\ I2cHeld(1) = <<i2c_RDR[1]>> /\ I2cHeld(1)' = << >>
  BY <1>0, <1>1, I2cStores, NoByteIsNone DEF I2cReads, I2cReading, I2cHeld
<1>4. /\ i2c_NDTR'[2] = i2c_NDTR[2] /\ i2c_RDR'[2] = i2c_RDR[2] /\ i2c_TCIF'[2] = i2c_TCIF[2]
      /\ i2c_buf'[2] = i2c_buf[2]
      /\ Len(i2c_buf'[1]) + i2c_NDTR'[1] = Len(msg)
      /\ UNCHANGED <<pc, msg, verdict, i2c_tx_done, i2c_rx_done, i2c_State, AF, STOPI, DMAEN, TXDR,
                     NACKF, STOPF, bus, left, damaged>>
  BY <1>1, I2cStores
<1>5. i2c_NDTR'[1] = left' + Len(I2cHeld(1)')
  <2>1. /\ left \in Nat /\ i2c_NDTR'[1] = i2c_NDTR[1] - 1 /\ i2c_NDTR[1] \in Nat /\ left' = left
    BY <1>1, <1>4, I2cStores, I2cFacts
  <2>2. i2c_NDTR[1] = left + Len(I2cHeld(1)) /\ Len(I2cHeld(1)) = 1 /\ Len(I2cHeld(1)') = 0
    BY <1>0, <1>3, I2cFacts DEF I2cReads, I2cReading
  <2> DEFINE h == Len(I2cHeld(1))
             g == Len(I2cHeld(1)')
             u == i2c_NDTR[1]
  <2>3. left \in Nat /\ u \in Nat /\ u = left + h /\ h = 1 /\ g = 0 /\ left' = left
    BY <2>1, <2>2
  <2>4. u - 1 = left' + g
    <3> HIDE DEF h, g, u
    <3> QED
      BY <2>3
  <2> QED
    BY <2>1, <2>4
<1>6. I2cReading'
  <2>1. I2cMasterDma'
    <3>1. I2cMasterDma /\ i2c_NDTR[1] > 0 /\ i2c_NDTR[1] \in Nat
      BY <1>0, <1>1, <1>3, I2cStores, I2cFacts DEF I2cReads, I2cReading, I2cMasterUp
    <3>2. DMAEN[1] /\ ~i2c_TCIF[1] /\ ~STOPI
      BY <3>1 DEF I2cMasterDma
    <3>3. i2c_NDTR'[1] = i2c_NDTR[1] - 1 /\ (i2c_TCIF'[1] <=> i2c_NDTR[1] = 1)
      BY <1>1, I2cStores
    <3> QED
      BY <1>4, <3>1, <3>2, <3>3 DEF I2cMasterDma
  <2>2. I2cMasterUp("BUSY_RX", i2c_rx_done[1])'
    BY <1>0, <1>3, <1>4, <2>1 DEF I2cReads, I2cReading, I2cMasterUp
  <2> QED
    BY <1>0, <1>3, <1>4, <1>5, <2>2 DEF I2cReads, I2cReading, I2cUnused
<1>7. /\ I2cAtRest(2) => I2cAtRest(2)'
      /\ I2cArmed("BUSY_TX") => I2cArmed("BUSY_TX")'
      /\ I2cAnswering => I2cAnswering'
      /\ I2cGivenUp' <=> I2cGivenUp
  BY <1>4 DEF I2cAtRest, I2cArmed, I2cQuiet, I2cAnswering, I2cUnused, I2cSlaveUp, I2cSlaveEnds, I2cGivenUp
<1>8. \A k \in 1..Len(msg) : I2cToMaster(k)' = I2cToMaster(k)
  <2> DEFINE a == i2c_buf[1]
             b == I2cHeld(1)
             c == I2cSent(2)
             src == i2c_buf[2]
  <2>1. /\ a \in Seq(Bytes) /\ b \in Seq(Bytes) /\ c \in Seq(Bytes) /\ b # << >> /\ Len(msg) \in Nat
        /\ Head(b) = i2c_RDR[1] /\ Tail(b) = << >>
    <3>1. /\ a \in Seq(Bytes) /\ b \in Seq(Bytes) /\ c \in Seq(Bytes) /\ Len(msg) \in Nat
          /\ b = <<i2c_RDR[1]>> /\ i2c_RDR[1] \in Bytes
      BY <1>1, <1>3, I2cStores, I2cFacts
    <3> QED
      BY <3>1, OneByte
  <2>2. /\ I2cSent(2)' = c /\ I2cHeld(1)' = Tail(b) /\ i2c_buf'[1] = Append(a, Head(b)) /\ i2c_buf'[2] = src
    BY <1>1, <1>3, <1>4, <2>1, I2cStores DEF I2cSent
  <2> HIDE DEF a, b, c, src
  <2>3. \A k \in Nat \ {0} : OnTheWay(Append(a, Head(b)), Tail(b), c, src, k) = OnTheWay(a, b, c, src, k)
    BY <2>1, ByteRead
  <2>4. \A k \in 1..Len(msg) : k \in Nat \ {0}
    BY <2>1
  <2> QED
    BY <1>4, <2>2, <2>3, <2>4 DEF I2cToMaster, a, b, c, src
<1>9. pc # "wait2" \/ ~I2cGivenUp' => Told(\A k \in 1..Len(msg) : I2cToMaster(k) = msg[k])'
  BY <1>0, <1>4, <1>7, <1>8 DEF I2cReads, Told
<1> QED
  BY <1>0, <1>2, <1>4, <1>6, <1>7, <1>9 DEF I2cReads

(* A byte of the slave gets to the master, acknowledged or not.            *)
LEMMA I2cReadingMoves ==
  ASSUME I2cInv, pc \in {"transmit2", "txdmaen", "wait2"}, ~I2cRefused,
         NEW got \in Bytes, I2c!Byte(got), left' = left - 1, UNCHANGED AF,
         bus' \in {"data", "released"}, NACKF'[1] = NACKF[1],
         damaged' = IF Head(TXDR[2]) # got /\ damaged < 2 THEN damaged + 1 ELSE damaged
  PROVE  ~I2cRefused' /\ I2cReads'
<1> USE DEF I2c!Ports, I2c!hi2c1, I2c!hi2c2
<1>0. I2cReads /\ ~NACKF[1] /\ ~AF
  BY I2cReadsNow
<1>1. /\ I2c!Sender = 2 /\ I2c!Receiver = 1 /\ ~I2cUnused /\ bus = "data" /\ pc = "wait2"
      /\ i2c_State[2] = "BUSY_TX" /\ ~i2c_tx_done[2]
  <2>1. bus = "data"
    BY DEF I2c!Byte
  <2>2. ~I2cUnused
    BY <2>1 DEF I2cUnused
  <2>3. I2c!Sender = 2 /\ I2c!Receiver = 1
    BY <2>2, I2cReadsNow DEF I2c!Sender, I2c!Receiver
  <2>4. pc = "wait2"
    <3>1. TXDR[2] # << >>
      BY <2>3 DEF I2c!Byte
    <3> QED
      BY <3>1, I2cReadsNow
  <2> QED
    BY <2>1, <2>2, <2>3, <2>4, I2cReadsNow
<1>2. /\ left > 0 /\ left \in Nat /\ left' \in Nat
      /\ TXDR[2] # << >> /\ i2c_RDR[1] = NoByte /\ I2cHeld(1) = << >>
      /\ TXDR'[2] = Tail(TXDR[2]) /\ TXDR'[1] = TXDR[1]
      /\ Len(TXDR'[2]) = Len(TXDR[2]) - 1
      /\ i2c_RDR'[1] = got /\ i2c_RDR'[2] = i2c_RDR[2] /\ I2cHeld(1)' = <<got>>
      /\ UNCHANGED <<pc, msg, verdict, i2c_tx_done, i2c_rx_done, i2c_buf, i2c_State, STOPI, i2c_NDTR,
                     i2c_TCIF, DMAEN, STOPF>>
  <2>1. left \in Nat
    BY I2cFacts
  <2>2. 1 \in I2c!Ports /\ 2 \in I2c!Ports /\ 1 # 2
    OBVIOUS
  <2>3. got # NoByte
    BY NoByteIsNone
  <2>4. /\ left > 0 /\ TXDR[2] # << >> /\ i2c_RDR[1] = NoByte
        /\ TXDR'[2] = Tail(TXDR[2]) /\ Len(TXDR'[2]) = Len(TXDR[2]) - 1
        /\ i2c_RDR'[1] = got
        /\ \A q \in I2c!Ports \ {2} : TXDR'[q] = TXDR[q]
        /\ \A q \in I2c!Ports \ {1} : i2c_RDR'[q] = i2c_RDR[q]
        /\ UNCHANGED <<pc, msg, verdict, i2c_tx_done, i2c_rx_done, i2c_buf, i2c_State, AF, STOPI, i2c_NDTR,
                       i2c_TCIF, DMAEN, STOPF>>
    BY <1>1, <2>2, I2cMoves
  <2>5. left' \in Nat
    BY <2>1, <2>4
  <2> QED
    BY <2>1, <2>2, <2>3, <2>4, <2>5 DEF I2cHeld
<1>3. ~I2cRefused'
  BY <1>0 DEF I2cRefused
<1> DEFINE a == i2c_buf[1]
           c == TXDR[2]
           src == i2c_buf[2]
           x == Len(c)
           y == Len(a)
           u == i2c_NDTR[1]
           v == i2c_NDTR[2]
           m == Len(msg)
           h == Len(I2cHeld(1)')
<1>4. /\ a \in Seq(Bytes) /\ c \in Seq(Bytes) /\ src \in Seq(Bytes) /\ msg \in Seq(Bytes)
      /\ x \in Nat /\ y \in Nat /\ u \in Nat /\ v \in Nat /\ m \in Nat /\ x <= 2
  BY I2cFacts
<1>5. y + u = m /\ x + v = left /\ u = left /\ h = 1
  <2>1. y + u = m /\ u = left + Len(I2cHeld(1))
    BY <1>0 DEF I2cReads, I2cReading
  <2>2. x + v = left
    BY <1>0, <1>1 DEF I2cReads, I2cAnswering, I2cUnused
  <2>3. Len(I2cHeld(1)) = 0 /\ h = 1
    BY <1>2
  <2>4. u = left
    BY <1>2, <2>1, <2>3
  <2> QED
    BY <2>1, <2>2, <2>3, <2>4
<1>6. /\ i2c_NDTR'[1] = u /\ i2c_NDTR'[2] = v /\ Len(TXDR'[2]) = x - 1
      /\ u = left' + h /\ x - 1 + v = left' /\ y < m /\ x - 1 <= 1
  <2>1. i2c_NDTR'[1] = u /\ i2c_NDTR'[2] = v /\ Len(TXDR'[2]) = x - 1
    BY <1>2
  <2>2. u = left' + h /\ x - 1 + v = left' /\ y < m /\ x - 1 <= 1
    <3> HIDE DEF a, c, src, x, y, u, v, m, h
    <3> QED
      BY <1>2, <1>4, <1>5
  <2> QED
    BY <2>1, <2>2
<1>7. I2cReading'
  <2>1. I2cMasterUp("BUSY_RX", i2c_rx_done[1])'
    BY <1>0, <1>1, <1>2 DEF I2cReads, I2cReading, I2cMasterUp, I2cMasterDma
  <2>2. bus' \notin {"free", "held", "refused"}
    OBVIOUS
  <2>3. Len(i2c_buf'[1]) + i2c_NDTR'[1] = Len(msg')
    BY <1>2, <1>5
  <2>4. i2c_NDTR'[1] = left' + Len(I2cHeld(1)')
    BY <1>6
  <2> HIDE DEF a, c, src, x, y, u, v, m, h
  <2> QED
    BY <1>0, <1>2, <2>1, <2>2, <2>3, <2>4 DEF I2cReads, I2cReading, I2cUnused
<1>8. I2cAnswering'
  <2>1. I2cSlaveUp("BUSY_TX", i2c_tx_done[2])'
    BY <1>0, <1>1, <1>2 DEF I2cReads, I2cAnswering, I2cSlaveUp
  <2>2. bus' \notin {"free", "held", "refused"}
    OBVIOUS
  <2>3. Len(TXDR'[2]) + i2c_NDTR'[2] = left' /\ Len(TXDR'[2]) <= 1 /\ left' >= left'
    BY <1>2, <1>6
  <2>4. i2c_TCIF'[2] => i2c_NDTR'[2] = 0
    BY <1>0, <1>1, <1>2 DEF I2cReads, I2cAnswering
  <2> HIDE DEF a, c, src, x, y, u, v, m, h
  <2> QED
    BY <2>1, <2>2, <2>3, <2>4 DEF I2cAnswering, I2cUnused
<1>9. ~I2cGivenUp
  BY <1>1 DEF I2cGivenUp, I2cUnused
<1>10. ~I2cGivenUp' => Told(\A k \in 1..Len(msg) : I2cToMaster(k) = msg[k])'
  <2>1. SUFFICES ASSUME ~I2cGivenUp'
                 PROVE  Told(\A k \in 1..Len(msg) : I2cToMaster(k) = msg[k])'
    OBVIOUS
  <2>2. I2cSent(2)' = Tail(c) /\ I2cSent(2) = c
    <3>1. left' = 0 => TXDR'[2] = << >>
      <4>1. TXDR'[2] \in Seq(Bytes)
        BY <1>2, <1>4
      <4>2. left' = 0 => x - 1 = 0
        <5> HIDE DEF a, c, src, x, y, u, v, m, h
        <5> QED
          BY <1>2, <1>4, <1>5, <1>6
      <4>3. left' = 0 => Len(TXDR'[2]) = 0
        BY <1>6, <4>2
      <4> QED
        BY <4>1, <4>3, NoBytes
    <3>2. TXDR'[2] = Tail(c) /\ left # 0
      BY <1>2
    <3> HIDE DEF a, c, src, x, y, u, v, m, h
    <3>3. I2cSent(2)' = Tail(c)
      BY <3>1, <3>2 DEF I2cSent
    <3>4. I2cSent(2) = c
      BY <3>2 DEF I2cSent, c
    <3> QED
      BY <3>3, <3>4
  <2>3. /\ damaged = 0 => I2cWhole(a, << >>, c, src, msg)
        /\ damaged = 1 => ~I2cWhole(a, << >>, c, src, msg)
    BY <1>0, <1>2, <1>9, <2>2 DEF I2cReads, Told, I2cToMaster, I2cWhole
  <2>4. damaged \in 0..2
    BY I2cFacts
  <2>5. /\ damaged' = 0 => I2cWhole(a, <<got>>, Tail(c), src, msg)
        /\ damaged' = 1 => ~I2cWhole(a, <<got>>, Tail(c), src, msg)
    <3> DEFINE d == damaged
               e == damaged'
    <3>1. d \in 0..2 /\ e = IF Head(c) # got /\ d < 2 THEN d + 1 ELSE d
      BY <2>4
    <3>2. /\ d = 0 => I2cWhole(a, << >>, c, src, msg)
          /\ d = 1 => ~I2cWhole(a, << >>, c, src, msg)
      BY <2>3
    <3>3. c # << >> /\ Len(a) < Len(msg) /\ a \in Seq(Bytes) /\ c \in Seq(Bytes) /\ msg \in Seq(Bytes)
      BY <1>2, <1>4, <1>6
    <3> HIDE DEF a, c, src, d, e, x, y, u, v, m, h
    <3>4. /\ e = 0 => I2cWhole(a, <<got>>, Tail(c), src, msg)
          /\ e = 1 => ~I2cWhole(a, <<got>>, Tail(c), src, msg)
      BY <3>1, <3>2, <3>3, I2cGetsThrough
    <3> QED
      BY <3>4 DEF d, e
  <2> QED
    BY <1>2, <2>2, <2>5 DEF Told, I2cToMaster, I2cWhole
<1> QED
  BY <1>1, <1>2, <1>3, <1>7, <1>8, <1>10 DEF I2cReads

LEMMA I2cReadingByte ==
  ASSUME I2cInv, pc \in {"transmit2", "txdmaen", "wait2"}, ~I2cRefused,
         I2c!Transfer \/ I2c!TransferFlipped \/ I2c!TransferRefused
  PROVE  ~I2cRefused' /\ I2cReads'
<1> USE DEF I2c!Ports, I2c!hi2c1, I2c!hi2c2
<1>1. I2c!Sender = 2 /\ I2c!Receiver = 1 /\ bus = "data"
  <2>1. bus = "data"
    BY DEF I2c!Transfer, I2c!TransferFlipped, I2c!TransferRefused, I2c!Byte
  <2> QED
    BY <2>1, I2cReadsNow DEF I2cUnused, I2c!Sender, I2c!Receiver
<1>2. NACKF \in [I2c!Ports -> BOOLEAN] /\ damaged \in 0..2
  BY I2cFacts DEF I2cInv, I2c!TypeOK
<1>3. ASSUME NEW got, I2c!Byte(got)
      PROVE  Head(TXDR[2]) \in Bytes /\ UNCHANGED AF
  BY <1>1, <1>3, I2cMoves
<1>4. ASSUME I2c!Acknowledged
      PROVE  left' = left - 1 /\ bus' = "data" /\ NACKF'[1] = NACKF[1]
  <2> DEFINE last == NACKF[2] \/ (I2c!Sender = 2 /\ left = 1)
  <2>1. NACKF' = [NACKF EXCEPT ![2] = last]
    BY <1>4, Zenon DEF I2c!Acknowledged
  <2> HIDE DEF last
  <2> QED
    BY <1>1, <1>2, <1>4, <2>1 DEF I2c!Acknowledged
<1>5. CASE I2c!Transfer
  <2>1. I2c!Byte(Head(TXDR[2])) /\ I2c!Acknowledged /\ damaged' = damaged
    BY <1>1, <1>5 DEF I2c!Transfer, I2c!history
  <2>2. Head(TXDR[2]) \in Bytes /\ UNCHANGED AF /\ left' = left - 1 /\ bus' = "data" /\ NACKF'[1] = NACKF[1]
    BY <1>3, <1>4, <2>1
  <2> QED
    BY <2>1, <2>2, I2cReadingMoves
<1>6. CASE I2c!TransferFlipped
  <2>1. PICK b \in Bytes :
          /\ I2c!Byte(b) /\ I2c!Acknowledged
          /\ damaged' = IF Head(TXDR[2]) # b /\ damaged < 2 THEN damaged + 1 ELSE damaged
    BY <1>1, <1>6 DEF I2c!TransferFlipped, I2c!Damage
  <2>2. UNCHANGED AF /\ left' = left - 1 /\ bus' = "data" /\ NACKF'[1] = NACKF[1]
    BY <1>3, <1>4, <2>1
  <2> QED
    BY <2>1, <2>2, I2cReadingMoves
<1>7. CASE I2c!TransferRefused
  <2>1. /\ I2c!Byte(Head(TXDR[2])) /\ damaged' = damaged /\ left' = left - 1 /\ bus' = "released"
        /\ NACKF' = [NACKF EXCEPT ![2] = TRUE]
    BY <1>1, <1>7 DEF I2c!TransferRefused
  <2>2. Head(TXDR[2]) \in Bytes /\ UNCHANGED AF /\ NACKF'[1] = NACKF[1]
    BY <1>2, <1>3, <2>1
  <2> QED
    BY <2>1, <2>2, I2cReadingMoves
<1> QED
  BY <1>5, <1>6, <1>7

(* Nobody drives the bus: the master reads an idle byte.                   *)
LEMMA I2cReadingIdle ==
  ASSUME I2cInv, pc \in {"transmit2", "txdmaen", "wait2"}, ~I2cRefused, I2c!IdleTransfer
  PROVE  ~I2cRefused' /\ I2cReads'
<1> USE DEF I2c!Ports, I2c!hi2c1, I2c!hi2c2
<1>0. I2cReads /\ ~NACKF[1] /\ ~AF
  BY I2cReadsNow
<1>1. /\ bus = "released" /\ bus' = "released" /\ left > 0 /\ left' = left - 1
      /\ i2c_RDR[1] = NoByte /\ i2c_RDR' = [i2c_RDR EXCEPT ![1] = IdleByte]
      /\ IF TXDR[2] = << >>
           THEN UNCHANGED damaged
           ELSE damaged' = IF Head(TXDR[2]) # IdleByte /\ damaged < 2 THEN damaged + 1 ELSE damaged
      /\ UNCHANGED <<pc, msg, verdict, i2c_tx_done, i2c_rx_done, i2c_buf, i2c_State, AF, STOPI, i2c_NDTR,
                     i2c_TCIF, DMAEN, TXDR, NACKF, STOPF>>
  BY NoByteIsNone DEF I2c!IdleTransfer, I2c!Damage, I2c!testVars, I2c!flags, I2c!dma, I2c!handles, I2c!isr
<1>2. pc = "wait2" /\ ~I2cUnused /\ i2c_State[2] = "BUSY_TX" /\ ~i2c_tx_done[2]
  BY <1>1, I2cReadsNow DEF I2cUnused
<1>3. /\ i2c_RDR'[1] = IdleByte /\ i2c_RDR'[2] = i2c_RDR[2] /\ IdleByte \in Bytes
      /\ I2cHeld(1) = << >> /\ I2cHeld(1)' = <<IdleByte>>
  <2>1. i2c_RDR \in [I2c!Ports -> Bytes \cup {NoByte}] /\ IdleByte \in Bytes
    BY NoByteIsNone, PeripheralAssumption DEF I2cInv, I2c!TypeOK
  <2>2. i2c_RDR'[1] = IdleByte /\ i2c_RDR'[2] = i2c_RDR[2] /\ IdleByte # NoByte
    BY <1>1, <2>1, NoByteIsNone
  <2> QED
    BY <1>1, <2>1, <2>2 DEF I2cHeld
<1>4. ~I2cRefused'
  BY <1>0, <1>1 DEF I2cRefused
<1> DEFINE a == i2c_buf[1]
           c == TXDR[2]
           src == i2c_buf[2]
           x == Len(c)
           y == Len(a)
           u == i2c_NDTR[1]
           v == i2c_NDTR[2]
           m == Len(msg)
           h == Len(I2cHeld(1)')
<1>5. /\ a \in Seq(Bytes) /\ c \in Seq(Bytes) /\ src \in Seq(Bytes) /\ msg \in Seq(Bytes)
      /\ x \in Nat /\ y \in Nat /\ u \in Nat /\ v \in Nat /\ m \in Nat /\ left \in Nat
  BY I2cFacts
<1>6. y + u = m /\ u = left /\ h = 1 /\ x <= 1 /\ x + v >= left
  <2>1. y + u = m /\ u = left + Len(I2cHeld(1))
    BY <1>0 DEF I2cReads, I2cReading
  <2>2. x <= 1 /\ x + v >= left
    BY <1>0, <1>1, <1>2 DEF I2cReads, I2cAnswering, I2cUnused
  <2>3. Len(I2cHeld(1)) = 0 /\ h = 1
    BY <1>3
  <2> DEFINE g == Len(I2cHeld(1))
  <2>4. u = left
    <3>1. u = left + g /\ g = 0
      BY <2>1, <2>3
    <3> HIDE DEF u, g
    <3> QED
      BY <1>5, <3>1
  <2> QED
    BY <2>1, <2>2, <2>3, <2>4
<1>7. /\ u = left' + h /\ x + v >= left' /\ y < m /\ left' \in Nat
      /\ v = 0 => left = 1 /\ x = 1 /\ left' = 0
  <2> HIDE DEF a, c, src, x, y, u, v, m, h
  <2> QED
    BY <1>1, <1>5, <1>6
<1>8. I2cReading'
  <2>1. I2cMasterUp("BUSY_RX", i2c_rx_done[1])'
    BY <1>0, <1>1, <1>2 DEF I2cReads, I2cReading, I2cMasterUp, I2cMasterDma
  <2>2. i2c_NDTR'[1] = left' + Len(I2cHeld(1)')
    BY <1>1, <1>7
  <2> HIDE DEF a, c, src, x, y, u, v, m, h
  <2> QED
    BY <1>0, <1>1, <1>3, <2>1, <2>2 DEF I2cReads, I2cReading, I2cUnused
<1>9. I2cAnswering'
  <2>1. I2cSlaveUp("BUSY_TX", i2c_tx_done[2])'
    BY <1>0, <1>1, <1>2 DEF I2cReads, I2cAnswering, I2cSlaveUp
  <2>2. Len(TXDR'[2]) + i2c_NDTR'[2] >= left' /\ Len(TXDR'[2]) <= 1
    BY <1>1, <1>6, <1>7
  <2>3. i2c_TCIF'[2] => i2c_NDTR'[2] = 0
    BY <1>0, <1>1, <1>2 DEF I2cReads, I2cAnswering
  <2> HIDE DEF a, c, src, x, y, u, v, m, h
  <2> QED
    BY <1>1, <2>1, <2>2, <2>3 DEF I2cAnswering, I2cUnused
<1>10. ASSUME ~I2cGivenUp'
       PROVE  Told(\A k \in 1..Len(msg) : I2cToMaster(k) = msg[k])'
  <2>1. v = 0 /\ ~I2cGivenUp
    <3>1. ~(v > 0) /\ ~I2cGivenUp
      BY <1>1, <1>2, <1>10 DEF I2cGivenUp, I2cUnused
    <3> QED
      BY <1>5, <3>1
  <2>2. left = 1 /\ x = 1 /\ left' = 0
    BY <1>7, <2>1
  <2>3. c # << >> /\ Tail(c) = << >> /\ Len(a) < Len(msg)
    <3>1. c \in Seq(Bytes) /\ Len(c) = 1
      BY <1>5, <2>2
    <3>2. c # << >> /\ Tail(c) = << >>
      BY <3>1, LastByte
    <3> QED
      BY <1>7, <3>2
  <2>4. I2cSent(2) = c /\ I2cSent(2)' = Tail(c)
    BY <2>2, <2>3 DEF I2cSent
  <2>5. damaged' = IF Head(c) # IdleByte /\ damaged < 2 THEN damaged + 1 ELSE damaged
    BY <1>1, <2>3
  <2>6. /\ damaged = 0 => I2cWhole(a, << >>, c, src, msg)
        /\ damaged = 1 => ~I2cWhole(a, << >>, c, src, msg)
    BY <1>0, <1>3, <2>1, <2>4 DEF I2cReads, Told, I2cToMaster, I2cWhole
  <2>7. damaged \in 0..2
    BY I2cFacts
  <2>8. /\ damaged' = 0 => I2cWhole(a, <<IdleByte>>, Tail(c), src, msg)
        /\ damaged' = 1 => ~I2cWhole(a, <<IdleByte>>, Tail(c), src, msg)
    <3> DEFINE d == damaged
               e == damaged'
    <3>1. d \in 0..2 /\ e = IF Head(c) # IdleByte /\ d < 2 THEN d + 1 ELSE d
      BY <2>5, <2>7
    <3>2. /\ d = 0 => I2cWhole(a, << >>, c, src, msg)
          /\ d = 1 => ~I2cWhole(a, << >>, c, src, msg)
      BY <2>6
    <3> HIDE DEF a, c, src, d, e, x, y, u, v, m, h
    <3>3. /\ e = 0 => I2cWhole(a, <<IdleByte>>, Tail(c), src, msg)
          /\ e = 1 => ~I2cWhole(a, <<IdleByte>>, Tail(c), src, msg)
      BY <1>3, <1>5, <2>3, <3>1, <3>2, I2cGetsThrough, SMTT(40)
    <3> QED
      BY <3>3 DEF d, e
  <2> QED
    BY <1>1, <1>3, <2>4, <2>8 DEF Told, I2cToMaster, I2cWhole
<1> QED
  BY <1>1, <1>2, <1>4, <1>8, <1>9, <1>10 DEF I2cReads

(* The slave has acknowledged its address, or the transfer ends.           *)
LEMMA I2cReadingBus ==
  ASSUME I2cInv, pc \in {"transmit2", "txdmaen", "wait2"}, ~I2cRefused, I2c!Address \/ I2c!Stop
  PROVE  ~I2cRefused' /\ I2cReads'
<1> USE DEF I2c!Ports, I2c!hi2c1, I2c!hi2c2
<1>0. I2cReads /\ ~NACKF[1] /\ ~AF
  BY I2cReadsNow
<1>1. CASE I2c!Address
  <2>1. /\ bus = "start" /\ bus' = "addressed"
        /\ UNCHANGED <<pc, msg, verdict, i2c_tx_done, i2c_rx_done, i2c_buf, i2c_State, AF, STOPI, i2c_NDTR,
                       i2c_TCIF, DMAEN, TXDR, i2c_RDR, NACKF, STOPF, left, damaged>>
    BY <1>1 DEF I2c!Address, I2c!testVars, I2c!flags, I2c!dma, I2c!handles, I2c!isr, I2c!history
  <2>2. ~I2cRefused'
    BY <1>0, <2>1 DEF I2cRefused
  <2>3. I2cReading'
    BY <1>0, <2>1 DEF I2cReads, I2cReading, I2cUnused, I2cHeld, I2cMasterUp, I2cMasterDma
  <2>4. /\ I2cAtRest(2) => I2cAtRest(2)'
        /\ I2cArmed("BUSY_TX") => I2cArmed("BUSY_TX")'
        /\ pc = "wait2" => I2cAnswering'
    BY <1>0, <2>1 DEF I2cReads, I2cAtRest, I2cArmed, I2cQuiet, I2cAnswering, I2cUnused, I2cSlaveUp
  <2>5. ~I2cGivenUp /\ I2cSent(2)' = I2cSent(2)
    BY <2>1 DEF I2cGivenUp, I2cUnused, I2cSent
  <2>6. Told(\A k \in 1..Len(msg) : I2cToMaster(k) = msg[k])'
    BY <1>0, <2>1, <2>5, I2cToMasterKept DEF I2cReads
  <2> QED
    BY <1>0, <2>1, <2>2, <2>3, <2>4, <2>6 DEF I2cReads
<1>2. CASE I2c!Stop
  <2>1. /\ bus \in {"data", "released"} /\ ~I2cUnused /\ I2cUnused' /\ STOPF'[1] /\ STOPF'[2]
        /\ bus' = "free" /\ left = 0 /\ pc = "wait2"
    <3>1. bus \in {"data", "released"} /\ left = 0
      BY <1>2, I2cReadsNow DEF I2c!Stop
    <3> QED
      BY <1>2, <3>1, I2cStops, I2cReadsNow DEF I2cUnused
  <2>2. /\ I2cMasterUp("BUSY_RX", i2c_rx_done[1]) /\ I2cSlaveUp("BUSY_TX", i2c_tx_done[2])
    BY <1>0, <2>1 DEF I2cReads, I2cReading, I2cAnswering
  <2>3. i2c_RDR[1] = NoByte
    <3> SUFFICES ASSUME i2c_RDR[1] # NoByte PROVE FALSE
      OBVIOUS
    <3> DEFINE h == Len(I2cHeld(1))
               n == i2c_NDTR[1]
    <3>1. h = 1 /\ n = left + h /\ left = 0
      BY <1>0, <2>1, I2cFacts DEF I2cReads, I2cReading
    <3>2. n > 0
      <4> HIDE DEF h, n
      <4> QED
        BY <3>1
    <3>3. DMAEN[1] /\ i2c_State[1] = "BUSY_RX"
      BY <2>2, <3>2 DEF I2cMasterUp, I2cMasterDma
    <3> QED
      BY <1>2, <3>2, <3>3, I2cStops, NoByteIsNone DEF I2c!Served, I2c!RxRequest
  <2>4. ~I2cRefused'
    BY <1>0, <1>2, I2cStops DEF I2cRefused
  <2>5. I2cReading'
    <3>1. I2cMasterEnds("BUSY_RX", i2c_rx_done[1])'
      BY <1>2, <2>1, <2>2, I2cStops DEF I2cMasterUp, I2cMasterEnds, I2cMasterDma
    <3> QED
      BY <1>0, <1>2, <2>1, <2>3, <3>1, I2cStops DEF I2cReads, I2cReading, I2cHeld
  <2>6. I2cAnswering'
    <3>1. I2cSlaveEnds("BUSY_TX", i2c_tx_done[2])'
      BY <1>2, <2>1, <2>2, I2cStops DEF I2cSlaveUp, I2cSlaveEnds
    <3> QED
      BY <1>0, <1>2, <2>1, <3>1, I2cStops DEF I2cReads, I2cAnswering
  <2>7. ~I2cGivenUp' => ~I2cGivenUp
    BY <1>2, <2>1, <2>2, I2cStops DEF I2cGivenUp, I2cSlaveUp
  <2>8. I2cSent(2)' = I2cSent(2)
    BY <1>2, I2cStops DEF I2cSent
  <2>9. ~I2cGivenUp' => Told(\A k \in 1..Len(msg) : I2cToMaster(k) = msg[k])'
    BY <1>0, <1>2, <2>7, <2>8, I2cStops, I2cToMasterKept DEF I2cReads
  <2> QED
    BY <1>2, <2>1, <2>4, <2>5, <2>6, <2>9, I2cStops DEF I2cReads
<1> QED
  BY <1>1, <1>2

(* The address is not acknowledged.                                        *)
LEMMA I2cReadingRefused ==
  ASSUME I2cInv, pc \in {"transmit2", "txdmaen", "wait2"}, ~I2cRefused, I2c!AddressLost
  PROVE  I2cRefused' /\ I2cPhases'
<1> USE DEF I2c!Ports, I2c!hi2c1, I2c!hi2c2
<1>0. I2cReads /\ ~NACKF[1] /\ ~AF
  BY I2cReadsNow
<1>1. /\ bus = "start" /\ bus' = "refused" /\ NACKF' = [NACKF EXCEPT ![1] = TRUE]
      /\ UNCHANGED <<pc, msg, verdict, i2c_tx_done, i2c_rx_done, i2c_buf, i2c_State, AF, STOPI, i2c_NDTR,
                     i2c_TCIF, DMAEN, TXDR, i2c_RDR, STOPF>>
  BY DEF I2c!AddressLost, I2c!testVars, I2c!flags, I2c!dma, I2c!handles
<1>2. NACKF \in [I2c!Ports -> BOOLEAN]
  BY DEF I2cInv, I2c!TypeOK
<1>3. I2cRefused' /\ NACKF'[2] = NACKF[2]
  BY <1>1, <1>2 DEF I2cRefused
<1>4. /\ I2cMasterUp("BUSY_RX", i2c_rx_done[1]) /\ ~I2cUnused
      /\ Len(i2c_buf[1]) + i2c_NDTR[1] = Len(msg)
  BY <1>0, <1>1 DEF I2cReads, I2cReading, I2cUnused
<1>5. /\ ~STOPF[2]
      /\ pc # "transmit2" => i2c_State[2] = "BUSY_TX"
      /\ pc = "transmit2" => I2cAtRest(2)'
  <2>1. pc = "wait2" => ~STOPF[2] /\ i2c_State[2] = "BUSY_TX"
    BY <1>4, I2cReadsNow
  <2>2. pc = "txdmaen" => ~STOPF[2] /\ i2c_State[2] = "BUSY_TX"
    BY <1>0 DEF I2cReads, I2cArmed, I2cQuiet
  <2>3. pc = "transmit2" => ~STOPF[2] /\ I2cAtRest(2)'
    BY <1>0, <1>1, <1>3 DEF I2cReads, I2cAtRest, I2cQuiet
  <2> QED
    BY <2>1, <2>2, <2>3
<1> QED
  BY <1>1, <1>3, <1>4, <1>5 DEF I2cPhases, I2cMasterUp

LEMMA I2cReadingStep ==
  ASSUME I2cInv, pc \in {"transmit2", "txdmaen", "wait2"}, ~I2cRefused,
         I2c!IrqStep \/ I2c!DmaStep \/ I2c!WireStep
  PROVE  I2cRest'
<1>0. I2cAtWork /\ pc' = pc
  BY I2cBlame DEF I2cAtWork
<1>1. ASSUME ~I2cRefused', I2cReads' PROVE I2cRest'
  <2>1. I2cPhases'
    BY <1>0, <1>1 DEF I2cPhases, I2cReads
  <2>2. I2cReturning' => pc' # "wait2" \/ ~I2cGivenUp'
    BY <1>0, <1>1 DEF I2cReturning
  <2>3. I2cTexts'
    BY <1>0, <1>1, <2>2, I2cTextsKept DEF I2cReads
  <2> QED
    BY <1>0, <2>1, <2>3, I2cProgressKept DEF I2cRest
<1>2. CASE I2c!IrqStep
  BY <1>1, <1>2, I2cReadingIrq
<1>3. CASE I2c!DmaStep
  BY <1>1, <1>3, I2cReadingTx, I2cReadingRx DEF I2c!DmaStep
<1>4. CASE I2c!AddressLost
  <2>1. I2cRefused' /\ I2cPhases'
    BY <1>4, I2cReadingRefused
  <2>2. I2cTexts'
    <3>1. ~I2cReturning' /\ pc # "wait1"
      BY <1>0, <2>1 DEF I2cReturning
    <3> QED
      BY <1>0, <3>1, I2cTextsKept
  <2> QED
    BY <1>0, <2>1, <2>2, I2cProgressKept DEF I2cRest
<1>5. CASE I2c!Transfer \/ I2c!TransferFlipped \/ I2c!TransferRefused \/ I2c!IdleTransfer
           \/ I2c!Address \/ I2c!Stop
  BY <1>1, <1>5, I2cReadingByte, I2cReadingIdle, I2cReadingBus
<1>6. CASE I2c!Hold \/ I2c!LetGo
  BY <1>6, I2cIdleBus
<1> QED
  BY <1>2, <1>3, <1>4, <1>5, <1>6 DEF I2c!WireStep

-----------------------------------------------------------------------------
(* The invariant is kept by every step of the test.                        *)
LEMMA I2cStep ==
  I2cInv /\ [I2c!Next]_(I2c!vars) => I2cInv'
<1> SUFFICES ASSUME I2cInv, [I2c!Next]_(I2c!vars) PROVE I2cRest'
  BY I2cTypes DEF I2cInv, I2cRest
<1>1. CASE UNCHANGED I2c!vars
  BY <1>1, I2cStutter
<1>2. CASE I2c!Begin
  BY <1>2, I2cBegin
<1>3. CASE I2c!MainStep
  BY <1>3, I2cArm, I2cListens, I2cSend, I2cSentOff, I2cAsk, I2cAnswer, I2cAnswers, I2cReturned, I2cMatchCRC
     DEF I2c!MainStep, I2c!I2C_Test_Perform
<1>4. CASE I2c!IrqStep \/ I2c!DmaStep \/ I2c!WireStep
  <2>1. CASE ~I2cAtWork
    BY <1>4, <2>1, I2cNothingElse, I2cIdleBus
  <2>2. CASE I2cAtWork /\ I2cRefused
    BY <1>4, <2>2, I2cRefusedStep
  <2>3. CASE I2cAtWork /\ ~I2cRefused
    BY <1>4, <2>3, I2cWritingStep, I2cReadingStep DEF I2cAtWork
  <2> QED
    BY <2>1, <2>2, <2>3
<1> QED
  BY <1>1, <1>2, <1>3, <1>4 DEF I2c!Next

(* While the I2C is tested, its invariant holds.                           *)
LEMMA I2cHolds == Spec => [](device = "I2C" => I2cInv)
<1>1. Init => (device = "I2C" => I2cInv)
  BY I2cInit DEF Init
<1>2. (device = "I2C" => I2cInv) /\ [Next]_vars => (device = "I2C" => I2cInv)'
  <2> SUFFICES ASSUME device = "I2C" => I2cInv, [Next]_vars, device' = "I2C" PROVE I2cInv'
    OBVIOUS
  <2>1. device = "I2C"
    BY DEF Next, Begin, MainStep, IrqStep, DmaStep, WireStep, Only, vars
  <2>2. [I2c!Next]_(I2c!vars)
    BY <2>1 DEF Next, Begin, MainStep, IrqStep, DmaStep, WireStep, Only, I2c!Next,
                vars, testVars, history, i2cVars, I2c!vars, I2c!testVars, I2c!history,
                I2c!flags, I2c!handles, I2c!dma, I2c!isr, I2c!wires
  <2> QED
    BY <2>1, <2>2, I2cStep
<1> QED
  BY <1>1, <1>2, PTL DEF Spec

(* An I2C test that has returned has left the master ready and its stream  *)
(* off, no byte in a register and no condition that a handler has yet to   *)
(* see; the slave too is ready, unless the bus was once held: then a test  *)
(* that has failed may have left it armed.                                 *)
THEOREM I2cLeftClean == Spec => []I2cClean
<1>1. (device = "I2C" => I2cInv) => I2cClean
  <2> SUFFICES ASSUME I2cInv, pc = "idle" PROVE I2c!CleanBetweenTests
    BY DEF I2cClean, I2c!CleanBetweenTests
  <2> USE DEF I2c!Ports, I2c!hi2c1, I2c!hi2c2
  <2>1. /\ I2cUnused /\ I2cAtRest(1) /\ (I2cAtRest(2) \/ I2cLeftArmed)
        /\ i2c_State[2] = "BUSY_RX" => verdict = "fail"
    BY DEF I2cInv, I2cPhases
  <2>2. \A p \in I2c!Ports : I2cQuiet(p)
    BY <2>1 DEF I2cAtRest, I2cLeftArmed
  <2>3. \/ i2c_State[2] = "READY" /\ I2c!StreamReady(2) /\ ~DMAEN[2]
        \/ i2c_State[2] = "BUSY_RX" /\ verdict = "fail" /\ I2c!Happened({"hold"})
    BY <2>1 DEF I2cAtRest, I2cLeftArmed, I2c!StreamReady, Happened, I2c!Happened
  <2>4. i2c_State[1] = "READY" /\ I2c!StreamReady(1) /\ ~DMAEN[1] /\ bus \in {"free", "held"}
    BY <2>1 DEF I2cAtRest, I2cUnused, I2c!StreamReady
  <2> QED
    BY <2>2, <2>3, <2>4, NoByteIsNone DEF I2c!CleanBetweenTests, I2cQuiet
<1> QED
  BY <1>1, I2cHolds, PTL

(* The slave sends i2c2_rx back, and the test compares i2c1_rx, only when  *)
(* the DMA has written the whole of them in this test, in whatever order   *)
(* master and slave complete.                                              *)
THEOREM I2cReadsWhatItGot == Spec => []I2cNothingUnwrittenRead
<1>1. (device = "I2C" => I2cInv) => I2cNothingUnwrittenRead
  <2> SUFFICES ASSUME I2cInv
               PROVE  /\ pc = "crc" => Len(i2c_buf[I2c!hi2c1]) = Len(msg)
                      /\ i2c_State[I2c!hi2c2] = "BUSY_TX" => Len(i2c_buf[I2c!hi2c2]) = Len(msg)
    BY DEF I2cNothingUnwrittenRead, I2c!NothingUnwrittenRead
  <2> USE DEF I2c!hi2c1, I2c!hi2c2
  <2>1. pc = "crc" => Len(i2c_buf[1]) = Len(msg)
    BY DEF I2cInv, I2cProgress
  <2>2. i2c_State[2] = "BUSY_TX" => pc \in {"receive1", "transmit2", "txdmaen", "wait2", "crc"}
    <3>1. pc \in {"idle", "start", "rxdmaen", "transmit1"} => i2c_State[2] # "BUSY_TX"
      BY DEF I2cInv, I2cPhases, I2cAtRest, I2cLeftArmed, I2cArmed
    <3>2. pc = "wait1" => i2c_State[2] # "BUSY_TX"
      BY I2cWhere
    <3> QED
      BY <3>1, <3>2 DEF I2cInv, I2c!TypeOK, I2c!Labels
  <2>3. pc \in {"receive1", "transmit2", "txdmaen", "wait2", "crc"} => Len(i2c_buf[2]) = Len(msg)
    BY DEF I2cInv, I2cProgress
  <2> QED
    BY <2>1, <2>2, <2>3
<1> QED
  BY <1>1, I2cHolds, PTL

=============================================================================
