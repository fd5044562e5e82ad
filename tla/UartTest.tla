------------------------------ MODULE UartTest ------------------------------
(***************************************************************************)
(* One UART test after the other (uart_test.c): huart4 sends a message to  *)
(* huart5, huart5 sends back what it got, and the CRCs are compared.  Each *)
(* sender works by interrupt, each receiver by DMA; the test waits in a    *)
(* loop for a flag that the DMA's completion interrupt sets.               *)
(*                                                                         *)
(* Interleaved are the test itself, the interrupt handlers (all of one     *)
(* priority, so each runs to its end), the DMA and the two lines.  Timing  *)
(* assumed: what hardware and handlers have to do because of a byte is     *)
(* done before the next byte arrives, 87 microseconds later; both lines    *)
(* are equally fast, so what one phase of the test has left on a line      *)
(* arrives before the first byte of the next; and the interrupt at the end *)
(* of a transmission is taken before a new test begins.                    *)
(*                                                                         *)
(* pc names the call the test is about to make:                            *)
(*   start, dmar5      HAL_UART_Receive_DMA(&huart5), its last statement   *)
(*   transmit4, wait5  HAL_UART_Transmit_IT(&huart4), while (!..)          *)
(*   receive4, dmar4   the same back again                                 *)
(*   transmit5, wait4                                                      *)
(*   crc               Match_CRC                                           *)
(* Faults of a line: "flip" an undetected change of a byte, "error" a      *)
(* frame or noise error, "lose" a start bit that is missed, "glitch" an    *)
(* idle line that is taken for a byte.                                     *)
(***************************************************************************)
EXTENDS PeripheralTest

huart4 == 4
huart5 == 5
Ports  == {huart4, huart5}
Peer(p) == IF p = huart4 THEN huart5 ELSE huart4

VARIABLES
  rx_done,      \* uart4_rx_done, uart5_rx_done
  rx,           \* uart4_rx, uart5_rx: what this test's DMA has written of them
  RxState, gState,  \* of the two handles: "READY" or "BUSY"
  TxXferCount,  \* bytes the sender's handler has still to write to TDR
  wire,         \* TDR and shift register of each sender, oldest byte first
  RDR,          \* what each receiver holds and nobody has read
  errors,       \* ISR: the error flags FE (or NE) and ORE that are set
  EIE, DMAR,    \* CR3: error interrupt and DMA request enabled
  NDTR,         \* bytes the DMA stream has still to transfer
  TCIF          \* the stream's transfer-complete interrupt is pending

mainVars == <<testVars, rx_done>>
txVars   == <<gState, TxXferCount>>
rxVars   == <<RxState, EIE, DMAR>>
dmaVars  == <<rx, NDTR, TCIF>>
vars == <<testVars, rx_done, txVars, rxVars, dmaVars, wire, RDR, errors, history>>

Labels == {"idle", "start", "dmar5", "transmit4", "wait5",
           "receive4", "dmar4", "transmit5", "wait4", "crc"}

TypeOK ==
  /\ TestTypeOK /\ pc \in Labels
  /\ rx_done \in [Ports -> BOOLEAN]
  /\ rx \in [Ports -> Seq(Bytes)]
  /\ RxState \in [Ports -> {"READY", "BUSY"}] /\ gState \in [Ports -> {"READY", "BUSY"}]
  /\ TxXferCount \in [Ports -> Nat] /\ NDTR \in [Ports -> Nat]
  /\ wire \in [Ports -> Seq(Bytes)]
  /\ RDR \in [Ports -> Bytes \cup {NoByte}]
  /\ errors \in [Ports -> SUBSET {"FE", "ORE"}]
  /\ EIE \in [Ports -> BOOLEAN] /\ DMAR \in [Ports -> BOOLEAN] /\ TCIF \in [Ports -> BOOLEAN]

Each(v) == [p \in Ports |-> v]

Init ==
  /\ TestInit
  /\ rx_done = Each(FALSE) /\ rx = Each(<< >>)
  /\ RxState = Each("READY") /\ gState = Each("READY")
  /\ TxXferCount = Each(0) /\ NDTR = Each(0)
  /\ wire = Each(<< >>) /\ RDR = Each(NoByte) /\ errors = Each({})
  /\ EIE = Each(FALSE) /\ DMAR = Each(FALSE) /\ TCIF = Each(FALSE)

-----------------------------------------------------------------------------
(* UART_Test_Perform, called again and again.                              *)

LeaveFlags == UNCHANGED rx_done                     \* mutant
ClearFlags == rx_done' = Each(FALSE)

(* UART_EndTransmit_IT, when the last stop bit has left.                   *)
TransmitComplete(p) == gState[p] = "BUSY" /\ TxXferCount[p] = 0 /\ wire[p] = << >>

Begin ==
  /\ \A p \in Ports : ~TransmitComplete(p)
  /\ \E m \in Messages : BeginTest(m, Len(faults))
  /\ ClearFlags
  /\ rx' = Each(<< >>)
  /\ UNCHANGED <<NDTR, TCIF, txVars, rxVars, wire, RDR, errors>>

DmaReady(p) == NDTR[p] = 0 /\ ~TCIF[p]
CanReceive(p) == RxState[p] = "READY" /\ DmaReady(p) /\ msg # << >>
CanTransmit(p) == gState[p] = "READY" /\ msg # << >>

(* HAL_UART_Receive_DMA up to the error interrupt ...                      *)
ReceiveDMA(p, here, next) ==
  /\ pc = here
  /\ IF CanReceive(p)
       THEN /\ RxState' = [RxState EXCEPT ![p] = "BUSY"]
            /\ NDTR' = [NDTR EXCEPT ![p] = Len(msg)]
            /\ EIE' = [EIE EXCEPT ![p] = TRUE]
            /\ pc' = next
            /\ UNCHANGED verdict
       ELSE Return("fail") /\ UNCHANGED <<RxState, NDTR, EIE>>
  /\ UNCHANGED <<msg, rx_done, rx, DMAR, TCIF, txVars, wire, RDR, errors, history>>

(* ... and its last statement: an error interrupt may come in between.     *)
EnableDMAR(p, here, next) ==
  /\ pc = here
  /\ DMAR' = [DMAR EXCEPT ![p] = TRUE]
  /\ pc' = next
  /\ UNCHANGED <<msg, verdict, rx_done, RxState, EIE, txVars, dmaVars, wire, RDR, errors, history>>

TransmitIT(p, here, next) ==
  /\ pc = here
  /\ IF CanTransmit(p)
       THEN /\ gState' = [gState EXCEPT ![p] = "BUSY"]
            /\ TxXferCount' = [TxXferCount EXCEPT ![p] = Len(msg)]
            /\ pc' = next
            /\ UNCHANGED verdict
       ELSE Return("fail") /\ UNCHANGED txVars
  /\ UNCHANGED <<msg, rx_done, rxVars, dmaVars, wire, RDR, errors, history>>

AnyDone(p) == rx_done[huart4] \/ rx_done[huart5]     \* mutant
RxDone(p) == rx_done[p]

WaitRxDone(p, here, next) ==
  /\ pc = here
  /\ RxDone(p)
  /\ pc' = next
  /\ UNCHANGED <<msg, verdict, rx_done, txVars, rxVars, dmaVars, wire, RDR, errors, history>>

MatchCRC ==
  /\ pc = "crc"
  /\ \E v \in CrcVerdicts(rx[huart4]) : Return(v)
  /\ UNCHANGED <<msg, rx_done, txVars, rxVars, dmaVars, wire, RDR, errors, history>>

UART_Test_Perform ==
  \/ ReceiveDMA(huart5, "start", "dmar5") \/ EnableDMAR(huart5, "dmar5", "transmit4")
  \/ TransmitIT(huart4, "transmit4", "wait5") \/ WaitRxDone(huart5, "wait5", "receive4")
  \/ ReceiveDMA(huart4, "receive4", "dmar4") \/ EnableDMAR(huart4, "dmar4", "transmit5")
  \/ TransmitIT(huart5, "transmit5", "wait4") \/ WaitRxDone(huart4, "wait4", "crc")
  \/ MatchCRC

-----------------------------------------------------------------------------
(* The interrupt handlers and the DMA.                                     *)

ErrorPending(p) == EIE[p] /\ errors[p] # {}

RxCpltCallback(p) == rx_done' = [rx_done EXCEPT ![p] = TRUE]

(* UART_DMAReceiveCplt makes the receiver ready again.                     *)
RxStaysBusy(p) == UNCHANGED RxState                 \* mutant
RxReady(p) == RxState' = [RxState EXCEPT ![p] = "READY"]

(* DMA_IRQHandler, UART_DMAReceiveCplt and HAL_UART_RxCpltCallback.        *)
ReceiveCplt(p) ==
  /\ TCIF[p]
  /\ TCIF' = [TCIF EXCEPT ![p] = FALSE]
  /\ EIE' = [EIE EXCEPT ![p] = FALSE]
  /\ DMAR' = [DMAR EXCEPT ![p] = FALSE]
  /\ RxReady(p)
  /\ RxCpltCallback(p)
  /\ UNCHANGED <<pc, msg, verdict, rx, NDTR, txVars, wire, RDR, errors, history>>

(* HAL_UART_IRQHandler on an error.  Overruns, and all errors once the DMA *)
(* is requested, end the reception; nobody implements the error callback.  *)
ReceiveError(p) ==
  /\ ErrorPending(p)
  /\ errors' = [errors EXCEPT ![p] = {}]
  /\ \/ /\ DMAR[p] \/ "ORE" \in errors[p]
        /\ RxState' = [RxState EXCEPT ![p] = "READY"]
        /\ EIE' = [EIE EXCEPT ![p] = FALSE]
        /\ DMAR' = [DMAR EXCEPT ![p] = FALSE]
        /\ NDTR' = [NDTR EXCEPT ![p] = IF DMAR[p] THEN 0 ELSE @]
        /\ TCIF' = [TCIF EXCEPT ![p] = @ /\ ~DMAR[p]]
     \/ /\ ~DMAR[p] /\ "ORE" \notin errors[p]
        /\ UNCHANGED <<rxVars, NDTR, TCIF>>
  /\ UNCHANGED <<mainVars, txVars, rx, wire, RDR, history>>

(* What the transmitter of huart5 reads from uart5_rx beyond the bytes     *)
(* received is whatever the stack holds; and a transmission that a glitch  *)
(* has let outlive its test reads what has become of the buffer.           *)
SourceIsMsg(p) == msg                               \* mutant
Source(p) == IF p = huart4 THEN msg ELSE rx[huart5]
OfThisTest(p) ==
  pc \in {"wait4", "crc"} \/ (p = huart4 /\ pc \in {"wait5", "receive4", "dmar4", "transmit5"})
NextByte(p) ==
  LET i == Len(msg) - TxXferCount[p] + 1
  IN  IF OfThisTest(p) /\ i \in DOMAIN Source(p) THEN {Source(p)[i]} ELSE Bytes

OneTooMany(p) == TxXferCount[p] >= 0                \* mutant
MoreToSend(p) == TxXferCount[p] > 0

(* UART_TxISR_8BIT with TDR empty: the shift register holds a byte at most.*)
TransmitPending(p) == gState[p] = "BUSY" /\ MoreToSend(p) /\ Len(wire[p]) < 2

TransmitByte(p) ==
  /\ TransmitPending(p)
  /\ ~ErrorPending(p)
  /\ \E b \in NextByte(p) : wire' = [wire EXCEPT ![p] = Append(@, b)]
  /\ TxXferCount' = [TxXferCount EXCEPT ![p] = @ - 1]
  /\ UNCHANGED <<mainVars, gState, rxVars, dmaVars, RDR, errors, history>>

EndTransmit(p) ==
  /\ TransmitComplete(p)
  /\ ~ErrorPending(p)
  /\ gState' = [gState EXCEPT ![p] = "READY"]
  /\ UNCHANGED <<mainVars, TxXferCount, rxVars, dmaVars, wire, RDR, errors, history>>

DmaRequest(p) == DMAR[p] /\ NDTR[p] > 0 /\ RDR[p] # NoByte

DmaTransfer(p) ==
  /\ DmaRequest(p)
  /\ rx' = [rx EXCEPT ![p] = Append(@, RDR[p])]
  /\ RDR' = [RDR EXCEPT ![p] = NoByte]
  /\ NDTR' = [NDTR EXCEPT ![p] = @ - 1]
  /\ TCIF' = [TCIF EXCEPT ![p] = NDTR[p] = 1]
  /\ UNCHANGED <<mainVars, txVars, rxVars, wire, errors, history>>

-----------------------------------------------------------------------------
(* The lines.                                                              *)

(* The timing assumption.                                                  *)
Settled ==
  \A p \in Ports :
    /\ ~DmaRequest(p) /\ ~TCIF[p] /\ ~ErrorPending(p)
    /\ ~TransmitPending(p) /\ ~TransmitComplete(p)

(* Bytes that p has not got rid of in its own phase of the test.           *)
LeftOver(p) == wire[p] # << >> /\ pc # (IF p = huart4 THEN "wait5" ELSE "wait4")

(* The next byte of the peer reaches p as b, or not at all.                *)
Shift(p) ==
  /\ Settled
  /\ wire[Peer(p)] # << >> /\ ~LeftOver(p)
  /\ wire' = [wire EXCEPT ![Peer(p)] = Tail(@)]
  /\ UNCHANGED <<mainVars, txVars, rxVars, dmaVars>>

Receive(p, b, flags) ==
  IF RDR[p] = NoByte
    THEN /\ RDR' = [RDR EXCEPT ![p] = b]
         /\ errors' = [errors EXCEPT ![p] = @ \cup flags]
    ELSE /\ errors' = [errors EXCEPT ![p] = @ \cup {"ORE"}]
         /\ UNCHANGED RDR

Arrive(p) ==
  /\ Shift(p)
  /\ Receive(p, Head(wire[Peer(p)]), {})
  /\ UNCHANGED history

ArriveFlipped(p) ==
  /\ Shift(p)
  /\ Fault("flip")
  /\ \E b \in Bytes \ {Head(wire[Peer(p)])} :
       Receive(p, b, {}) /\ Damage(Head(wire[Peer(p)]), b)

ArriveWithError(p) ==
  /\ Shift(p)
  /\ Fault("error")
  /\ \E b \in Bytes :
       Receive(p, b, {"FE"}) /\ Damage(Head(wire[Peer(p)]), b)

Lose(p) ==
  /\ Shift(p)
  /\ Fault("lose")
  /\ UNCHANGED <<RDR, errors, damaged>>

(* An idle line: what p receives nobody has sent.                          *)
Glitch(p) ==
  /\ Settled
  /\ wire[Peer(p)] = << >>
  /\ Fault("glitch")
  /\ \E b \in Bytes : Receive(p, b, {})
  /\ UNCHANGED <<mainVars, txVars, rxVars, dmaVars, wire, damaged>>

-----------------------------------------------------------------------------
Handlers(p) == ReceiveCplt(p) \/ ReceiveError(p) \/ TransmitByte(p) \/ EndTransmit(p)
Line(p) == Arrive(p) \/ ArriveFlipped(p) \/ ArriveWithError(p) \/ Lose(p) \/ Glitch(p)

MainStep == UART_Test_Perform
IrqStep  == \E p \in Ports : Handlers(p)
DmaStep  == \E p \in Ports : DmaTransfer(p)
WireStep == \E p \in Ports : Line(p)

Next == Begin \/ MainStep \/ IrqStep \/ DmaStep \/ WireStep

Spec == Init /\ [][Next]_vars

-----------------------------------------------------------------------------
(* A test that has returned leaves nothing behind that could reach the     *)
(* next one or write to its stack frame: no reception or DMA stream is     *)
(* armed, no byte is on a line, and none is unread unless a glitch on an   *)
(* idle line has brought one too many.                                     *)
CleanBetweenTests ==
  pc = "idle" => \A p \in Ports :
    /\ RxState[p] = "READY" /\ DmaReady(p) /\ ~DMAR[p]
    /\ Lingering \/ (wire[p] = << >> /\ RDR[p] = NoByte)

(* The test never finds a handle busy, although the completion of a        *)
(* transmission is never awaited and a glitch lets one outlive its test:   *)
(* only the empty message is refused.                                      *)
NeverBusy ==
  msg # << >> =>
    /\ pc = "start" => CanReceive(huart5)
    /\ pc = "transmit4" => CanTransmit(huart4)
    /\ pc = "receive4" => CanReceive(huart4)
    /\ pc = "transmit5" => CanTransmit(huart5)

(* The stack buffers are read only where the DMA has written them.  (After *)
(* a glitch the test may return while huart5 is still sending from its     *)
(* frame.)                                                                 *)
NothingUnwrittenRead ==
  /\ pc = "crc" => Len(rx[huart4]) = Len(msg)
  /\ TxXferCount[huart5] > 0 /\ ~Lingering => Len(rx[huart5]) = Len(msg)

(* What may keep the test waiting for ever.                                *)
Breaking == {"error", "lose"}
=============================================================================
