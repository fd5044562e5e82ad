------------------------------ MODULE UutFacts ------------------------------
(***************************************************************************)
(* What holds of the unit under test whoever sends it requests: the types  *)
(* of its variables, and what a verdict says about the iterations.  The    *)
(* proofs about VerifSystem and about UutBench both rest on it.            *)
(***************************************************************************)
EXTENDS UutServer, TLAPS

-----------------------------------------------------------------------------
(* One step of the UUT, or of the DMA that fills its descriptors.          *)
UutType ==
  /\ NetTypeOK /\ UutTypeOK
  /\ uut_pc # "poll" => uut_msg \in Request
  /\ uut_pc = "test" => iter <= uut_msg.n_iter

LEMMA RequestType ==
  ASSUME NEW m \in Request
  PROVE  m \in UutMsg /\ 0 <= m.n_iter
BY DEF Request, UutMsg, Byte

LEMMA HeadType ==
  ASSUME UutTypeOK, rx_ring # << >>
  PROVE  /\ Head(rx_ring) \in Request
         /\ Tail(rx_ring) \in Seq(Request)
         /\ Len(Tail(rx_ring)) <= RxDescs
BY UutAssumption DEF UutTypeOK

LEMMA UutTypes ==
  ASSUME UutType, UutStep \/ EthReceive \/ EthMissed
  PROVE  UutType'
<1> USE DEF UutType, netVars, uutVars
<1>1. CASE EthReceive
  <2>1. PICK m \in toUut : TakeRequest(m) /\ rx_ring' = Append(rx_ring, m)
    BY <1>1 DEF EthReceive
  <2>2. m \in Request
    BY DEF NetTypeOK
  <2>3. rx_ring' \in Seq(Request) /\ Len(rx_ring') <= RxDescs
    BY <1>1, <2>1, <2>2, UutAssumption DEF EthReceive, HasFreeDesc, UutTypeOK
  <2>4. NetTypeOK'
    BY <1>1, <2>1, NetAssumption DEF EthReceive, NetTypeOK, TakeRequest
  <2> QED BY <1>1, <2>3, <2>4 DEF EthReceive, UutTypeOK
<1>2. CASE EthMissed
  <2>1. NetTypeOK'
    BY <1>2, NetAssumption DEF EthMissed, NetTypeOK, TakeRequest
  <2> QED BY <1>2, <2>1 DEF EthMissed, UutTypeOK
<1>3. CASE UdpRecvCallback
  <2>1. uut_msg' \in Request /\ rx_ring' \in Seq(Request) /\ Len(rx_ring') <= RxDescs
    BY <1>3, HeadType DEF UdpRecvCallback, FramesLeft
  <2>2. uut_msg' \in UutMsg /\ 0 <= uut_msg'.n_iter
    BY <2>1, RequestType
  <2> QED BY <1>3, <2>1, <2>2 DEF UdpRecvCallback, UutTypeOK, NetTypeOK, Byte
<1>4. CASE UnknownPeripheral \/ IterationFails \/ AllPassed
  BY <1>4 DEF UnknownPeripheral, IterationFails, AllPassed, TestEnds, UutTypeOK, NetTypeOK
<1>5. CASE IterationPasses
  <2>1. uut_msg.n_iter \in Byte
    BY <1>5 DEF IterationPasses, Request
  <2>2. iter < uut_msg.n_iter /\ iter' = iter + 1 /\ uut_msg' = uut_msg /\ iter \in Byte
    BY <1>5 DEF IterationPasses, UutTypeOK
  <2>3. iter' \in Byte /\ iter' <= uut_msg'.n_iter
    BY <2>1, <2>2 DEF Byte
  <2> QED BY <1>5, <2>3 DEF IterationPasses, UutTypeOK, NetTypeOK
<1>6. CASE IterationSpins
  BY <1>6 DEF IterationSpins, UutTypeOK, NetTypeOK
<1>7. CASE SendResult
  <2>1. uut_msg \in Request
    BY <1>7 DEF SendResult
  <2>2. [from |-> uut_msg.from, test_id |-> uut_msg.test_id, test_result |-> result] \in Response
    BY <2>1 DEF UutTypeOK, Request, Response, Byte, TEST_SUCCESS, TEST_FAILED
  <2>3. NetTypeOK'
    BY <1>7, <2>2 DEF SendResult, SendResponse, NetTypeOK
  <2>4. [request |-> uut_msg, passes |-> iter, result |-> result] \in Performed
    BY <2>1 DEF UutTypeOK, Performed
  <2>5. ran' \in Seq(Performed)
    BY <1>7, <2>4 DEF SendResult, UutTypeOK
  <2> QED BY <1>7, <2>3, <2>5 DEF SendResult, UutTypeOK
<1> QED
  BY <1>1, <1>2, <1>3, <1>4, <1>5, <1>6, <1>7 DEF UutStep

-----------------------------------------------------------------------------
(* Verdicts.                                                               *)

(* A request whose test cannot begin: a message test without a message.    *)
Hollow(m) == m.peripheral \in MsgTests /\ m.p_len = 0

(* The verdict v on the request m after n iterations have passed.          *)
Justified(m, n, v) ==
  /\ v = TEST_SUCCESS <=> m.peripheral \in Peripherals /\ n = m.n_iter
  /\ Hollow(m) => n = 0

VerdictInv ==
  /\ uut_pc \in {"test", "spin"} /\ Hollow(uut_msg) => iter = 0
  /\ uut_pc = "reply" => Justified(uut_msg, iter, result)
  /\ \A k \in DOMAIN ran : Justified(ran[k].request, ran[k].passes, ran[k].result)

LEMMA VerdictStep ==
  ASSUME UutType, VerdictInv, UutStep
  PROVE  VerdictInv'
<1> USE DEF VerdictInv, UutType, UutTypeOK
<1>1. CASE UdpRecvCallback
  BY <1>1 DEF UdpRecvCallback
<1>2. CASE UnknownPeripheral
  BY <1>2 DEF UnknownPeripheral, TestEnds, Justified, Hollow, MsgTests, Peripherals,
              TEST_SUCCESS, TEST_FAILED
<1>3. CASE IterationPasses
  <2>1. ~Hollow(uut_msg)
    BY <1>3 DEF IterationPasses, NextOutcomes, Hollow
  <2> QED BY <1>3, <2>1 DEF IterationPasses
<1>4. CASE IterationFails
  <2>1. iter \in Byte /\ uut_msg.n_iter \in Byte
    BY DEF UutMsg
  <2>2. \A i, n \in Byte : i < n => i # n
    BY DEF Byte
  <2>3. iter # uut_msg.n_iter
    BY <1>4, <2>1, <2>2 DEF IterationFails
  <2> QED BY <1>4, <2>3 DEF IterationFails, TestEnds, Justified, TEST_SUCCESS, TEST_FAILED
<1>5. CASE IterationSpins
  BY <1>5 DEF IterationSpins
<1>6. CASE AllPassed
  BY <1>6 DEF AllPassed, AllDone, TestEnds, Justified, TEST_SUCCESS
<1>7. CASE SendResult
  <2> DEFINE e == [request |-> uut_msg, passes |-> iter, result |-> result]
  <2>1. ran' = Append(ran, e) /\ uut_pc = "reply" /\ uut_pc' = "poll"
    BY <1>7 DEF SendResult
  <2>2. DOMAIN ran' = DOMAIN ran \cup {Len(ran) + 1}
    BY <2>1
  <2>3. \A k \in DOMAIN ran : ran'[k] = ran[k]
    BY <2>1
  <2>4. ran'[Len(ran) + 1] = e
    BY <2>1
  <2> QED BY <2>1, <2>2, <2>3, <2>4
<1> QED BY <1>1, <1>2, <1>3, <1>4, <1>5, <1>6, <1>7 DEF UutStep
=============================================================================
