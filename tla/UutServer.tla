------------------------------ MODULE UutServer -----------------------------
(***************************************************************************)
(* The unit under test: the superloop of hw_verif.c, which polls the       *)
(* Ethernet driver, and the UDP callback of hw_verif_udp.c, which performs *)
(* the whole test before it returns.  While a test runs nothing polls; the *)
(* Ethernet DMA goes on filling the receive descriptors and then drops.    *)
(*                                                                         *)
(* One iteration of a peripheral's test is one step here, whose outcomes   *)
(* are what the hardware of the run allows: it passes, it fails, or it     *)
(* spins for ever in one of the loops that wait for an interrupt.          *)
(***************************************************************************)
EXTENDS Sequences, UdpNet

CONSTANTS
  RxDescs,    \* ETH_RX_DESC_CNT, the receive descriptors of the MAC
  Hw,         \* [Peripherals -> what an iteration of its test may come to]
  PbufFails   \* TRUE: pbuf_alloc of a response may find no memory

Outcomes == {"pass", "fail", "spin"}

ASSUME UutAssumption ==
  /\ RxDescs \in Nat \ {0}
  /\ Hw \in [Peripherals -> SUBSET Outcomes]
  /\ PbufFails \in BOOLEAN

VARIABLES
  rx_ring,     \* the frames in the receive descriptors, oldest first
  uut_pc,      \* "poll", "test", "spin" (inside a test, for ever) or "reply"
  uut_msg,     \* hw_verif_udp.c's in_msg: the request being served
  iter,        \* i of Test_N_Perform: iterations that have passed
  result,      \* what perform_test returned
  ran          \* the tests performed so far, in order

uutVars == <<rx_ring, uut_pc, uut_msg, iter, result, ran>>

(* in_msg before the first request has no peer yet.                        *)
UutMsg == [from : Procs \cup {None}, test_id : Int, peripheral : Byte, n_iter : Byte, p_len : Byte]

(* A performed test: the request, and what became of it.                   *)
Performed == [request : Request, passes : Byte, result : {TEST_SUCCESS, TEST_FAILED}]

UutTypeOK ==
  /\ rx_ring \in Seq(Request)
  /\ Len(rx_ring) <= RxDescs
  /\ uut_pc \in {"poll", "test", "spin", "reply"}
  /\ uut_msg \in UutMsg
  /\ iter \in Byte
  /\ result \in {TEST_SUCCESS, TEST_FAILED}
  /\ ran \in Seq(Performed)

UutInit ==
  /\ rx_ring = << >>
  /\ uut_pc = "poll"
  /\ uut_msg = [from |-> None, test_id |-> 0, peripheral |-> 0, n_iter |-> 0, p_len |-> 0]
  /\ iter = 0
  /\ result = TEST_FAILED
  /\ ran = << >>

HasFreeDesc == Len(rx_ring) < RxDescs

(* The Ethernet DMA puts a frame into the next free descriptor.            *)
EthReceive ==
  \E m \in toUut :
    /\ TakeRequest(m)
    /\ HasFreeDesc
    /\ rx_ring' = Append(rx_ring, m)
    /\ UNCHANGED <<uut_pc, uut_msg, iter, result, ran, toPc>>

(* No descriptor is free: the frame is flushed and nobody is told.         *)
EthMissed ==
  \E m \in toUut :
    /\ TakeRequest(m)
    /\ ~HasFreeDesc
    /\ UNCHANGED <<uutVars, toPc>>

(* HAL_ETH_ReadData hands out the oldest frame and rebuilds its descriptor. *)
FramesKept == rx_ring                               \* mutant
FramesLeft == Tail(rx_ring)

(* One turn of the superloop that finds a frame: UDP_Recv_Callback loads   *)
(* in_msg and calls perform_test.                                          *)
UdpRecvCallback ==
  /\ uut_pc = "poll"
  /\ rx_ring # << >>
  /\ uut_msg' = Head(rx_ring)
  /\ rx_ring' = FramesLeft
  /\ iter' = 0
  /\ uut_pc' = "test"
  /\ UNCHANGED <<result, ran, netVars>>

(* What the next iteration of the requested test may come to.  The HAL     *)
(* refuses to receive zero bytes, which the three message tests report as  *)
(* a failure.                                                              *)
NextOutcomes ==
  IF uut_msg.peripheral \in MsgTests /\ uut_msg.p_len = 0 THEN {"fail"}
  ELSE Hw[uut_msg.peripheral]

\* mutant: a failure returns to the superloop without a response
TestEndsSilently(verdict) ==
  /\ result' = verdict
  /\ uut_pc' = IF verdict = TEST_FAILED THEN "poll" ELSE "reply"
  /\ UNCHANGED <<rx_ring, uut_msg, iter, ran, netVars>>

TestEnds(verdict) ==
  /\ result' = verdict
  /\ uut_pc' = "reply"
  /\ UNCHANGED <<rx_ring, uut_msg, iter, ran, netVars>>

(* perform_test does not know the peripheral.                              *)
UnknownPeripheral ==
  /\ uut_pc = "test"
  /\ uut_msg.peripheral \notin Peripherals
  /\ TestEnds(TEST_FAILED)

(* Test_N_Perform and Test_N_Perform_Msg: the loop over the iterations.    *)
IterationPasses ==
  /\ uut_pc = "test"
  /\ uut_msg.peripheral \in Peripherals
  /\ iter < uut_msg.n_iter
  /\ "pass" \in NextOutcomes
  /\ iter' = iter + 1
  /\ UNCHANGED <<rx_ring, uut_pc, uut_msg, result, ran, netVars>>

IterationFails ==
  /\ uut_pc = "test"
  /\ uut_msg.peripheral \in Peripherals
  /\ iter < uut_msg.n_iter
  /\ "fail" \in NextOutcomes
  /\ TestEnds(TEST_FAILED)

IterationSpins ==
  /\ uut_pc = "test"
  /\ uut_msg.peripheral \in Peripherals
  /\ iter < uut_msg.n_iter
  /\ "spin" \in NextOutcomes
  /\ uut_pc' = "spin"
  /\ UNCHANGED <<rx_ring, uut_msg, iter, result, ran, netVars>>

AllButOneDone == iter + 1 >= uut_msg.n_iter         \* mutant
AllDone == iter = uut_msg.n_iter

AllPassed ==
  /\ uut_pc = "test"
  /\ uut_msg.peripheral \in Peripherals
  /\ AllDone
  /\ TestEnds(TEST_SUCCESS)

(* send_result, and the return of the callback to the superloop; without a *)
(* pbuf the response is never sent.                                        *)
SendResult ==
  /\ uut_pc = "reply"
  /\ \/ SendResponse([from |-> uut_msg.from, test_id |-> uut_msg.test_id,
                      test_result |-> result])
     \/ PbufFails /\ UNCHANGED toPc
  /\ ran' = Append(ran, [request |-> uut_msg, passes |-> iter, result |-> result])
  /\ uut_pc' = "poll"
  /\ UNCHANGED <<rx_ring, uut_msg, iter, result, toUut, dups>>

UutStep ==
  \/ UdpRecvCallback \/ UnknownPeripheral \/ IterationPasses \/ IterationFails
  \/ IterationSpins \/ AllPassed \/ SendResult
=============================================================================
