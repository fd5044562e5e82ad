---------------------------- MODULE TesterFacts -----------------------------
(***************************************************************************)
(* What every step of an invocation of hw_tester keeps, whatever goes on   *)
(* beside it: the types of its own variables, of the table and of the      *)
(* network.                                                                *)
(***************************************************************************)
EXTENDS HwTester, TLAPS

Testing == {"id_step", "id_finalize", "send", "recv", "log_prepare", "log_step",
            "log_commit", "log_write"}

TesterType ==
  /\ NetTypeOK /\ DbTypeOK /\ PcTypeOK
  /\ \A p \in Procs : pc[p] \in Testing => peripheral[p] \in Peripherals

LEMMA SuccessorType ==
  ASSUME NEW id \in IntMin..IntMax
  PROVE  Successor(id) \in IntMin..IntMax
BY IntMaxAssumption DEF Successor, IntMin

LEMMA RowType ==
  ASSUME DbTypeOK, NEW i \in DOMAIN rows
  PROVE  rows[i] \in Row /\ rows[i].test_id \in IntMin..IntMax
<1>1. rows[i] \in Row
  BY DEF DbTypeOK
<1> QED
  BY <1>1 DEF Row

LEMMA NextIdType ==
  ASSUME DbTypeOK, NEW b \in BOOLEAN
  PROVE  NextId(b) \subseteq IntMin..IntMax
<1>1. \A i \in Newest : Successor(rows[i].test_id) \in IntMin..IntMax
  BY SuccessorType, RowType DEF Newest
<1>2. 0 \in IntMin..IntMax
  BY IntMaxAssumption DEF IntMin
<1> QED
  BY <1>1, <1>2 DEF NextId

LEMMA UnlockType ==
  ASSUME DbTypeOK, NEW p \in Procs, Unlock(p), UNCHANGED rows
  PROVE  DbTypeOK'
BY DEF DbTypeOK, Unlock

LEMMA ExitType ==
  ASSUME TesterType, NEW p \in Procs, NEW code \in ExitCodes, Exit(p, code)
  PROVE  TesterType'
<1> USE DEF TesterType, Exit
<1>1. DbTypeOK'
  BY UnlockType
<1>2. PcTypeOK'
  BY DEF PcTypeOK, Goto, Labels
<1>3. NetTypeOK'
  BY DEF NetTypeOK, netVars
<1>4. \A q \in Procs : pc'[q] \in Testing => peripheral'[q] \in Peripherals
  BY DEF PcTypeOK, Goto, Testing
<1> QED BY <1>1, <1>2, <1>3, <1>4

LEMMA OutMsgByte ==
  ASSUME NEW c \in Command, NEW x \in Peripherals
  PROVE  x \in Byte /\ PLen(c, x) \in Byte
<1>1. x \in MsgTests => c.strlen[x] \in 0..256
  BY DEF Command
<1> QED
  BY <1>1 DEF PLen, Byte, Peripherals, TEST_TIM, TEST_UART, TEST_SPI, TEST_I2C, TEST_ADC

(* One step of an invocation of hw_tester.                                 *)
LEMMA TesterTypes ==
  ASSUME TesterType, NEW p \in Procs, Start(p) \/ TesterStep(p) \/ Kill(p)
  PROVE  TesterType'
<1> USE DEF TesterType, netVars, dbVars, Goto, Testing
<1>1. CASE Start(p)
  <2>1. \A c \in Commands : c \in Command /\ c.want \subseteq Peripherals
    BY TesterAssumption DEF Command
  <2> QED BY <1>1, <2>1 DEF Start, PcTypeOK, NetTypeOK, DbTypeOK, Labels
<1>2. CASE UdpInitNetwork(p)
  BY <1>2, ExitType DEF UdpInitNetwork, PcTypeOK, NetTypeOK, DbTypeOK, Labels, ExitCodes
<1>3. CASE InitDb(p)
  BY <1>3, ExitType DEF InitDb, PcTypeOK, NetTypeOK, DbTypeOK, Labels, ExitCodes
<1>4. CASE BeginTest(p)
  <2>1. todo[p] \subseteq Peripherals
    BY DEF PcTypeOK
  <2> QED BY <1>4, <2>1 DEF BeginTest, PcTypeOK, NetTypeOK, DbTypeOK, Labels
<1>5. CASE NoNextId(p)
  BY <1>5, ExitType DEF NoNextId, ExitCodes
<1>6. CASE Finish(p)
  BY <1>6, ExitType DEF Finish, ExitCodes
<1>7. CASE GetNextId(p)
  <2>1. NextId(TRUE) \subseteq IntMin..IntMax /\ NextId(FALSE) \subseteq IntMin..IntMax
    BY NextIdType
  <2>2. PICK id \in IntMin..IntMax : out_msg' = [out_msg EXCEPT ![p].test_id = id]
    BY <1>7, <2>1 DEF GetNextId, SetId
  <2>3. out_msg' \in [Procs -> OutMsg]
    BY <2>2 DEF PcTypeOK, OutMsg
  <2>4. DbTypeOK'
    BY <1>7 DEF GetNextId, DbTypeOK, LockShared, lockVars
  <2> QED BY <1>7, <2>3, <2>4 DEF GetNextId, PcTypeOK, NetTypeOK, Labels
<1>8. CASE LoadOutMsg(p)
  <2>1. cmd[p] \in Command /\ peripheral[p] \in Peripherals /\ out_msg[p] \in OutMsg
    BY <1>8 DEF LoadOutMsg, PcTypeOK
  <2>2. cmd[p].n \in Byte /\ out_msg[p].test_id \in IntMin..IntMax
    BY <2>1 DEF Command, OutMsg
  <2>3. out_msg' \in [Procs -> OutMsg]
    BY <1>8, <2>1, <2>2, OutMsgByte DEF LoadOutMsg, PcTypeOK, OutMsg
  <2>4. DbTypeOK'
    BY <1>8, UnlockType DEF LoadOutMsg, CloseDb
  <2> QED BY <1>8, <2>3, <2>4 DEF LoadOutMsg, PcTypeOK, NetTypeOK, Labels
<1>9. CASE UdpSendData(p)
  <2>1. CASE MayFail("sendto") /\ Exit(p, UDP_ERROR)
    BY <2>1, ExitType DEF ExitCodes
  <2>2. CASE ~(MayFail("sendto") /\ Exit(p, UDP_ERROR))
    <3> DEFINE m == [from |-> p, test_id |-> out_msg[p].test_id,
                     peripheral |-> out_msg[p].peripheral,
                     n_iter |-> out_msg[p].n_iter, p_len |-> out_msg[p].p_len]
    <3>1. out_msg[p] \in OutMsg
      BY DEF PcTypeOK
    <3>2. m \in Request
      BY <3>1, IntMaxAssumption DEF OutMsg, Request, IntMin
    <3>3. NetTypeOK'
      BY <1>9, <2>2, <3>2 DEF UdpSendData, SendRequest, NetTypeOK
    <3> QED BY <1>9, <2>2, <3>3 DEF UdpSendData, PcTypeOK, DbTypeOK, Labels
  <2> QED BY <1>9, <2>1, <2>2 DEF UdpSendData
<1>10. CASE UdpReceiveData(p)
  <2>1. CASE MayFail("recvfrom") /\ Exit(p, UDP_ERROR)
    BY <2>1, ExitType DEF ExitCodes
  <2>2. CASE ~(MayFail("recvfrom") /\ Exit(p, UDP_ERROR))
    <3>1. PICK m \in toPc :
            /\ TakeResponse(m)
            /\ in_msg' = [in_msg EXCEPT ![p] =
                            [test_id |-> m.test_id, test_result |-> m.test_result]]
      BY <1>10, <2>2 DEF UdpReceiveData
    <3>2. m \in Response
      BY DEF NetTypeOK
    <3>3. in_msg' \in [Procs -> InMsg]
      BY <3>1, <3>2 DEF PcTypeOK, InMsg, Response
    <3>4. NetTypeOK'
      <4>1. toUut' = toUut
        BY <1>10, <2>2 DEF UdpReceiveData
      <4> QED BY <3>1, <4>1, NetAssumption DEF NetTypeOK, TakeResponse
    <3> QED BY <1>10, <2>2, <3>3, <3>4 DEF UdpReceiveData, PcTypeOK, DbTypeOK, Labels
  <2> QED BY <1>10, <2>1, <2>2 DEF UdpReceiveData
<1>11. CASE LogPrepare(p)
  BY <1>11, ExitType DEF LogPrepare, LogFailed, PcTypeOK, NetTypeOK, DbTypeOK, Labels, ExitCodes
<1>12. CASE LogStep(p)
  BY <1>12 DEF LogStep, Reserve, lockVars, PcTypeOK, NetTypeOK, DbTypeOK, Labels
<1>13. CASE LogCommit(p)
  BY <1>13 DEF LogCommit, Escalate, PcTypeOK, NetTypeOK, DbTypeOK, Labels
<1>14. CASE LogWrite(p)
  <2>1. out_msg[p] \in OutMsg /\ peripheral[p] \in Peripherals
    BY <1>14 DEF LogWrite, PcTypeOK
  <2>2. LoggedRow(p) \in Row
    BY <2>1 DEF LoggedRow, ResultColumn, Row, Run, OutMsg
  <2>3. rows' \in Seq(Row)
    BY <1>14, <2>2 DEF LogWrite, DbTypeOK
  <2>4. DbTypeOK'
    BY <1>14, <2>3 DEF LogWrite, DbTypeOK, Unlock
  <2> QED BY <1>14, <2>4 DEF LogWrite, PcTypeOK, NetTypeOK, Labels
<1>15. CASE LogFinalize(p)
  BY <1>15, UnlockType DEF LogFinalize, PcTypeOK, NetTypeOK, Labels
<1>16. CASE PrintPrepare(p)
  <2>1. shown' \in [Procs -> Nat] /\ todo' \in [Procs -> SUBSET Peripherals]
    BY <1>16 DEF PrintPrepare, NextTest, PcTypeOK
  <2>2. pc' \in [Procs -> Labels] /\ pc'[p] \notin Testing
    BY <1>16 DEF PrintPrepare, NextTest, PcTypeOK, Labels
  <2>3. DbTypeOK' /\ NetTypeOK'
    BY <1>16 DEF PrintPrepare, DbTypeOK, NetTypeOK
  <2> QED BY <1>16, <2>1, <2>2, <2>3 DEF PrintPrepare, NextTest, PcTypeOK
<1>17. CASE PrintStep(p)
  <2>1. \A i \in FirstMatch(out_msg[p].test_id) : i \in Nat
    BY DEF FirstMatch, Matching, DbTypeOK
  <2>2. shown' \in [Procs -> Nat]
    BY <1>17, <2>1 DEF PrintStep, PcTypeOK
  <2>3. DbTypeOK'
    BY <1>17 DEF PrintStep, LockShared, lockVars, DbTypeOK
  <2> QED BY <1>17, <2>2, <2>3 DEF PrintStep, PcTypeOK, NetTypeOK, Labels
<1>18. CASE PrintFinalize(p)
  BY <1>18, UnlockType DEF PrintFinalize, NextTest, PcTypeOK, NetTypeOK, Labels
<1>19. CASE Kill(p)
  BY <1>19, ExitType DEF Kill, ExitCodes
<1> QED
  BY <1>1, <1>2, <1>3, <1>4, <1>5, <1>6, <1>7, <1>8, <1>9, <1>10, <1>11, <1>12, <1>13,
     <1>14, <1>15, <1>16, <1>17, <1>18, <1>19 DEF TesterStep
=============================================================================
