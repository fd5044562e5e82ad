----------------------------- MODULE VerifProofs ----------------------------
(***************************************************************************)
(* The safety properties of VerifSystem, for every value of the constants. *)
(*   TypeCorrect      every variable keeps its type                        *)
(*   NoLocks          nobody who waits for the network holds a lock       *)
(*   DistinctIds      sequential use never repeats an identifier           *)
(*   OwnAnswers       rows report the tests they claim to,                 *)
(*   OnePerformance   which were performed once                            *)
(*   SuccessIsEarned  success means that every iteration has passed        *)
(*   OwnInvocation    results come from tests of the same invocation       *)
(*   ExitZeroIsLogged, OwnRowPrinted   what sequential use may rely on     *)
(*   LedgerIsKept     the system implements TestLedger                     *)
(***************************************************************************)
EXTENDS VerifInvariants, UutFacts, TesterFacts

-----------------------------------------------------------------------------
(* Type correctness, for every number of invocations, every set of        *)
(* commands, every size of the receive ring and every int width.          *)
(* uut_pc # "poll" implies a real request in uut_msg: that part of IType   *)
(* is not in TypeOK, and is what makes the types of toPc and ran inductive.*)
IType ==
  /\ TypeOK
  /\ uut_pc # "poll" => uut_msg \in Request
  /\ uut_pc = "test" => iter <= uut_msg.n_iter
  /\ \A p \in Procs : pc[p] \in Testing => peripheral[p] \in Peripherals

-----------------------------------------------------------------------------
LEMMA TypeInit == Init => IType
<1> SUFFICES ASSUME Init PROVE IType
  OBVIOUS
<1> USE DEF Init, IType, TypeOK
<1>1. NetTypeOK
  BY NetAssumption DEF NetInit, NetTypeOK
<1>2. DbTypeOK
  <2>1. << >> \in Seq(Row)
    OBVIOUS
  <2> QED BY <2>1 DEF DbInit, DbTypeOK
<1>3. NoCommand \in Command
  BY DEF NoCommand, Command, Byte
<1>4. PcTypeOK
  BY <1>3, IntMaxAssumption
     DEF PcInit, PcTypeOK, Labels, OutMsg, InMsg, IntMin, Byte, ExitCodes
<1>5. UutTypeOK
  BY UutAssumption DEF UutInit, UutTypeOK, UutMsg, Byte
<1> QED
  BY <1>1, <1>2, <1>4, <1>5 DEF PcInit, UutInit, Testing

LEMMA TypeStep == IType /\ [Next]_vars => IType'
<1> SUFFICES ASSUME IType, [Next]_vars PROVE IType'
  OBVIOUS
<1>1. CASE \E p \in Procs : Tester(p)
  <2>1. TesterType'
    BY <1>1, TesterTypes DEF Tester, IType, TypeOK, TesterType
  <2>2. UNCHANGED uutVars
    BY <1>1 DEF Tester
  <2> QED BY <2>1, <2>2 DEF IType, TypeOK, TesterType, uutVars, UutTypeOK
<1>2. CASE Uut \/ DeliverToUut
  <2>1. UutType' /\ UNCHANGED <<dbVars, pcVars>>
    BY <1>2, UutTypes DEF Uut, DeliverToUut, IType, TypeOK, UutType
  <2> QED BY <2>1 DEF IType, TypeOK, UutType, dbVars, pcVars, DbTypeOK, PcTypeOK
<1>3. CASE Lose
  BY <1>3 DEF Lose, LoseRequest, LoseResponse, IType, TypeOK, NetTypeOK, DbTypeOK, PcTypeOK,
              UutTypeOK, dbVars, pcVars, uutVars
<1>4. CASE UNCHANGED vars
  BY <1>4 DEF vars, netVars, dbVars, pcVars, uutVars, IType, TypeOK, NetTypeOK, DbTypeOK,
              PcTypeOK, UutTypeOK
<1> QED BY <1>1, <1>2, <1>3, <1>4 DEF Next

(* Every variable of the system keeps its type, and the receive ring its   *)
(* size, whatever the network, the scheduler and the hardware do.          *)
THEOREM TypeInvariant == Spec => []IType
BY TypeInit, TypeStep, PTL DEF Spec

(* In particular TypeOK, which the runs check.                             *)
THEOREM TypeCorrect == Spec => []TypeOK
<1>1. IType => TypeOK
  BY DEF IType
<1> QED BY <1>1, TypeInvariant, PTL

-----------------------------------------------------------------------------
(* What the types say about the members of the sequences.                  *)
LEMMA MemberTypes ==
  ASSUME IType
  PROVE  /\ \A m \in toUut : m \in Request /\ m.from \in Procs
         /\ \A a \in toPc : a \in Response /\ a.from \in Procs
         /\ \A i \in DOMAIN rx_ring : rx_ring[i] \in Request /\ rx_ring[i].from \in Procs
         /\ uut_pc # "poll" => uut_msg.from \in Procs
         /\ \A k \in DOMAIN ran : ran[k] \in Performed /\ ran[k].request.from \in Procs
         /\ \A i \in DOMAIN rows : rows[i] \in Row /\ rows[i].run.proc \in Procs
<1> USE DEF IType, TypeOK
<1>1. \A m \in toUut : m \in Request
  BY DEF NetTypeOK
<1>2. \A a \in toPc : a \in Response
  BY DEF NetTypeOK
<1>3. \A i \in DOMAIN rx_ring : rx_ring[i] \in Request
  BY DEF UutTypeOK
<1>4. \A k \in DOMAIN ran : ran[k] \in Performed
  BY DEF UutTypeOK
<1>5. \A i \in DOMAIN rows : rows[i] \in Row
  BY DEF DbTypeOK
<1> QED
  BY <1>1, <1>2, <1>3, <1>4, <1>5 DEF Request, Response, Performed, Row, Run

-----------------------------------------------------------------------------
(* Locks.                                                                  *)
LEMMA LockStep == IType /\ LockInv /\ [Next]_vars => LockInv'
<1> SUFFICES ASSUME IType, LockInv, [Next]_vars PROVE LockInv'
  OBVIOUS
<1> USE DEF LockInv
<1>0. pc \in [Procs -> Labels] /\ readers \subseteq Procs /\ writer \in Procs \cup {None}
  BY DEF IType, TypeOK, PcTypeOK, DbTypeOK
<1>1. ASSUME NEW p \in Procs, Tester(p) PROVE LockInv'
  <2> USE NoneAssumption, <1>0 DEF Goto
  <2>1. ASSUME NEW code \in ExitCodes, Exit(p, code) PROVE LockInv'
    BY <2>1 DEF Exit, Unlock
  <2>2. CASE Start(p)
    BY <2>2 DEF Start, dbVars
  <2>3. CASE UdpInitNetwork(p)
    BY <2>1, <2>3 DEF UdpInitNetwork, dbVars, ExitCodes
  <2>4. CASE InitDb(p)
    BY <2>1, <2>4 DEF InitDb, dbVars, ExitCodes
  <2>5. CASE BeginTest(p)
    BY <2>5 DEF BeginTest, dbVars
  <2>6. CASE NoNextId(p) \/ Finish(p) \/ Kill(p)
    BY <2>1, <2>6 DEF NoNextId, Finish, Kill, ExitCodes
  <2>7. CASE GetNextId(p)
    <3>1. pc[p] = "id_step" /\ pc' = [pc EXCEPT ![p] = "id_finalize"]
      BY <2>7 DEF GetNextId
    <3>2. writer' = writer /\ pending' = pending /\ readers' \subseteq readers \cup {p}
      BY <2>7 DEF GetNextId, LockShared, lockVars
    <3> QED BY <3>1, <3>2
  <2>8. CASE LoadOutMsg(p)
    BY <2>8 DEF LoadOutMsg, CloseDb, Unlock
  <2>9. CASE UdpSendData(p)
    BY <2>1, <2>9 DEF UdpSendData, dbVars, ExitCodes
  <2>10. CASE UdpReceiveData(p)
    BY <2>1, <2>10 DEF UdpReceiveData, dbVars, ExitCodes
  <2>11. CASE LogPrepare(p)
    BY <2>1, <2>11 DEF LogPrepare, LogFailed, dbVars, ExitCodes
  <2>12. CASE LogStep(p)
    BY <2>12 DEF LogStep, CanReserve, Reserve, lockVars
  <2>13. CASE LogCommit(p)
    BY <2>13 DEF LogCommit, Escalate, CanCommit
  <2>14. CASE LogWrite(p)
    BY <2>14 DEF LogWrite, Unlock, dbVars
  <2>15. CASE LogFinalize(p)
    BY <2>15 DEF LogFinalize, Unlock
  <2>16. CASE PrintPrepare(p)
    BY <2>16 DEF PrintPrepare, NextTest, dbVars
  <2>17. CASE PrintStep(p)
    BY <2>17 DEF PrintStep, LockShared, lockVars
  <2>18. CASE PrintFinalize(p)
    BY <2>18 DEF PrintFinalize, NextTest, Unlock
  <2> QED
    BY <1>1, <2>2, <2>3, <2>4, <2>5, <2>6, <2>7, <2>8, <2>9, <2>10, <2>11, <2>12, <2>13,
       <2>14, <2>15, <2>16, <2>17, <2>18 DEF Tester, TesterStep
<1>2. CASE Uut \/ DeliverToUut \/ Lose \/ UNCHANGED vars
  BY <1>2 DEF Uut, DeliverToUut, Lose, vars, dbVars, pcVars
<1> QED BY <1>1, <1>2 DEF Next
LEMMA LockInit == Init => LockInv
  BY NoneAssumption DEF Init, DbInit, PcInit, LockInv

LEMMA Locks == Spec => []LockInv
<1>1. LockInv /\ UNCHANGED vars => LockInv'
  BY DEF LockInv, vars, dbVars, pcVars
<1> QED
  BY LockInit, LockStep, TypeInvariant, PTL DEF Spec

(* An invocation that sends a request or waits for the answer holds no     *)
(* lock, so that a recvfrom that blocks for ever blocks nobody else.       *)
THEOREM NoLocks == Spec => []NoLockAcrossNetwork
<1>1. LockInv => NoLockAcrossNetwork
  BY DEF LockInv, NoLockAcrossNetwork
<1> QED
  BY <1>1, Locks, PTL

-----------------------------------------------------------------------------
(* Identifiers, where invocations follow one another.                      *)
Sequential == ~Concurrent /\ "sqlite3_step" \notin Faults

Fetched == {"id_finalize", "send", "recv"} \cup Logging

LEMMA IdQuietStep ==
  ASSUME IType, IdInv, NEW p \in Procs, NEW l \in Labels, Live(p), Goto(p, l),
         l \in Fetched => pc[p] \in Fetched,
         UNCHANGED <<rows, out_msg>>, LockInv'
  PROVE  IdInv'
<1>0. pc \in [Procs -> Labels]
  BY DEF IType, TypeOK, PcTypeOK
<1>1. \A q \in Procs : Live(q)' => Live(q)
  BY <1>0 DEF Live, Goto
<1>2. \A q \in Procs : pc'[q] \in Fetched => pc[q] \in Fetched
  BY <1>0 DEF Goto
<1> QED
  BY <1>1, <1>2 DEF IdInv, IdsNeverRepeat, Fetched

(* MAX(test_id) + 1 is not in the table, or has wrapped around.            *)
LEMMA NextIdIsNew ==
  ASSUME IType, NEW id \in NextId(TRUE), NEW i \in DOMAIN rows
  PROVE  id = IntMin \/ rows[i].test_id # id
<1>1. rows \in Seq(Row) /\ IntMax \in Nat
  BY IntMaxAssumption DEF IType, TypeOK, DbTypeOK
<1>2. rows # << >>
  BY <1>1
<1>3. PICK k \in DOMAIN rows : id = Successor(rows[k].test_id) /\ rows[i].test_id <= rows[k].test_id
  BY <1>2 DEF NextId, Newest
<1>4. rows[i] \in Row /\ rows[k] \in Row
  BY <1>1
<1>5. rows[i].test_id \in Int /\ rows[k].test_id \in Int
  BY <1>1, <1>4 DEF Row, IntMin
<1> QED
  BY <1>3, <1>5 DEF Successor

LEMMA IdStep ==
  ASSUME Sequential, IType, IdInv, [Next]_vars
  PROVE  IdInv'
<1>0. /\ pc \in [Procs -> Labels] /\ out_msg \in [Procs -> OutMsg] /\ rows \in Seq(Row)
      /\ LockInv /\ LockInv'
  BY LockStep DEF IType, TypeOK, PcTypeOK, DbTypeOK, IdInv
<1>1. ASSUME NEW p \in Procs, Tester(p) PROVE IdInv'
  <2> DEFINE Quiet(l) == /\ l \in Labels /\ Live(p) /\ Goto(p, l)
                         /\ l \in Fetched => pc[p] \in Fetched
                         /\ UNCHANGED <<rows, out_msg>>
  <2>1. ASSUME NEW l, Quiet(l) PROVE IdInv'
    BY <1>0, <2>1, IdQuietStep
  <2>2. ASSUME NEW code, Exit(p, code), Live(p) PROVE IdInv'
    <3>1. Quiet("exited")
      BY <2>2 DEF Exit, Labels, Fetched, Logging
    <3> QED BY <3>1, <2>1
  <2>3. CASE Start(p)
    <3>1. pc' = [pc EXCEPT ![p] = "socket"] /\ UNCHANGED <<rows, out_msg>> /\ \A q \in Procs : ~Live(q)
      BY <2>3 DEF Start, Goto, dbVars, Sequential
    <3>2. \A q \in Procs : Live(q)' => q = p
      BY <1>0, <3>1 DEF Live
    <3>3. \A q \in Procs : pc'[q] \in Fetched => pc[q] \in Fetched
      BY <1>0, <3>1 DEF Fetched, Logging
    <3> QED BY <1>0, <3>1, <3>2, <3>3 DEF IdInv, IdsNeverRepeat, Fetched
  <2>4. CASE GetNextId(p)
    <3>1. /\ pc[p] = "id_step" /\ pc' = [pc EXCEPT ![p] = "id_finalize"] /\ UNCHANGED rows
          /\ Live(p)
      BY <2>4 DEF GetNextId, Goto, Live
    <3>2. Readable
      <4> SUFFICES ASSUME pending PROVE FALSE
        BY DEF Readable
      <4>1. writer \in Procs /\ pc[writer] \in {"log_write", "log_finalize"}
        BY <1>0 DEF LockInv, IType, TypeOK, DbTypeOK
      <4>2. writer = p
        BY <3>1, <4>1 DEF IdInv, Live
      <4> QED BY <3>1, <4>1, <4>2
    <3>3. PICK id \in NextId(TRUE) : out_msg' = [out_msg EXCEPT ![p].test_id = id]
      BY <2>4, <3>2 DEF GetNextId, SetId, Sequential, MayFail
    <3>4. out_msg'[p].test_id = id
      BY <1>0, <3>3 DEF OutMsg
    <3>5. id = IntMin \/ \A i \in DOMAIN rows : rows[i].test_id # id
      BY NextIdIsNew
    <3>6. \A q \in Procs : pc'[q] \in Fetched => q = p
      BY <1>0, <3>1 DEF IdInv, Live, Fetched, Logging
    <3>7. \A q \in Procs : Live(q)' => Live(q)
      BY <1>0, <3>1 DEF Live
    <3> QED BY <1>0, <3>1, <3>4, <3>5, <3>6, <3>7 DEF IdInv, IdsNeverRepeat, Fetched
  <2>5. CASE LoadOutMsg(p)
    <3>1. /\ pc[p] = "id_finalize" /\ pc' = [pc EXCEPT ![p] = "send"] /\ UNCHANGED rows
          /\ \A q \in Procs : out_msg'[q].test_id = out_msg[q].test_id
      BY <1>0, <2>5 DEF LoadOutMsg, Goto
    <3>2. \A q \in Procs : Live(q)' => Live(q)
      BY <1>0, <3>1 DEF Live
    <3>3. \A q \in Procs : pc'[q] \in Fetched => pc[q] \in Fetched
      BY <1>0, <3>1 DEF Fetched, Logging
    <3> QED BY <1>0, <3>1, <3>2, <3>3 DEF IdInv, IdsNeverRepeat, Fetched
  <2>6. CASE LogWrite(p)
    <3>1. CASE UNCHANGED rows
      <4>1. PICK l \in {"print_prepare", "log_finalize"} : Goto(p, l)
        BY <2>6 DEF LogWrite
      <4>2. Quiet(l)
        BY <2>6, <3>1, <4>1 DEF LogWrite, Live, Labels, Fetched, Logging
      <4> QED BY <4>2, <2>1
    <3>2. CASE rows' = Append(rows, LoggedRow(p)) /\ Goto(p, "print_prepare")
      <4>1. pc[p] = "log_write" /\ Live(p) /\ UNCHANGED out_msg
        BY <2>6 DEF LogWrite, Live
      <4>2. out_msg[p].test_id = IntMin \/ \A i \in DOMAIN rows : rows[i].test_id # out_msg[p].test_id
        BY <4>1 DEF IdInv, Logging
      <4>3. LoggedRow(p).test_id = out_msg[p].test_id
        BY DEF LoggedRow
      <4>4. /\ DOMAIN rows' = DOMAIN rows \cup {Len(rows) + 1}
            /\ \A i \in DOMAIN rows : rows'[i] = rows[i] /\ i < Len(rows) + 1
            /\ rows'[Len(rows) + 1] = LoggedRow(p)
        BY <1>0, <3>2
      <4>5. IdsNeverRepeat'
        <5> SUFFICES ASSUME NEW i \in DOMAIN rows', NEW j \in DOMAIN rows', i < j,
                            rows'[i].test_id = rows'[j].test_id
                     PROVE  rows'[j].test_id = IntMin
          BY DEF IdsNeverRepeat
        <5>1. CASE j \in DOMAIN rows
          <6>1. i \in DOMAIN rows
            BY <1>0, <5>1, <4>4
          <6> QED BY <5>1, <6>1, <4>4 DEF IdInv, IdsNeverRepeat
        <5>2. CASE j = Len(rows) + 1
          <6>1. i \in DOMAIN rows
            BY <1>0, <5>2, <4>4
          <6> QED BY <5>2, <6>1, <4>2, <4>3, <4>4
        <5> QED BY <4>4, <5>1, <5>2
      <4>6. \A q \in Procs : Live(q)' => Live(q)
        BY <1>0, <3>2, <4>1 DEF Live, Goto
      <4>7. \A q \in Procs : pc'[q] \notin Fetched
        BY <1>0, <3>2, <4>1 DEF IdInv, Live, Goto, Fetched, Logging
      <4> QED BY <1>0, <4>5, <4>6, <4>7 DEF IdInv, Fetched
    <3> QED BY <2>6, <3>1, <3>2 DEF LogWrite, dbVars
  <2>7. CASE UdpInitNetwork(p) \/ InitDb(p) \/ BeginTest(p) \/ NoNextId(p) \/ Finish(p) \/ Kill(p)
    <3>1. Live(p)
      BY <2>7 DEF UdpInitNetwork, InitDb, BeginTest, NoNextId, Finish, Kill, Live
    <3>2. (\E l \in {"init_db", "main", "id_step"} : Quiet(l)) \/ (\E code \in ExitCodes : Exit(p, code))
      BY <2>7, <3>1 DEF UdpInitNetwork, InitDb, BeginTest, NoNextId, Finish, Kill, ExitCodes,
           Labels, Fetched, Logging, dbVars
    <3> QED BY <3>1, <3>2, <2>1, <2>2
  <2>8. CASE UdpSendData(p) \/ UdpReceiveData(p) \/ LogPrepare(p) \/ LogStep(p) \/ LogCommit(p)
    <3>1. Live(p)
      BY <2>8 DEF UdpSendData, UdpReceiveData, LogPrepare, LogStep, LogCommit, Live
    <3>2. \/ \E l \in {"recv", "log_prepare", "log_step", "log_commit", "log_write",
                       "log_finalize", "print_prepare"} : Quiet(l)
          \/ \E code \in ExitCodes : Exit(p, code)
      BY <2>8, <3>1 DEF UdpSendData, UdpReceiveData, LogPrepare, LogFailed, LogStep, LogCommit,
           ExitCodes, Labels, Fetched, Logging, dbVars
    <3> QED BY <3>1, <3>2, <2>1, <2>2
  <2>9. CASE LogFinalize(p) \/ PrintPrepare(p) \/ PrintStep(p) \/ PrintFinalize(p)
    <3>1. Live(p)
      BY <2>9 DEF LogFinalize, PrintPrepare, PrintStep, PrintFinalize, Live
    <3>2. \E l \in {"print_prepare", "print_step", "print_finalize", "main"} : Quiet(l)
      BY <2>9, <3>1 DEF LogFinalize, PrintPrepare, PrintStep, PrintFinalize, NextTest,
           Labels, Fetched, Logging, dbVars
    <3> QED BY <3>1, <3>2, <2>1
  <2> QED
    BY <1>1, <2>3, <2>4, <2>5, <2>6, <2>7, <2>8, <2>9 DEF Tester, TesterStep
<1>2. CASE Uut \/ DeliverToUut \/ Lose \/ UNCHANGED vars
  <2>1. UNCHANGED <<pc, rows, out_msg>>
    BY <1>2 DEF Uut, DeliverToUut, Lose, vars, dbVars, pcVars
  <2> QED BY <1>0, <2>1 DEF IdInv, IdsNeverRepeat, Live
<1> QED BY <1>1, <1>2 DEF Next

LEMMA Ids == ASSUME Sequential PROVE Spec => []IdInv
<1>1. Init => IdInv
  BY LockInit DEF Init, DbInit, PcInit, IdInv, IdsNeverRepeat, Live, Logging
<1>2. IType /\ IdInv /\ [Next]_vars => IdInv'
  BY IdStep
<1> QED
  BY <1>1, <1>2, TypeInvariant, PTL DEF Spec

(* Where invocations follow one another and SQLite's statements succeed,   *)
(* no identifier is given out twice until the largest int has been.        *)
THEOREM DistinctIds == ASSUME Sequential PROVE Spec => []IdsNeverRepeat
<1>1. IdInv => IdsNeverRepeat
  BY DEF IdInv
<1> QED BY <1>1, Ids, PTL

-----------------------------------------------------------------------------
(* Whose answer it is, over a network that delivers nothing twice.         *)

(* What p may change without leaving the rest of OwnInv behind: its place, *)
(* as long as it neither leaves recv nor enters it or its predecessors.    *)
QuietMove(p, l) ==
  /\ pc[p] \in {"recv", "exited"} => l \in {"recv", "exited"}
  /\ l \in Logging => pc[p] \in Logging
  /\ l \in InTest => pc[p] \in InTest
  /\ l \in {"send", "recv"} => pc[p] \in {"send", "recv"}
  /\ l \in {"idle", "socket", "init_db"} => pc[p] \in {"idle", "socket", "init_db"}
  /\ l \in Asking \cup {"main"} => pc[p] \in Asking \cup {"main", "idle", "socket", "init_db"}
  /\ pc[p] \in Printing \cup {"exited"} => l \in Printing \cup {"exited"}

LEMMA OwnQuietStep ==
  ASSUME IType, OwnInv, NEW p \in Procs, NEW l \in Labels, QuietMove(p, l), Goto(p, l),
         UNCHANGED <<todo, peripheral, out_msg, in_msg, rows, netVars, uutVars>>
  PROVE  OwnInv'
<1>0. pc \in [Procs -> Labels] /\ pc' = [pc EXCEPT ![p] = l]
  BY DEF IType, TypeOK, PcTypeOK, Goto
<1> USE MemberTypes DEF netVars, uutVars
<1>1. RequestInv'
  BY <1>0 DEF OwnInv, RequestInv, Outstanding, QuietMove
<1>2. SingleInv' /\ ResultIsOwn' /\ PerformedOnce'
  BY DEF OwnInv, SingleInv, ResultIsOwn, PerformedOnce, Reports
<1>3. AnswerInv'
  BY <1>0 DEF OwnInv, AnswerInv, Found, QuietMove
<1>4. ProgressInv'
  BY <1>0 DEF OwnInv, ProgressInv, QuietMove
<1> QED BY <1>1, <1>2, <1>3, <1>4 DEF OwnInv

(* The steps that fix what p will ask for: nothing of p is on its way.     *)
LEMMA OwnAskStep ==
  ASSUME IType, OwnInv, NEW p \in Procs,
         Start(p) \/ BeginTest(p) \/ GetNextId(p) \/ LoadOutMsg(p), UNCHANGED uutVars
  PROVE  OwnInv'
<1>0. /\ pc \in [Procs -> Labels] /\ out_msg \in [Procs -> OutMsg]
      /\ peripheral \in [Procs -> Peripherals \cup {0}] /\ todo \in [Procs -> SUBSET Peripherals]
  BY DEF IType, TypeOK, PcTypeOK
<1>1. /\ pc[p] \in {"idle", "main", "id_step", "id_finalize"}
      /\ UNCHANGED <<in_msg, rows, netVars, uutVars>>
  BY DEF Start, BeginTest, GetNextId, LoadOutMsg, dbVars
<1>2. \A q \in Procs \ {p} : /\ pc'[q] = pc[q] /\ out_msg'[q] = out_msg[q]
                             /\ peripheral'[q] = peripheral[q] /\ todo'[q] = todo[q]
  BY <1>0 DEF Start, BeginTest, GetNextId, LoadOutMsg, SetId, Goto
<1>3. pc'[p] \in {"socket", "id_step", "id_finalize", "send"}
  BY <1>0 DEF Start, BeginTest, GetNextId, LoadOutMsg, Goto
<1> USE MemberTypes DEF netVars, uutVars
<1>4. RequestInv'
  BY <1>1, <1>2 DEF OwnInv, RequestInv, Outstanding
<1>5. SingleInv' /\ ResultIsOwn' /\ PerformedOnce'
  BY <1>1 DEF OwnInv, SingleInv, ResultIsOwn, PerformedOnce, Reports
<1>6. AnswerInv'
  BY <1>1, <1>2, <1>3 DEF OwnInv, AnswerInv, Found, Logging
<1>7. ProgressInv'
  <2>1. CASE Start(p)
    BY <1>0, <1>1, <1>2, <2>1 DEF Start, Goto, OwnInv, ProgressInv, InTest, Asking, Logging, Printing
  <2>2. CASE BeginTest(p)
    BY <1>0, <1>1, <1>2, <2>2 DEF BeginTest, Goto, OwnInv, ProgressInv, InTest, Asking, Logging, Printing
  <2>3. CASE GetNextId(p)
    BY <1>0, <1>1, <1>2, <2>3 DEF GetNextId, Goto, OwnInv, ProgressInv, InTest, Asking, Logging, Printing
  <2>4. CASE LoadOutMsg(p)
    BY <1>0, <1>1, <1>2, <2>4 DEF LoadOutMsg, Goto, OwnInv, ProgressInv, InTest, Asking, Logging, Printing
  <2> QED BY <2>1, <2>2, <2>3, <2>4
<1> QED BY <1>4, <1>5, <1>6, <1>7 DEF OwnInv
LEMMA OwnNextStep ==
  ASSUME IType, OwnInv, NEW p \in Procs, pc[p] \in Printing, NextTest(p),
         UNCHANGED <<peripheral, out_msg, in_msg, rows, netVars, uutVars>>
  PROVE  OwnInv'
<1>0. /\ pc \in [Procs -> Labels] /\ pc' = [pc EXCEPT ![p] = "main"]
      /\ todo \in [Procs -> SUBSET Peripherals]
      /\ todo' = [todo EXCEPT ![p] = @ \ {peripheral[p]}]
  BY DEF IType, TypeOK, PcTypeOK, Goto, NextTest
<1> USE MemberTypes DEF netVars, uutVars
<1>1. RequestInv'
  BY <1>0 DEF OwnInv, RequestInv, Outstanding, Printing
<1>2. SingleInv' /\ ResultIsOwn' /\ PerformedOnce'
  BY DEF OwnInv, SingleInv, ResultIsOwn, PerformedOnce, Reports
<1>3. AnswerInv'
  BY <1>0 DEF OwnInv, AnswerInv, Found, Printing, Logging
<1>4. ProgressInv'
  BY <1>0 DEF OwnInv, ProgressInv, InTest, Asking, Logging, Printing
<1> QED BY <1>1, <1>2, <1>3, <1>4 DEF OwnInv

(* A request is sent when nothing is known yet of the test it orders.      *)
LEMMA OwnSendStep ==
  ASSUME IType, OwnInv, NEW p \in Procs, pc[p] = "send", Goto(p, "recv"),
         NEW m, m.from = p, m.test_id = out_msg[p].test_id,
         m.peripheral = out_msg[p].peripheral, SendRequest(m),
         UNCHANGED <<todo, peripheral, out_msg, in_msg, rows, toPc, uutVars>>
  PROVE  OwnInv'
<1>0. pc \in [Procs -> Labels] /\ pc' = [pc EXCEPT ![p] = "recv"] /\ toUut' = toUut \cup {m}
  BY DEF IType, TypeOK, PcTypeOK, Goto, SendRequest
<1> USE MemberTypes DEF uutVars
<1>1. Outstanding(m)'
  <2>1. peripheral[p] \in todo[p] /\ out_msg[p].peripheral = peripheral[p]
    BY DEF OwnInv, ProgressInv, InTest, Asking
  <2>2. peripheral[p] \in Peripherals
    BY <2>1 DEF IType, TypeOK, PcTypeOK
  <2> QED BY <1>0, <2>1, <2>2 DEF OwnInv, ProgressInv, AnswerInv, Outstanding, Asking
<1>2. RequestInv'
  BY <1>0, <1>1 DEF OwnInv, RequestInv, Outstanding
<1>3. SingleInv'
  BY <1>0 DEF OwnInv, RequestInv, Outstanding, SingleInv
<1>4. ResultIsOwn' /\ PerformedOnce'
  BY DEF OwnInv, ResultIsOwn, PerformedOnce, Reports
<1>5. AnswerInv'
  BY <1>0 DEF OwnInv, AnswerInv, Found, Logging
<1>6. ProgressInv'
  BY <1>0 DEF OwnInv, ProgressInv, InTest, Asking, Logging, Printing
<1> QED BY <1>2, <1>3, <1>4, <1>5, <1>6 DEF OwnInv

(* Two answers to one invocation are the same datagram.                    *)
LEMMA OneAnswer ==
  ASSUME IType, OwnInv, NEW a \in toPc, NEW b \in toPc, a.from = b.from
  PROVE  a = b
<1>1. a.test_result = b.test_result /\ a.test_id = b.test_id
  BY DEF OwnInv, AnswerInv, Found, PerformedOnce
<1> QED BY <1>1, MemberTypes DEF Response

LEMMA OwnReceiveStep ==
  ASSUME IType, OwnInv, dups' = 0, NEW p \in Procs, pc[p] = "recv", Goto(p, "log_prepare"),
         NEW m \in toPc, ToMySocket(p, m), TakeResponse(m),
         in_msg' = [in_msg EXCEPT ![p] = [test_id |-> m.test_id, test_result |-> m.test_result]],
         UNCHANGED <<todo, peripheral, out_msg, rows, toUut, uutVars>>
  PROVE  OwnInv'
<1>0. /\ pc \in [Procs -> Labels] /\ pc' = [pc EXCEPT ![p] = "log_prepare"] /\ m.from = p
      /\ in_msg \in [Procs -> InMsg] /\ toPc' = toPc \ {m}
  BY DEF IType, TypeOK, PcTypeOK, NetTypeOK, Goto, ToMySocket, TakeResponse
<1> USE MemberTypes DEF uutVars
<1>1. \A a \in toPc' : a \in toPc /\ a.from # p
  BY <1>0, OneAnswer
<1>2. RequestInv'
  BY <1>0, <1>1 DEF OwnInv, RequestInv, Outstanding
<1>3. SingleInv' /\ ResultIsOwn' /\ PerformedOnce'
  BY DEF OwnInv, SingleInv, ResultIsOwn, PerformedOnce, Reports
<1>4. AnswerInv'
  BY <1>0, <1>1 DEF OwnInv, AnswerInv, Found, Logging
<1>5. ProgressInv'
  BY <1>0 DEF OwnInv, ProgressInv, InTest, Asking, Logging, Printing
<1> QED BY <1>2, <1>3, <1>4, <1>5 DEF OwnInv

(* The row that is written reports the test that in_msg is the answer to.  *)
LEMMA OwnWriteStep ==
  ASSUME IType, OwnInv, NEW p \in Procs, pc[p] = "log_write", Goto(p, "print_prepare"),
         rows' = Append(rows, LoggedRow(p)),
         UNCHANGED <<todo, peripheral, out_msg, in_msg, netVars, uutVars>>
  PROVE  OwnInv'
<1>0. /\ pc \in [Procs -> Labels] /\ pc' = [pc EXCEPT ![p] = "print_prepare"]
      /\ rows \in Seq(Row)
  BY DEF IType, TypeOK, PcTypeOK, DbTypeOK, Goto
<1>1. /\ DOMAIN rows' = DOMAIN rows \cup {Len(rows) + 1}
      /\ \A i \in DOMAIN rows : rows'[i] = rows[i]
      /\ rows'[Len(rows) + 1] = LoggedRow(p)
  BY <1>0
<1> USE MemberTypes DEF netVars, uutVars
<1>2. RequestInv'
  BY <1>0 DEF OwnInv, RequestInv, Outstanding
<1>3. SingleInv' /\ PerformedOnce'
  BY DEF OwnInv, SingleInv, PerformedOnce
<1>4. AnswerInv'
  BY <1>0 DEF OwnInv, AnswerInv, Found, Logging
<1>5. ResultIsOwn'
  <2>1. PICK k \in DOMAIN ran : Found(p, k) /\ ran[k].result = in_msg[p].test_result
    BY DEF OwnInv, AnswerInv, Logging
  <2>2. Reports(LoggedRow(p), ran[k])
    BY <2>1 DEF Reports, Found, LoggedRow, ResultColumn
  <2>3. \A i \in DOMAIN rows : \E j \in DOMAIN ran : Reports(rows[i], ran[j])
    BY DEF OwnInv, ResultIsOwn
  <2> QED BY <1>1, <2>2, <2>3 DEF ResultIsOwn, Reports
<1>6. ProgressInv'
  <2>1. LoggedRow(p).run.proc = p /\ LoggedRow(p).run.peripheral = peripheral[p]
    BY DEF LoggedRow
  <2>2. \A i \in DOMAIN rows' :
          LET q == rows'[i].run.proc  x == rows'[i].run.peripheral IN
          /\ pc'[q] \notin {"idle", "socket", "init_db"}
          /\ x \in todo[q] => x = peripheral[q] /\ pc'[q] \in Printing \cup {"exited"}
    BY <1>0, <1>1, <2>1 DEF OwnInv, ProgressInv, Printing
  <2> QED BY <1>0, <2>2 DEF OwnInv, ProgressInv, InTest, Asking, Logging, Printing
<1> QED BY <1>2, <1>3, <1>4, <1>5, <1>6 DEF OwnInv
(* A request is somewhere on its way, or gone; an answer may be gone.      *)
LEMMA OwnNetStep ==
  ASSUME IType, OwnInv, dups' = 0, DeliverToUut \/ Lose
  PROVE  OwnInv'
<1>0. /\ UNCHANGED <<pc, todo, peripheral, out_msg, in_msg, rows, uut_pc, uut_msg, ran>>
      /\ toPc' \subseteq toPc /\ toUut' \subseteq toUut
      /\ \/ rx_ring' = rx_ring
         \/ \E m \in toUut : toUut' = toUut \ {m} /\ rx_ring' = Append(rx_ring, m)
  BY DEF DeliverToUut, EthReceive, EthMissed, TakeRequest, Lose, LoseRequest, LoseResponse,
     IType, TypeOK, NetTypeOK, uutVars, dbVars, pcVars
<1> USE MemberTypes
<1>1. ResultIsOwn' /\ PerformedOnce' /\ AnswerInv' /\ ProgressInv'
  BY <1>0 DEF OwnInv, ResultIsOwn, PerformedOnce, Reports, AnswerInv, Found, ProgressInv
<1>2. CASE rx_ring' = rx_ring
  BY <1>0, <1>1, <1>2 DEF OwnInv, RequestInv, Outstanding, SingleInv
<1>3. ASSUME NEW m \in toUut, toUut' = toUut \ {m}, rx_ring' = Append(rx_ring, m)
      PROVE  OwnInv'
  <2>1. /\ DOMAIN rx_ring' = DOMAIN rx_ring \cup {Len(rx_ring) + 1}
        /\ \A i \in DOMAIN rx_ring : rx_ring'[i] = rx_ring[i]
        /\ rx_ring'[Len(rx_ring) + 1] = m
    BY <1>3 DEF IType, TypeOK, UutTypeOK
  <2>2. RequestInv'
    BY <1>0, <1>3, <2>1 DEF OwnInv, RequestInv, Outstanding
  <2>3. SingleInv'
    BY <1>0, <1>3, <2>1 DEF OwnInv, SingleInv
  <2> QED BY <1>1, <2>2, <2>3 DEF OwnInv
<1> QED BY <1>0, <1>2, <1>3

LEMMA OwnUutStep ==
  ASSUME IType, OwnInv, Uut
  PROVE  OwnInv'
<1>0. UNCHANGED <<pc, todo, peripheral, out_msg, in_msg, rows>>
  BY DEF Uut, dbVars, pcVars
<1> USE MemberTypes
<1>1. CASE UdpRecvCallback
  <2>1. /\ UNCHANGED <<toUut, toPc, ran>> /\ rx_ring # << >>
        /\ uut_msg' = rx_ring[1] /\ uut_pc' = "test" /\ uut_pc = "poll"
        /\ rx_ring' = Tail(rx_ring) /\ rx_ring \in Seq(Request)
    BY <1>1 DEF UdpRecvCallback, FramesLeft, netVars, IType, TypeOK, UutTypeOK
  <2>2. /\ 1 \in DOMAIN rx_ring
        /\ \A i \in DOMAIN rx_ring' : i + 1 \in DOMAIN rx_ring /\ i + 1 # 1
                                      /\ rx_ring'[i] = rx_ring[i + 1]
    BY <2>1
  <2>3. RequestInv'
    BY <1>0, <2>1, <2>2 DEF OwnInv, RequestInv, Outstanding
  <2>4. SingleInv'
    BY <2>1, <2>2 DEF OwnInv, SingleInv
  <2>5. ResultIsOwn' /\ PerformedOnce' /\ AnswerInv' /\ ProgressInv'
    BY <1>0, <2>1 DEF OwnInv, ResultIsOwn, PerformedOnce, Reports, AnswerInv, Found, ProgressInv
  <2> QED BY <2>3, <2>4, <2>5 DEF OwnInv
<1>2. CASE SendResult
  <2> DEFINE e == [request |-> uut_msg, passes |-> iter, result |-> result]
  <2>1. /\ UNCHANGED <<toUut, rx_ring, uut_msg>> /\ uut_pc = "reply" /\ uut_pc' = "poll"
        /\ ran' = Append(ran, e) /\ ran \in Seq(Performed)
        /\ toPc' \subseteq toPc \cup {[from |-> uut_msg.from, test_id |-> uut_msg.test_id,
                                       test_result |-> result]}
    BY <1>2 DEF SendResult, SendResponse, IType, TypeOK, UutTypeOK
  <2>2. /\ DOMAIN ran' = DOMAIN ran \cup {Len(ran) + 1}
        /\ \A k \in DOMAIN ran : ran'[k] = ran[k]
        /\ ran'[Len(ran) + 1] = e
    BY <2>1
  <2>3. Outstanding(uut_msg) /\ uut_msg.from \in Procs
    BY <2>1 DEF OwnInv, RequestInv
  <2>4. RequestInv'
    <3>1. ASSUME NEW m, m.from # uut_msg.from, Outstanding(m) PROVE Outstanding(m)'
      BY <1>0, <2>1, <2>2, <3>1 DEF Outstanding
    <3> QED BY <2>1, <3>1 DEF OwnInv, RequestInv, SingleInv
  <2>5. SingleInv'
    BY <2>1 DEF OwnInv, SingleInv
  <2>6. AnswerInv'
    <3>1. Len(ran') \in DOMAIN ran' /\ ran'[Len(ran')] = e /\ Found(uut_msg.from, Len(ran))'
      <4>1. Len(ran') = Len(ran) + 1
        BY <2>1
      <4> QED BY <1>0, <2>1, <2>2, <2>3, <4>1 DEF Found, Outstanding
    <3>2. \A p \in Procs, k \in DOMAIN ran : Found(p, k) => Found(p, k)'
      BY <1>0, <2>2 DEF Found
    <3>3. \A a \in toPc' :
            /\ pc'[a.from] \in {"recv", "exited"}
            /\ a.test_id = out_msg'[a.from].test_id
            /\ \E k \in DOMAIN ran' : Found(a.from, k)' /\ ran'[k].result = a.test_result
      <4> SUFFICES ASSUME NEW a \in toPc'
                   PROVE  /\ pc[a.from] \in {"recv", "exited"}
                          /\ a.test_id = out_msg[a.from].test_id
                          /\ \E k \in DOMAIN ran' : Found(a.from, k)' /\ ran'[k].result = a.test_result
        BY <1>0
      <4>1. CASE a \in toPc
        BY <4>1, <2>2, <3>2 DEF OwnInv, AnswerInv
      <4>2. CASE a = [from |-> uut_msg.from, test_id |-> uut_msg.test_id, test_result |-> result]
        BY <4>2, <2>1, <2>3, <3>1 DEF Outstanding
      <4> QED BY <2>1, <4>1, <4>2
    <3>4. \A p \in Procs : pc'[p] \in Logging =>
            \E k \in DOMAIN ran' : Found(p, k)' /\ ran'[k].result = in_msg'[p].test_result
      BY <1>0, <2>2, <3>2 DEF OwnInv, AnswerInv
    <3> QED BY <3>3, <3>4 DEF AnswerInv
  <2>7. ProgressInv'
    BY <1>0, <2>2, <2>3 DEF OwnInv, ProgressInv, Outstanding, Asking
  <2>8. ResultIsOwn'
    BY <1>0, <2>2 DEF OwnInv, ResultIsOwn, Reports
  <2>9. PerformedOnce'
    BY <2>2, <2>3 DEF OwnInv, PerformedOnce, Outstanding
  <2> QED BY <2>4, <2>5, <2>6, <2>7, <2>8, <2>9 DEF OwnInv
<1>3. CASE UnknownPeripheral \/ IterationPasses \/ IterationFails \/ IterationSpins \/ AllPassed
  <2>1. /\ UNCHANGED <<toUut, toPc, rx_ring, uut_msg, ran>>
        /\ uut_pc # "poll" /\ uut_pc' # "poll"
    BY <1>3 DEF UnknownPeripheral, IterationPasses, IterationFails, IterationSpins, AllPassed,
         TestEnds, netVars
  <2> QED BY <1>0, <2>1 DEF OwnInv, RequestInv, Outstanding, SingleInv, ResultIsOwn,
            PerformedOnce, Reports, AnswerInv, Found, ProgressInv
<1> QED BY <1>1, <1>2, <1>3 DEF Uut, UutStep
LEMMA OwnTesterStep ==
  ASSUME IType, OwnInv, dups' = 0, NEW p \in Procs, Tester(p)
  PROVE  OwnInv'
<1> DEFINE Quiet(l) ==
      /\ l \in Labels /\ QuietMove(p, l) /\ Goto(p, l)
      /\ UNCHANGED <<todo, peripheral, out_msg, in_msg, rows, netVars, uutVars>>
<1>1. ASSUME NEW l, Quiet(l) PROVE OwnInv'
  BY <1>1, OwnQuietStep
<1>2. ASSUME NEW code, Exit(p, code), UNCHANGED uutVars PROVE OwnInv'
  <2>1. Quiet("exited")
    BY <1>2 DEF Exit, QuietMove, Labels, Logging, InTest, Asking, Printing
  <2> QED BY <2>1, <1>1
<1>3. UNCHANGED uutVars
  BY DEF Tester
<1>4. CASE Start(p) \/ BeginTest(p) \/ GetNextId(p) \/ LoadOutMsg(p)
  BY <1>3, <1>4, OwnAskStep
<1>5. CASE UdpInitNetwork(p) \/ InitDb(p) \/ NoNextId(p) \/ Finish(p) \/ Kill(p)
  <2>1. (\E l \in {"init_db", "main"} : Quiet(l)) \/ (\E code \in ExitCodes : Exit(p, code))
    BY <1>3, <1>5 DEF UdpInitNetwork, InitDb, NoNextId, Finish, Kill, ExitCodes, QuietMove,
         Labels, Logging, InTest, Asking, Printing, dbVars
  <2> QED BY <1>1, <1>2, <1>3, <2>1
<1>6. CASE UdpSendData(p)
  <2>1. CASE \E code \in ExitCodes : Exit(p, code)
    BY <1>2, <1>3, <2>1
  <2>2. CASE ~ \E code \in ExitCodes : Exit(p, code)
    <3> DEFINE m == [from |-> p, test_id |-> out_msg[p].test_id,
                     peripheral |-> out_msg[p].peripheral,
                     n_iter |-> out_msg[p].n_iter, p_len |-> out_msg[p].p_len]
    <3>1. /\ pc[p] = "send" /\ SendRequest(m) /\ Goto(p, "recv")
          /\ UNCHANGED <<todo, peripheral, out_msg, in_msg, rows, toPc>>
      BY <1>6, <2>2 DEF UdpSendData, ExitCodes, dbVars
    <3>2. m.from = p /\ m.test_id = out_msg[p].test_id /\ m.peripheral = out_msg[p].peripheral
      OBVIOUS
    <3> HIDE DEF m
    <3> QED BY <1>3, <3>1, <3>2, OwnSendStep
  <2> QED BY <2>1, <2>2
<1>7. CASE UdpReceiveData(p)
  <2>1. CASE \E code \in ExitCodes : Exit(p, code)
    BY <1>2, <1>3, <2>1
  <2>2. CASE ~ \E code \in ExitCodes : Exit(p, code)
    <3>1. PICK m \in toPc :
            /\ pc[p] = "recv" /\ ToMySocket(p, m) /\ TakeResponse(m) /\ Goto(p, "log_prepare")
            /\ in_msg' = [in_msg EXCEPT ![p] =
                            [test_id |-> m.test_id, test_result |-> m.test_result]]
            /\ UNCHANGED <<todo, peripheral, out_msg, rows, toUut>>
      BY <1>7, <2>2 DEF UdpReceiveData, ExitCodes, dbVars
    <3> QED BY <1>3, <3>1, OwnReceiveStep
  <2> QED BY <2>1, <2>2
<1>8. CASE LogPrepare(p) \/ LogStep(p) \/ LogCommit(p) \/ LogFinalize(p) \/ PrintStep(p)
  <2>1. \/ \E l \in {"log_step", "log_commit", "log_write", "log_finalize",
                     "print_prepare", "print_finalize"} : Quiet(l)
        \/ \E code \in ExitCodes : Exit(p, code)
    BY <1>3, <1>8 DEF LogPrepare, LogFailed, LogStep, LogCommit, LogFinalize, PrintStep,
         ExitCodes, QuietMove, Labels, Logging, InTest, Asking, Printing, dbVars
  <2> QED BY <1>1, <1>2, <1>3, <2>1
<1>9. CASE LogWrite(p)
  <2>1. \/ Quiet("log_finalize")
        \/ /\ pc[p] = "log_write" /\ Goto(p, "print_prepare") /\ rows' = Append(rows, LoggedRow(p))
           /\ UNCHANGED <<todo, peripheral, out_msg, in_msg, netVars>>
    BY <1>3, <1>9 DEF LogWrite, QuietMove, Labels, Logging, InTest, Asking, Printing, dbVars
  <2> QED BY <1>1, <1>3, <2>1, OwnWriteStep
<1>10. CASE PrintPrepare(p) \/ PrintFinalize(p)
  <2>1. \/ Quiet("print_step")
        \/ /\ pc[p] \in Printing /\ NextTest(p)
           /\ UNCHANGED <<peripheral, out_msg, in_msg, rows, netVars>>
    BY <1>3, <1>10 DEF PrintPrepare, PrintFinalize, QuietMove, Labels, Logging, InTest,
         Asking, Printing, dbVars
  <2> QED BY <1>1, <1>3, <2>1, OwnNextStep
<1> QED
  BY <1>4, <1>5, <1>6, <1>7, <1>8, <1>9, <1>10 DEF Tester, TesterStep

LEMMA OwnStep == IType /\ OwnInv /\ [Next]_vars /\ dups' = 0 => OwnInv'
<1> SUFFICES ASSUME IType, OwnInv, [Next]_vars, dups' = 0 PROVE OwnInv'
  OBVIOUS
<1>1. CASE UNCHANGED vars
  BY <1>1 DEF vars, netVars, dbVars, pcVars, uutVars, OwnInv, RequestInv, Outstanding, SingleInv,
     AnswerInv, Found, ProgressInv, ResultIsOwn, Reports, PerformedOnce
<1> QED BY <1>1, OwnTesterStep, OwnUutStep, OwnNetStep DEF Next

LEMMA OwnInit == Init => OwnInv
  BY NoneAssumption DEF Init, NetInit, DbInit, PcInit, UutInit, OwnInv, RequestInv, SingleInv,
     AnswerInv, ProgressInv, ResultIsOwn, PerformedOnce, InTest, Asking, Logging, Printing

(* A datagram that has been delivered twice stays counted.                 *)
LEMMA DupsGrow ==
  ASSUME IType, [Next]_vars
  PROVE  dups' = 0 => dups = 0
<1>0. dups \in Nat
  BY NetAssumption DEF IType, TypeOK, NetTypeOK
<1>1. ASSUME NEW p \in Procs, Tester(p) PROVE dups' = 0 => dups = 0
  <2>1. CASE UdpReceiveData(p)
    BY <1>0, <2>1 DEF UdpReceiveData, TakeResponse, Exit, netVars
  <2>2. CASE ~UdpReceiveData(p)
    <3>1. UNCHANGED dups
      BY <1>1, <2>2 DEF Tester, TesterStep, Start, UdpInitNetwork, InitDb, BeginTest, NoNextId,
         Finish, GetNextId, LoadOutMsg, UdpSendData, LogPrepare, LogFailed, LogStep, LogCommit,
         LogWrite, LogFinalize, PrintPrepare, PrintStep, PrintFinalize, Kill, Exit, netVars
    <3> QED BY <3>1
  <2> QED BY <2>1, <2>2
<1>2. CASE DeliverToUut
  BY <1>0, <1>2 DEF DeliverToUut, EthReceive, EthMissed, TakeRequest
<1>3. CASE Uut \/ Lose \/ UNCHANGED vars
  BY <1>3 DEF Uut, UutStep, UdpRecvCallback, UnknownPeripheral, IterationPasses, IterationFails,
     IterationSpins, AllPassed, TestEnds, SendResult, Lose, LoseRequest, LoseResponse, netVars, vars
<1> QED BY <1>1, <1>2, <1>3 DEF Next

LEMMA Owns == Spec => [](dups = 0 => OwnInv)
<1>1. IType /\ (dups = 0 => OwnInv) /\ [Next]_vars => (dups = 0 => OwnInv)'
  BY OwnStep, DupsGrow
<1> QED
  BY <1>1, OwnInit, TypeInvariant, PTL DEF Spec

LEMMA NoDups == ASSUME MaxDups = 0 PROVE Spec => []OwnInv
<1>1. IType => dups = 0
  BY DEF IType, TypeOK, NetTypeOK
<1> QED BY <1>1, Owns, TypeInvariant, PTL

(* Where no datagram is delivered twice, every row reports the test it     *)
(* claims to, although process_test compares nothing of the answer with    *)
(* its request, and whoever is killed, lost or refused meanwhile.          *)
THEOREM OwnAnswers == ASSUME MaxDups = 0 PROVE Spec => []ResultIsOwn
<1>1. OwnInv => ResultIsOwn
  BY DEF OwnInv
<1> QED BY <1>1, NoDups, PTL

(* ... and the UUT performs each test ordered at most once.                *)
THEOREM OnePerformance == ASSUME MaxDups = 0 PROVE Spec => []PerformedOnce
<1>1. OwnInv => PerformedOnce
  BY DEF OwnInv
<1> QED BY <1>1, NoDups, PTL
-----------------------------------------------------------------------------
(* What a verdict and an answer rest on, whatever the network repeats.     *)

LEMMA CommandKept ==
  ASSUME IType, [Next]_vars, NEW q \in Procs, pc[q] # "idle"
  PROVE  pc'[q] # "idle" /\ cmd'[q] = cmd[q]
<1>0. pc \in [Procs -> Labels] /\ cmd \in [Procs -> Command]
  BY DEF IType, TypeOK, PcTypeOK
<1>1. ASSUME NEW p \in Procs, Tester(p) PROVE pc'[q] # "idle" /\ cmd'[q] = cmd[q]
  <2>1. CASE Start(p)
    BY <1>0, <2>1 DEF Start, Goto
  <2>2. CASE ~Start(p)
    <3>1. UNCHANGED cmd /\ \E l \in Labels \ {"idle"} : Goto(p, l)
      BY <1>1, <2>2 DEF Tester, TesterStep, UdpInitNetwork, InitDb, BeginTest, NoNextId, Finish,
         GetNextId, LoadOutMsg, UdpSendData, UdpReceiveData, LogPrepare, LogFailed, LogStep, LogCommit,
         LogWrite, LogFinalize, PrintPrepare, PrintStep, PrintFinalize, NextTest, Kill, Exit, Labels
    <3> QED BY <1>0, <3>1 DEF Goto
  <2> QED BY <2>1, <2>2
<1>2. CASE Uut \/ DeliverToUut \/ Lose \/ UNCHANGED vars
  BY <1>2 DEF Uut, DeliverToUut, Lose, vars, pcVars
<1> QED BY <1>1, <1>2 DEF Next

LEMMA OrderStep == IType /\ OrderInv /\ [Next]_vars => OrderInv'
<1> SUFFICES ASSUME IType, OrderInv, [Next]_vars PROVE OrderInv'
  OBVIOUS
<1>0. /\ pc \in [Procs -> Labels] /\ out_msg \in [Procs -> OutMsg]
      /\ rx_ring \in Seq(Request) /\ ran \in Seq(Performed)
  BY DEF IType, TypeOK, PcTypeOK, UutTypeOK
<1>a. \A q \in Procs : pc[q] # "idle" => pc'[q] # "idle" /\ cmd'[q] = cmd[q]
  BY CommandKept
<1> USE MemberTypes
<1>1. ASSUME NEW p \in Procs, Tester(p) PROVE OrderInv'
  <2>1. UNCHANGED <<rx_ring, uut_pc, uut_msg, ran>>
    BY <1>1 DEF Tester, uutVars
  <2>2. /\ \A i \in DOMAIN rx_ring' : Ordered(rx_ring[i])'
        /\ uut_pc' # "poll" => Ordered(uut_msg)'
        /\ \A k \in DOMAIN ran' : Ordered(ran[k].request)'
    BY <1>a, <2>1 DEF OrderInv, Ordered
  <2>3. ASSUME toUut' \subseteq toUut,
               \A q \in Procs : pc'[q] = "send" => pc[q] = "send" /\ out_msg'[q] = out_msg[q]
        PROVE  OrderInv'
    BY <1>a, <2>2, <2>3 DEF OrderInv, Ordered
  <2>4. CASE LoadOutMsg(p)
    <3>1. /\ pc' = [pc EXCEPT ![p] = "send"] /\ UNCHANGED <<cmd, toUut>>
          /\ \A q \in Procs \ {p} : out_msg'[q] = out_msg[q]
          /\ out_msg'[p].n_iter = cmd[p].n
          /\ out_msg'[p].p_len = PLen(cmd[p], out_msg'[p].peripheral)
      BY <1>0, <2>4 DEF LoadOutMsg, Goto, netVars
    <3>2. \A m \in toUut' : Ordered(m)'
      BY <1>a, <3>1 DEF OrderInv, Ordered
    <3>3. \A q \in Procs : pc'[q] = "send" =>
            /\ out_msg'[q].n_iter = cmd'[q].n
            /\ out_msg'[q].p_len = PLen(cmd'[q], out_msg'[q].peripheral)
      BY <1>0, <3>1 DEF OrderInv
    <3> QED BY <2>2, <3>2, <3>3 DEF OrderInv, Ordered
  <2>5. CASE UdpSendData(p) /\ Goto(p, "recv")
    <3> DEFINE r == [from |-> p, test_id |-> out_msg[p].test_id,
                     peripheral |-> out_msg[p].peripheral,
                     n_iter |-> out_msg[p].n_iter, p_len |-> out_msg[p].p_len]
    <3>0. PICK m : m = r
      OBVIOUS
    <3>1. /\ pc[p] = "send" /\ pc' = [pc EXCEPT ![p] = "recv"] /\ UNCHANGED <<cmd, out_msg>>
          /\ toUut' \subseteq toUut \cup {m}
      BY <2>5, <3>0 DEF UdpSendData, SendRequest, Goto, Exit, netVars
    <3>2. Ordered(m)'
      BY <1>0, <3>0, <3>1 DEF OrderInv, Ordered
    <3>3. \A n \in toUut' : Ordered(n)'
      BY <1>a, <3>1, <3>2 DEF OrderInv, Ordered
    <3>4. \A q \in Procs : pc'[q] = "send" =>
            /\ out_msg'[q].n_iter = cmd'[q].n
            /\ out_msg'[q].p_len = PLen(cmd'[q], out_msg'[q].peripheral)
      BY <1>0, <3>1 DEF OrderInv
    <3> QED BY <2>2, <3>3, <3>4 DEF OrderInv, Ordered
  <2>6. CASE ~LoadOutMsg(p) /\ ~(UdpSendData(p) /\ Goto(p, "recv"))
    <3>1. toUut' \subseteq toUut
      BY <1>1, <2>6 DEF Tester, TesterStep, Start, UdpInitNetwork, InitDb, BeginTest, NoNextId,
         Finish, GetNextId, UdpSendData, UdpReceiveData, LogPrepare, LogFailed, LogStep, LogCommit,
         LogWrite, LogFinalize, PrintPrepare, PrintStep, PrintFinalize, Kill, Exit, netVars
    <3>2. \/ \E l \in Labels \ {"send"} : Goto(p, l) /\ UNCHANGED out_msg
          \/ GetNextId(p)
      BY <1>1, <2>6 DEF Tester, TesterStep, Start, UdpInitNetwork, InitDb, BeginTest, NoNextId,
         Finish, UdpSendData, UdpReceiveData, LogPrepare, LogFailed, LogStep, LogCommit, LogWrite,
         LogFinalize, PrintPrepare, PrintStep, PrintFinalize, NextTest, Kill, Exit, Labels
    <3>3. \A q \in Procs : pc'[q] = "send" => pc[q] = "send" /\ out_msg'[q] = out_msg[q]
      BY <1>0, <3>2 DEF GetNextId, SetId, Goto
    <3> QED BY <2>3, <3>1, <3>3
  <2> QED BY <2>4, <2>5, <2>6
<1>b. ASSUME UNCHANGED <<pc, out_msg, cmd>>, toUut' \subseteq toUut,
             UNCHANGED <<rx_ring, ran>>, uut_pc' # "poll" => uut_pc # "poll" /\ uut_msg' = uut_msg
      PROVE  OrderInv'
  BY <1>b DEF OrderInv, Ordered
<1>2. CASE Uut
  <2>0. UNCHANGED <<pc, out_msg, cmd>>
    BY <1>2 DEF Uut, pcVars
  <2>1. CASE UdpRecvCallback
    <3>1. /\ uut_msg' = rx_ring[1] /\ rx_ring' = Tail(rx_ring) /\ rx_ring # << >>
          /\ UNCHANGED <<toUut, ran>>
      BY <1>0, <2>1 DEF UdpRecvCallback, FramesLeft, netVars
    <3>2. /\ 1 \in DOMAIN rx_ring
          /\ \A i \in DOMAIN rx_ring' : i + 1 \in DOMAIN rx_ring /\ rx_ring'[i] = rx_ring[i + 1]
      BY <1>0, <3>1
    <3> QED BY <2>0, <3>1, <3>2 DEF OrderInv, Ordered
  <2>2. CASE SendResult
    <3> DEFINE e == [request |-> uut_msg, passes |-> iter, result |-> result]
    <3>1. ran' = Append(ran, e) /\ uut_pc = "reply" /\ uut_pc' = "poll" /\ UNCHANGED <<toUut, rx_ring>>
      BY <2>2 DEF SendResult
    <3>2. /\ DOMAIN ran' = DOMAIN ran \cup {Len(ran) + 1}
          /\ \A k \in DOMAIN ran : ran'[k] = ran[k]
          /\ ran'[Len(ran) + 1] = e
      BY <1>0, <3>1
    <3> QED BY <2>0, <3>1, <3>2 DEF OrderInv, Ordered
  <2>3. CASE UnknownPeripheral \/ IterationPasses \/ IterationFails \/ IterationSpins \/ AllPassed
    BY <1>b, <2>0, <2>3 DEF UnknownPeripheral, IterationPasses, IterationFails, IterationSpins,
       AllPassed, TestEnds, netVars
  <2> QED BY <1>2, <2>1, <2>2, <2>3 DEF Uut, UutStep
<1>3. CASE DeliverToUut /\ EthReceive
  <2>1. PICK m \in toUut : TakeRequest(m) /\ rx_ring' = Append(rx_ring, m)
    BY <1>3 DEF EthReceive
  <2>2. UNCHANGED <<pc, out_msg, cmd, uut_pc, uut_msg, ran>> /\ toUut' \subseteq toUut
    BY <1>3, <2>1 DEF DeliverToUut, EthReceive, TakeRequest, pcVars
  <2>3. /\ DOMAIN rx_ring' = DOMAIN rx_ring \cup {Len(rx_ring) + 1}
        /\ \A i \in DOMAIN rx_ring : rx_ring'[i] = rx_ring[i]
        /\ rx_ring'[Len(rx_ring) + 1] = m
    BY <1>0, <2>1
  <2> QED BY <2>2, <2>3 DEF OrderInv, Ordered
<1>4. CASE (DeliverToUut /\ EthMissed) \/ Lose \/ UNCHANGED vars
  BY <1>b, <1>4 DEF DeliverToUut, EthMissed, TakeRequest, Lose, LoseRequest, LoseResponse, vars,
     pcVars, uutVars, netVars
<1> QED BY <1>1, <1>2, <1>3, <1>4 DEF Next, DeliverToUut

LEMMA VerdictSystemStep == IType /\ VerdictInv /\ [Next]_vars => VerdictInv'
<1> SUFFICES ASSUME IType, VerdictInv, [Next]_vars PROVE VerdictInv'
  OBVIOUS
<1>1. CASE Uut
  BY <1>1, VerdictStep DEF Uut, IType, TypeOK, UutType
<1>2. CASE ~Uut
  <2>1. UNCHANGED <<uut_pc, uut_msg, iter, result, ran>>
    BY <1>2 DEF Next, Tester, DeliverToUut, EthReceive, EthMissed, Lose, vars, uutVars
  <2> QED BY <2>1 DEF VerdictInv, Justified, Hollow
<1> QED BY <1>1, <1>2

LEMMA OrderInit == Init => OrderInv /\ VerdictInv
  BY DEF Init, NetInit, PcInit, UutInit, OrderInv, VerdictInv

(* Unless a datagram has been delivered twice, a row that says success     *)
(* means that the UUT has run every iteration that -n asked for on the     *)
(* peripheral of the row, and that a message test had a message.           *)
THEOREM SuccessIsEarned == Spec => []SuccessMeansAllPassed
<1>1. IType /\ OrderInv /\ VerdictInv /\ (dups = 0 => OwnInv) => SuccessMeansAllPassed
  <2> SUFFICES ASSUME IType, OrderInv, VerdictInv, OwnInv,
                      NEW i \in DOMAIN rows, rows[i].result = 1
               PROVE  LET c == cmd[rows[i].run.proc]  x == rows[i].run.peripheral IN
                      /\ \E k \in DOMAIN ran : Reports(rows[i], ran[k]) /\ ran[k].passes = c.n
                      /\ x \in MsgTests /\ c.n > 0 => c.strlen[x] % 256 # 0
    BY DEF SuccessMeansAllPassed
  <2> DEFINE c == cmd[rows[i].run.proc]
             x == rows[i].run.peripheral
  <2>1. PICK k \in DOMAIN ran : Reports(rows[i], ran[k])
    BY DEF OwnInv, ResultIsOwn
  <2> DEFINE m == ran[k].request
  <2>2. m.from = rows[i].run.proc /\ m.peripheral = x /\ ran[k].result = TEST_SUCCESS
    BY <2>1 DEF Reports
  <2>3. Ordered(m) /\ Justified(m, ran[k].passes, ran[k].result)
    BY DEF OrderInv, VerdictInv
  <2>4. m.n_iter = c.n /\ m.p_len = PLen(c, x)
    BY <2>2, <2>3 DEF Ordered
  <2>5. ran[k].passes = c.n
    BY <2>2, <2>3, <2>4 DEF Justified
  <2>6. c.n > 0 => c.n # 0
    <3>1. cmd \in [Procs -> Command] /\ rows[i].run.proc \in Procs
      BY MemberTypes DEF IType, TypeOK, PcTypeOK
    <3>2. c.n \in Byte
      BY <3>1 DEF Command
    <3> QED BY <3>2 DEF Byte
  <2>7. x \in MsgTests /\ c.n > 0 => PLen(c, x) # 0
    BY <2>2, <2>3, <2>4, <2>5, <2>6 DEF Justified, Hollow
  <2> QED BY <2>1, <2>5, <2>7 DEF PLen
<1> QED
  BY <1>1, OrderInit, OrderStep, VerdictSystemStep, Owns, TypeInvariant, PTL DEF Spec

-----------------------------------------------------------------------------
LEMMA ReachedStays ==
  ASSUME IType, [Next]_vars, NEW p, NEW v, Reached(p, v)
  PROVE  Reached(p, v)'
<1>1. CASE SendResult
  <2>1. PICK e \in Performed : ran' = Append(ran, e)
    <3>1. [request |-> uut_msg, passes |-> iter, result |-> result] \in Performed
      BY <1>1 DEF SendResult, IType, TypeOK, UutTypeOK, Performed
    <3> QED BY <1>1, <3>1 DEF SendResult
  <2>2. \A k \in DOMAIN ran : k \in DOMAIN ran' /\ ran'[k] = ran[k]
    BY <2>1 DEF IType, TypeOK, UutTypeOK
  <2> QED BY <2>2 DEF Reached
<1>2. CASE ~SendResult
  <2>1. UNCHANGED ran
    BY <1>2 DEF Next, Tester, Uut, UutStep, UdpRecvCallback, UnknownPeripheral, IterationPasses,
       IterationFails, IterationSpins, AllPassed, TestEnds, DeliverToUut, EthReceive, EthMissed,
       Lose, vars, uutVars
  <2> QED BY <2>1 DEF Reached
<1> QED BY <1>1, <1>2

(* An answer comes from SendResult, which records the test it is about.    *)
LEMMA AnswersReached ==
  ASSUME IType, SourceInv, [Next]_vars
  PROVE  \A a \in toPc' : Reached(a.from, a.test_result)'
<1>1. CASE SendResult
  <2> DEFINE e == [request |-> uut_msg, passes |-> iter, result |-> result]
             b == [from |-> uut_msg.from, test_id |-> uut_msg.test_id, test_result |-> result]
  <2>1. ran' = Append(ran, e) /\ ran \in Seq(Performed) /\ toPc' \subseteq toPc \cup {b}
    BY <1>1 DEF SendResult, SendResponse, IType, TypeOK, UutTypeOK
  <2>2. Len(ran) + 1 \in DOMAIN ran' /\ ran'[Len(ran) + 1] = e
    BY <2>1
  <2> SUFFICES ASSUME NEW a \in toPc' PROVE Reached(a.from, a.test_result)'
    OBVIOUS
  <2>3. CASE a = b
    BY <2>2, <2>3 DEF Reached
  <2>4. CASE a \in toPc
    BY <2>4, ReachedStays DEF SourceInv
  <2> QED BY <2>1, <2>3, <2>4
<1>2. CASE ~SendResult
  <2>1. toPc' \subseteq toPc
    BY <1>2, ZenonT(60) DEF Next, Tester, TesterStep, Start, UdpInitNetwork, InitDb, BeginTest, NoNextId,
       Finish, GetNextId, LoadOutMsg, UdpSendData, UdpReceiveData, TakeResponse, LogPrepare, LogFailed,
       LogStep, LogCommit, LogWrite, LogFinalize, PrintPrepare, PrintStep, PrintFinalize, Kill, Exit,
       Uut, UutStep, UdpRecvCallback, UnknownPeripheral, IterationPasses, IterationFails,
       IterationSpins, AllPassed, TestEnds, DeliverToUut, EthReceive, EthMissed,
       Lose, LoseRequest, LoseResponse, netVars, vars
  <2> QED BY <2>1, ReachedStays DEF SourceInv
<1> QED BY <1>1, <1>2

LEMMA SourceStep == IType /\ SourceInv /\ [Next]_vars => SourceInv'
<1> SUFFICES ASSUME IType, SourceInv, [Next]_vars PROVE SourceInv'
  OBVIOUS
<1> DEFINE Reached1(p, v) == \E k \in DOMAIN ran' : ran'[k].request.from = p /\ ran'[k].result = v
           Agrees(row, v) == row.result = 1 <=> v = TEST_SUCCESS
<1>0. pc \in [Procs -> Labels] /\ in_msg \in [Procs -> InMsg] /\ rows \in Seq(Row)
  BY DEF IType, TypeOK, PcTypeOK, DbTypeOK
<1>1. \A p, v : Reached(p, v) => Reached1(p, v)
  BY ReachedStays DEF Reached
<1>2. \A a \in toPc' : Reached(a.from, a.test_result)'
  BY AnswersReached
<1>3. \A q \in Procs : pc[q] \in Logging => Reached1(q, in_msg[q].test_result)
  BY <1>1 DEF SourceInv
<1>4. \A i \in DOMAIN rows : \E v : Reached1(rows[i].run.proc, v) /\ Agrees(rows[i], v)
  <2> SUFFICES ASSUME NEW i \in DOMAIN rows
               PROVE  \E v : Reached1(rows[i].run.proc, v) /\ Agrees(rows[i], v)
    OBVIOUS
  <2>1. PICK k \in DOMAIN ran : /\ ran[k].request.from = rows[i].run.proc
                                /\ Agrees(rows[i], ran[k].result)
    BY DEF SourceInv, ResultFromOwnInvocation
  <2>2. Reached(rows[i].run.proc, ran[k].result)
    BY <2>1 DEF Reached
  <2> QED BY <1>1, <2>1, <2>2
<1>5. ASSUME \A q \in Procs : pc'[q] \in Logging => Reached1(q, in_msg'[q].test_result),
             \A i \in DOMAIN rows' : \E v : Reached1(rows'[i].run.proc, v) /\ Agrees(rows'[i], v)
      PROVE  SourceInv'
  <2>1. ResultFromOwnInvocation'
    BY <1>5 DEF ResultFromOwnInvocation
  <2>2. (\A q \in Procs : pc[q] \in Logging => Reached(q, in_msg[q].test_result))'
    BY <1>5 DEF Reached
  <2> QED BY <1>2, <2>1, <2>2 DEF SourceInv
<1> HIDE DEF Reached1, Agrees
<1>6. ASSUME NEW p \in Procs, Tester(p) PROVE SourceInv'
  <2>1. CASE UdpReceiveData(p) /\ Goto(p, "log_prepare")
    <3>1. PICK m \in toPc : /\ m.from = p
                            /\ in_msg' = [in_msg EXCEPT ![p] = [test_id |-> m.test_id,
                                                                test_result |-> m.test_result]]
      BY <1>0, <2>1 DEF UdpReceiveData, ToMySocket, Goto, Exit
    <3>2. Reached1(p, m.test_result)
      BY <1>1, <3>1 DEF SourceInv
    <3>3. pc' = [pc EXCEPT ![p] = "log_prepare"] /\ UNCHANGED rows
      BY <2>1 DEF UdpReceiveData, Goto, Exit, dbVars
    <3>4. \A q \in Procs : pc'[q] \in Logging => Reached1(q, in_msg'[q].test_result)
      BY <1>0, <1>3, <3>1, <3>2, <3>3
    <3> QED BY <1>4, <1>5, <3>3, <3>4
  <2>2. CASE LogWrite(p) /\ rows' # rows
    <3>1. /\ pc[p] = "log_write" /\ pc' = [pc EXCEPT ![p] = "print_prepare"]
          /\ rows' = Append(rows, LoggedRow(p)) /\ UNCHANGED in_msg
      BY <2>2 DEF LogWrite, Goto, dbVars
    <3>2. /\ DOMAIN rows' = DOMAIN rows \cup {Len(rows) + 1}
          /\ \A i \in DOMAIN rows : rows'[i] = rows[i]
          /\ rows'[Len(rows) + 1] = LoggedRow(p)
      BY <1>0, <3>1
    <3>3. Reached1(p, in_msg[p].test_result)
      BY <1>3, <3>1 DEF Logging
    <3>4. LoggedRow(p).run.proc = p /\ Agrees(LoggedRow(p), in_msg[p].test_result)
      BY DEF LoggedRow, ResultColumn, Agrees
    <3>5. \A q \in Procs : pc'[q] \in Logging => Reached1(q, in_msg'[q].test_result)
      BY <1>0, <1>3, <3>1 DEF Logging
    <3>6. \A i \in DOMAIN rows' : \E v : Reached1(rows'[i].run.proc, v) /\ Agrees(rows'[i], v)
      BY <1>4, <3>2, <3>3, <3>4
    <3> QED BY <1>5, <3>5, <3>6
  <2>3. CASE ~(UdpReceiveData(p) /\ Goto(p, "log_prepare")) /\ ~(LogWrite(p) /\ rows' # rows)
    <3>1. UNCHANGED <<in_msg, rows>>
      BY <1>6, <2>3 DEF Tester, TesterStep, Start, UdpInitNetwork, InitDb, BeginTest, NoNextId,
         Finish, GetNextId, LoadOutMsg, UdpSendData, UdpReceiveData, LogPrepare, LogFailed, LogStep,
         LogCommit, LogWrite, LogFinalize, PrintPrepare, PrintStep, PrintFinalize, Kill, Exit, dbVars
    <3>2. \E l \in Labels : Goto(p, l) /\ (l \in Logging => pc[p] \in Logging)
      BY <1>6, <2>3 DEF Tester, TesterStep, Start, UdpInitNetwork, InitDb, BeginTest, NoNextId,
         Finish, GetNextId, LoadOutMsg, UdpSendData, UdpReceiveData, LogPrepare, LogFailed, LogStep,
         LogCommit, LogWrite, LogFinalize, PrintPrepare, PrintStep, PrintFinalize, NextTest, Kill,
         Exit, Labels, Logging
    <3>3. \A q \in Procs : pc'[q] \in Logging => pc[q] \in Logging
      BY <1>0, <3>2 DEF Goto
    <3> QED BY <1>3, <1>4, <1>5, <3>1, <3>3
  <2> QED BY <2>1, <2>2, <2>3
<1>7. CASE Uut \/ DeliverToUut \/ Lose \/ UNCHANGED vars
  <2>1. UNCHANGED <<in_msg, rows, pc>>
    BY <1>7 DEF Uut, DeliverToUut, Lose, vars, dbVars, pcVars
  <2> QED BY <1>3, <1>4, <1>5, <2>1
<1> QED BY <1>6, <1>7 DEF Next

(* Whatever the network loses and repeats, what a row says was said by the *)
(* UUT of a test that the invocation of the row has ordered.               *)
THEOREM OwnInvocation == Spec => []ResultFromOwnInvocation
<1>1. Init => SourceInv
  BY DEF Init, NetInit, DbInit, PcInit, SourceInv, Logging, ResultFromOwnInvocation
<1>2. SourceInv => ResultFromOwnInvocation
  BY DEF SourceInv
<1> QED
  BY <1>1, <1>2, SourceStep, TypeInvariant, PTL DEF Spec

-----------------------------------------------------------------------------
(* What an invocation has logged when it exits, and what it prints, where  *)
(* invocations follow one another.                                         *)

(* Nobody else is alive, so nobody else holds a lock.                      *)
LEMMA Alone ==
  ASSUME IType, IdInv, NEW p \in Procs, Live(p)
  PROVE  /\ pc[p] \notin {"id_finalize", "print_finalize"} => CanCommit
         /\ pc[p] \notin {"log_commit", "log_write", "log_finalize"} => CanReserve
         /\ pc[p] \notin {"log_write", "log_finalize"} => Readable
<1>1. readers \subseteq Procs /\ writer \in Procs \cup {None}
  BY DEF IType, TypeOK, DbTypeOK
<1>2. \A q \in Procs : Live(q) => q = p
  BY DEF IdInv
<1> QED
  BY <1>1, <1>2, NoneAssumption DEF IdInv, LockInv, Live, CanCommit, CanReserve, Readable

(* A step of p that writes no row, enters no printing and does not exit.   *)
LEMMA LoggedMove ==
  ASSUME IType, LoggedInv, NEW p \in Procs, NEW l \in Labels \ {"log_finalize", "print_finalize"},
         pc[p] # "exited", Goto(p, l), UNCHANGED <<rows, exit_code>>,
         l \in Printing => pc[p] \in Printing /\ UNCHANGED <<out_msg, peripheral>>,
         \A q \in Procs \ {p} :
           /\ cmd'[q] = cmd[q] /\ todo'[q] = todo[q] /\ peripheral'[q] = peripheral[q]
           /\ out_msg'[q] = out_msg[q] /\ shown'[q] = shown[q],
         \A x \in cmd'[p].want \ todo'[p] : HasRow(p, x)
  PROVE  LoggedInv'
<1>0. pc' = [pc EXCEPT ![p] = l] /\ pc \in [Procs -> Labels]
  BY DEF IType, TypeOK, PcTypeOK, Goto
<1>1. exit_code[p] = Running
  BY DEF LoggedInv
<1>2. \A q \in Procs : pc'[q] # "log_finalize"
  BY <1>0 DEF LoggedInv
<1>3. \A q \in Procs : exit_code'[q] # Running => pc'[q] = "exited"
  BY <1>0, <1>1 DEF LoggedInv
<1>4. \A q \in Procs : exit_code'[q] = EXIT_SUCCESS => todo'[q] = {}
  BY <1>1 DEF LoggedInv, Running, EXIT_SUCCESS
<1>5. \A q \in Procs : \A x \in cmd'[q].want \ todo'[q] : HasRow(q, x)'
  BY DEF LoggedInv, HasRow, OwnRow
<1>6. (\A q \in Procs : pc[q] \in Printing =>
        /\ \E i \in Matching(out_msg[q].test_id) : OwnRow(q, peripheral[q], i)
        /\ out_msg[q].test_id # IntMin =>
             \A i \in Matching(out_msg[q].test_id) : OwnRow(q, peripheral[q], i))'
  BY <1>0 DEF LoggedInv, Matching, OwnRow
<1>7. PrintsOwnRow'
  BY <1>0 DEF LoggedInv, PrintsOwnRow
<1> QED BY <1>2, <1>3, <1>4, <1>5, <1>6, <1>7 DEF LoggedInv

LEMMA LoggedExit ==
  ASSUME IType, LoggedInv, NEW p \in Procs, NEW code \in ExitCodes, Exit(p, code),
         code = EXIT_SUCCESS => todo[p] = {}
  PROVE  LoggedInv'
<1>0. /\ pc' = [pc EXCEPT ![p] = "exited"] /\ pc \in [Procs -> Labels]
      /\ exit_code' = [exit_code EXCEPT ![p] = code] /\ exit_code \in [Procs -> ExitCodes]
      /\ UNCHANGED <<cmd, todo, peripheral, out_msg, shown, rows>>
  BY DEF IType, TypeOK, PcTypeOK, Goto, Exit
<1>1. \A q \in Procs : pc'[q] \in Printing => pc[q] \in Printing
  BY <1>0 DEF Printing
<1>2. \A q \in Procs : pc'[q] # "log_finalize" /\ (exit_code'[q] # Running => pc'[q] = "exited")
  BY <1>0 DEF LoggedInv
<1>3. \A q \in Procs : exit_code'[q] = EXIT_SUCCESS => todo'[q] = {}
  BY <1>0 DEF LoggedInv
<1>4. \A q \in Procs : \A x \in cmd'[q].want \ todo'[q] : HasRow(q, x)'
  BY <1>0 DEF LoggedInv, HasRow, OwnRow
<1>5. (\A q \in Procs : pc[q] \in Printing =>
        /\ \E i \in Matching(out_msg[q].test_id) : OwnRow(q, peripheral[q], i)
        /\ out_msg[q].test_id # IntMin =>
             \A i \in Matching(out_msg[q].test_id) : OwnRow(q, peripheral[q], i))'
  BY <1>0, <1>1 DEF LoggedInv, Matching, OwnRow
<1>6. PrintsOwnRow'
  BY <1>0 DEF LoggedInv, PrintsOwnRow
<1> QED BY <1>2, <1>3, <1>4, <1>5, <1>6 DEF LoggedInv

(* The row is written: the only one of this identifier, unless that has    *)
(* wrapped around.                                                         *)
LEMMA LoggedWrite ==
  ASSUME IType, IdInv, LoggedInv, NEW p \in Procs, pc[p] = "log_write", Goto(p, "print_prepare"),
         rows' = Append(rows, LoggedRow(p)),
         UNCHANGED <<cmd, todo, peripheral, out_msg, shown, exit_code>>
  PROVE  LoggedInv'
<1>0. /\ pc' = [pc EXCEPT ![p] = "print_prepare"] /\ pc \in [Procs -> Labels] /\ rows \in Seq(Row)
  BY DEF IType, TypeOK, PcTypeOK, DbTypeOK, Goto
<1>1. /\ DOMAIN rows' = DOMAIN rows \cup {Len(rows) + 1}
      /\ \A i \in DOMAIN rows : rows'[i] = rows[i]
      /\ rows'[Len(rows) + 1] = LoggedRow(p)
  BY <1>0
<1>2. LoggedRow(p).run = [proc |-> p, peripheral |-> peripheral[p]]
      /\ LoggedRow(p).test_id = out_msg[p].test_id
  BY DEF LoggedRow
<1>3. \A q \in Procs : pc'[q] \in Printing => q = p
  BY <1>0 DEF IdInv, Live, Printing
<1>4. \A q \in Procs : pc'[q] # "log_finalize" /\ (exit_code'[q] # Running => pc'[q] = "exited")
  BY <1>0 DEF LoggedInv
<1>5. \A q \in Procs : exit_code'[q] = EXIT_SUCCESS => todo'[q] = {}
  BY <1>0 DEF LoggedInv
<1>6. \A q \in Procs : \A x \in cmd'[q].want \ todo'[q] : HasRow(q, x)'
  BY <1>1 DEF LoggedInv, HasRow, OwnRow
<1>7. \E i \in Matching(out_msg[p].test_id)' : OwnRow(p, peripheral[p], i)'
  BY <1>1, <1>2 DEF Matching, OwnRow
<1>8. out_msg[p].test_id # IntMin =>
        \A i \in Matching(out_msg[p].test_id)' : OwnRow(p, peripheral[p], i)'
  <2>1. out_msg[p].test_id = IntMin \/ \A i \in DOMAIN rows : rows[i].test_id # out_msg[p].test_id
    BY DEF IdInv, Logging
  <2> QED BY <1>1, <1>2, <2>1 DEF Matching, OwnRow
<1>9. PrintsOwnRow'
  BY <1>0, <1>1 DEF LoggedInv, PrintsOwnRow
<1> QED BY <1>3, <1>4, <1>5, <1>6, <1>7, <1>8, <1>9 DEF LoggedInv

(* The row is read: some row matches, and each one that does is p's own.   *)
LEMMA LoggedPrint ==
  ASSUME Sequential, IType, IdInv, LoggedInv, NEW p \in Procs, PrintStep(p)
  PROVE  LoggedInv'
<1>0. /\ pc[p] = "print_step" /\ pc' = [pc EXCEPT ![p] = "print_finalize"] /\ pc \in [Procs -> Labels]
      /\ shown \in [Procs -> Nat]
      /\ UNCHANGED <<cmd, todo, peripheral, out_msg, exit_code, rows>>
  BY DEF IType, TypeOK, PcTypeOK, Goto, PrintStep
<1>1. Readable /\ Live(p)
  BY <1>0, Alone DEF Live
<1>2. Matching(out_msg[p].test_id) # {}
  BY <1>0 DEF LoggedInv, Printing
<1>3. PICK i \in FirstMatch(out_msg[p].test_id) : shown' = [shown EXCEPT ![p] = i]
  BY <1>1, <1>2 DEF PrintStep, MayFail, Sequential
<1>4. PrintsOwnRow'
  <2> SUFFICES ASSUME NEW q \in Procs, pc'[q] = "print_finalize", out_msg[q].test_id # IntMin
               PROVE  /\ shown'[q] \in DOMAIN rows
                      /\ rows[shown'[q]].run = [proc |-> q, peripheral |-> peripheral[q]]
    BY <1>0 DEF PrintsOwnRow
  <2>1. CASE q = p
    <3>1. i \in Matching(out_msg[p].test_id) /\ shown'[p] = i
      BY <1>0, <1>3 DEF FirstMatch
    <3>2. OwnRow(p, peripheral[p], i)
      BY <1>0, <2>1, <3>1 DEF LoggedInv, Printing
    <3> QED BY <2>1, <3>1, <3>2 DEF Matching, OwnRow
  <2>2. CASE q # p
    BY <1>0, <1>3, <2>2 DEF LoggedInv, PrintsOwnRow
  <2> QED BY <2>1, <2>2
<1>5. \A q \in Procs : pc'[q] \in Printing => pc[q] \in Printing
  BY <1>0 DEF Printing
<1>6. \A q \in Procs : pc'[q] # "log_finalize" /\ (exit_code'[q] # Running => pc'[q] = "exited")
  BY <1>0 DEF LoggedInv
<1>7. \A q \in Procs : \A x \in cmd'[q].want \ todo'[q] : HasRow(q, x)'
  BY <1>0 DEF LoggedInv, HasRow, OwnRow
<1>8. (\A q \in Procs : pc[q] \in Printing =>
        /\ \E j \in Matching(out_msg[q].test_id) : OwnRow(q, peripheral[q], j)
        /\ out_msg[q].test_id # IntMin =>
             \A j \in Matching(out_msg[q].test_id) : OwnRow(q, peripheral[q], j))'
  BY <1>0, <1>5 DEF LoggedInv, Matching, OwnRow
<1> QED BY <1>0, <1>4, <1>6, <1>7, <1>8 DEF LoggedInv

LEMMA LoggedStep ==
  ASSUME Sequential, IType, IdInv, LoggedInv, [Next]_vars
  PROVE  LoggedInv'
<1>0. /\ pc \in [Procs -> Labels] /\ out_msg \in [Procs -> OutMsg] /\ todo \in [Procs -> SUBSET Peripherals]
      /\ cmd \in [Procs -> Command] /\ peripheral \in [Procs -> Peripherals \cup {0}]
      /\ shown \in [Procs -> Nat]
  BY DEF IType, TypeOK, PcTypeOK
<1>1. ASSUME NEW p \in Procs, Tester(p) PROVE LoggedInv'
  <2> DEFINE Moves(l) ==
        /\ l \in Labels \ {"log_finalize", "print_finalize"} /\ pc[p] # "exited" /\ Goto(p, l)
        /\ UNCHANGED <<rows, exit_code>>
        /\ l \in Printing => pc[p] \in Printing /\ UNCHANGED <<out_msg, peripheral>>
        /\ \A q \in Procs \ {p} :
             /\ cmd'[q] = cmd[q] /\ todo'[q] = todo[q] /\ peripheral'[q] = peripheral[q]
             /\ out_msg'[q] = out_msg[q] /\ shown'[q] = shown[q]
        /\ \A x \in cmd'[p].want \ todo'[p] : HasRow(p, x)
  <2>1. ASSUME NEW l, Moves(l) PROVE LoggedInv'
    BY <2>1, LoggedMove
  <2>2. \A x \in cmd[p].want \ todo[p] : HasRow(p, x)
    BY DEF LoggedInv
  <2> HIDE DEF Moves
  <2>3. ASSUME NEW l \in Labels \ ({"log_finalize"} \cup Printing), Live(p), Goto(p, l),
               UNCHANGED <<rows, exit_code, cmd, todo, peripheral, out_msg, shown>>
        PROVE  LoggedInv'
    <3>1. Moves(l)
      BY <2>2, <2>3 DEF Moves, Live, Printing
    <3> QED BY <2>1, <3>1
  <2>4. ASSUME NEW code \in ExitCodes \ {EXIT_SUCCESS}, Exit(p, code) PROVE LoggedInv'
    BY <2>4, LoggedExit
  <2>5. CASE Start(p)
    <3>1. PICK c \in Commands : /\ cmd' = [cmd EXCEPT ![p] = c]
                                /\ todo' = [todo EXCEPT ![p] = c.want]
      BY <2>5 DEF Start
    <3>2. cmd'[p].want \ todo'[p] = {}
      BY <1>0, <3>1
    <3>3. Moves("socket")
      BY <1>0, <2>5, <3>1, <3>2 DEF Moves, Start, Labels, Printing, dbVars
    <3> QED BY <2>1, <3>3
  <2>6. CASE UdpInitNetwork(p) \/ InitDb(p)
    BY <2>3, <2>4, <2>6 DEF UdpInitNetwork, InitDb, ExitCodes, EXIT_SUCCESS, EXIT_FAILURE, UDP_ERROR,
       SQLITE_ERROR, Live, Labels, Printing, dbVars
  <2>7. CASE BeginTest(p)
    <3>1. Moves("id_step")
      BY <1>0, <2>2, <2>7 DEF Moves, BeginTest, Labels, Printing, dbVars
    <3> QED BY <2>1, <3>1
  <2>8. CASE GetNextId(p)
    <3>1. Moves("id_finalize")
      BY <1>0, <2>2, <2>8 DEF Moves, GetNextId, SetId, Labels, Printing
    <3> QED BY <2>1, <3>1
  <2>9. CASE LoadOutMsg(p)
    <3>1. Moves("send")
      BY <1>0, <2>2, <2>9 DEF Moves, LoadOutMsg, Labels, Printing
    <3> QED BY <2>1, <3>1
  <2>10. CASE Finish(p)
    BY <2>10, LoggedExit DEF Finish, ExitCodes
  <2>11. CASE NoNextId(p) \/ Kill(p)
    BY <2>4, <2>11 DEF NoNextId, Kill, ExitCodes, EXIT_SUCCESS, SQLITE_ERROR, Signalled
  <2>12. CASE UdpSendData(p) \/ UdpReceiveData(p) \/ LogPrepare(p)
    BY <2>3, <2>4, <2>12 DEF UdpSendData, UdpReceiveData, LogPrepare, LogFailed, ExitCodes,
       EXIT_SUCCESS, UDP_ERROR, SQLITE_ERROR, Live, Labels, Printing, dbVars
  <2>13. CASE LogStep(p)
    <3>1. CanReserve
      BY <2>13, Alone DEF LogStep, Live
    <3> QED BY <2>3, <2>13, <3>1 DEF LogStep, Live, Labels, Printing, MayFail, Sequential
  <2>14. CASE LogCommit(p)
    <3>1. CanCommit
      BY <2>14, Alone DEF LogCommit, Live
    <3> QED BY <2>3, <2>14, <3>1 DEF LogCommit, Live, Labels, Printing
  <2>15. CASE LogWrite(p)
    BY <2>15, LoggedWrite DEF LogWrite, MayFail, Sequential
  <2>16. CASE LogFinalize(p)
    BY <2>16 DEF LogFinalize, LoggedInv
  <2>17. CASE PrintPrepare(p) \/ PrintFinalize(p)
    <3>1. HasRow(p, peripheral[p])
      BY <2>17 DEF PrintPrepare, PrintFinalize, LoggedInv, Printing, HasRow, Matching
    <3>2. \A x \in cmd[p].want \ (todo[p] \ {peripheral[p]}) : HasRow(p, x)
      BY <2>2, <3>1
    <3>3. Moves("print_step") \/ Moves("main")
      BY <1>0, <2>2, <2>17, <3>2 DEF Moves, PrintPrepare, PrintFinalize, NextTest, Labels, Printing,
         dbVars
    <3> QED BY <2>1, <3>3
  <2>18. CASE PrintStep(p)
    BY <2>18, LoggedPrint
  <2> QED
    BY <1>1, <2>5, <2>6, <2>7, <2>8, <2>9, <2>10, <2>11, <2>12, <2>13, <2>14, <2>15, <2>16, <2>17,
       <2>18 DEF Tester, TesterStep
<1>2. CASE Uut \/ DeliverToUut \/ Lose \/ UNCHANGED vars
  <2>1. UNCHANGED <<rows, pcVars>>
    BY <1>2 DEF Uut, DeliverToUut, Lose, vars, dbVars
  <2> QED BY <2>1 DEF pcVars, LoggedInv, HasRow, OwnRow, Matching, PrintsOwnRow
<1> QED BY <1>1, <1>2 DEF Next

LEMMA Logs == ASSUME Sequential PROVE Spec => []LoggedInv
<1>1. Init => LoggedInv
  BY DEF Init, DbInit, PcInit, LoggedInv, PrintsOwnRow, Printing, NoCommand, Running, EXIT_SUCCESS
<1>2. IType /\ IdInv /\ LoggedInv /\ [Next]_vars => LoggedInv'
  BY LoggedStep
<1> QED BY <1>1, <1>2, Ids, TypeInvariant, PTL DEF Spec

(* Where invocations follow one another and SQLite's statements succeed,   *)
(* an exit status of 0 means that every test asked for has its row ...     *)
THEOREM ExitZeroIsLogged == ASSUME Sequential PROVE Spec => []ExitZeroMeansLogged
<1>1. LoggedInv => ExitZeroMeansLogged
  BY DEF LoggedInv, ExitZeroMeansLogged, HasRow, OwnRow
<1> QED BY <1>1, Logs, PTL

(* ... and what is printed after a test is the row of that test.           *)
THEOREM OwnRowPrinted == ASSUME Sequential PROVE Spec => []PrintsOwnRow
<1>1. LoggedInv => PrintsOwnRow
  BY DEF LoggedInv
<1> QED BY <1>1, Logs, PTL

-----------------------------------------------------------------------------
(* VerifSystem implements TestLedger when no datagram is repeated: the step *)
(* that performs a test is a Judge, the write of its row a Record, and     *)
(* every other step changes neither.                                       *)

judgedBar == {Judged(ran[k]) : k \in DOMAIN ran}
ledgerBar == [i \in DOMAIN rows |-> Entered(rows[i])]

-----------------------------------------------------------------------------
LEMMA LedgerInitBar == Init => Ledger!LedgerInit
  BY DEF Init, DbInit, UutInit, Ledger!LedgerInit

(* SendResult: the test has not been judged before.                        *)
LEMMA JudgeStep ==
  ASSUME IType, OwnInv, OwnInv', Uut
  PROVE  Ledger!LedgerNext \/ UNCHANGED <<judgedBar, ledgerBar>>
<1>0. UNCHANGED ledgerBar
  BY DEF Uut, dbVars, ledgerBar
<1>1. CASE SendResult
  <2> DEFINE e == [request |-> uut_msg, passes |-> iter, result |-> result]
  <2>1. ran' = Append(ran, e) /\ ran \in Seq(Performed) /\ uut_pc = "reply"
    BY <1>1 DEF SendResult, IType, TypeOK, UutTypeOK
  <2>2. /\ DOMAIN ran' = DOMAIN ran \cup {Len(ran) + 1} /\ Len(ran) + 1 \notin DOMAIN ran
        /\ \A k \in DOMAIN ran : ran'[k] = ran[k]
        /\ ran'[Len(ran) + 1] = e
    BY <2>1
  <2>3. judgedBar' = judgedBar \cup {Judged(e)}
    BY <2>2 DEF judgedBar, Judged
  <2>4. CASE Judged(e).run \in Run
    <3>1. \A x \in judgedBar : x.run # Judged(e).run
      BY <2>2 DEF judgedBar, Judged, OwnInv, PerformedOnce
    <3>2. Judged(e).verdict \in {0, 1} /\ Judged(e) = [run |-> Judged(e).run, verdict |-> Judged(e).verdict]
      BY DEF Judged
    <3> QED BY <1>0, <2>3, <2>4, <3>1, <3>2
              DEF Ledger!LedgerNext, Ledger!Judge, judgedBar, ledgerBar
  <2>5. Judged(e).run \in Run
    <3>1. uut_msg.from \in Procs /\ uut_msg.peripheral \in Peripherals
      BY <2>1, MemberTypes DEF OwnInv, RequestInv, Outstanding
    <3> QED BY <3>1 DEF Judged, Run
  <2> QED BY <2>4, <2>5
<1>2. CASE ~SendResult
  BY <1>0, <1>2 DEF Uut, UutStep, UdpRecvCallback, UnknownPeripheral, IterationPasses, IterationFails,
     IterationSpins, AllPassed, TestEnds, judgedBar
<1> QED BY <1>1, <1>2

(* LogWrite: the row's test has been judged, and has no row yet.           *)
LEMMA RecordStep ==
  ASSUME IType, OwnInv, NEW p \in Procs, LogWrite(p), UNCHANGED uutVars
  PROVE  Ledger!LedgerNext \/ UNCHANGED <<judgedBar, ledgerBar>>
<1>0. UNCHANGED judgedBar
  BY DEF uutVars, judgedBar
<1>1. CASE UNCHANGED rows
  BY <1>0, <1>1 DEF ledgerBar
<1>2. CASE rows' = Append(rows, LoggedRow(p))
  <2> DEFINE e == Entered(LoggedRow(p))
  <2>1. pc[p] = "log_write" /\ rows \in Seq(Row)
    BY DEF LogWrite, IType, TypeOK, DbTypeOK
  <2>2. /\ Len(rows) \in Nat /\ DOMAIN rows = 1..Len(rows) /\ DOMAIN rows' = 1..(Len(rows) + 1)
        /\ \A i \in DOMAIN rows : rows'[i] = rows[i]
        /\ rows'[Len(rows) + 1] = LoggedRow(p)
    BY <1>2, <2>1
  <2>3. ledgerBar' = Append(ledgerBar, e)
    <3>1. /\ ledgerBar = [i \in 1..Len(rows) |-> Entered(rows[i])]
          /\ ledgerBar' = [i \in 1..(Len(rows) + 1) |-> IF i = Len(rows) + 1 THEN e ELSE Entered(rows[i])]
      BY <2>2 DEF ledgerBar, Entered
    <3>2. Len(ledgerBar) = Len(rows)
      BY <2>2, <3>1
    <3> HIDE DEF e
    <3> QED BY <2>2, <3>1, <3>2
  <2>4. PICK k \in DOMAIN ran : Found(p, k) /\ ran[k].result = in_msg[p].test_result
    BY <2>1 DEF OwnInv, AnswerInv, Logging
  <2>5. e = Judged(ran[k])
    BY <2>4 DEF Found, Judged, Entered, LoggedRow, ResultColumn
  <2>6. \A i \in DOMAIN rows : rows[i].run # LoggedRow(p).run
    BY <2>1 DEF OwnInv, ProgressInv, LoggedRow, InTest, Logging, Printing
  <2>7. \A i \in DOMAIN ledgerBar : ledgerBar[i].run # e.run
    BY <2>6 DEF ledgerBar, Entered
  <2>8. e \in judgedBar
    BY <2>5 DEF judgedBar
  <2> HIDE DEF e
  <2> QED BY <1>0, <2>3, <2>7, <2>8 DEF Ledger!LedgerNext, Ledger!Record, judgedBar, ledgerBar
<1> QED BY <1>1, <1>2 DEF LogWrite, dbVars

LEMMA LedgerStep ==
  ASSUME IType, OwnInv, OwnInv', [Next]_vars
  PROVE  [Ledger!LedgerNext]_<<judgedBar, ledgerBar>>
<1>1. ASSUME NEW p \in Procs, Tester(p), ~LogWrite(p) PROVE UNCHANGED <<rows, ran>>
  BY <1>1 DEF Tester, TesterStep, Start, UdpInitNetwork, InitDb, BeginTest, NoNextId, Finish,
     GetNextId, LoadOutMsg, UdpSendData, UdpReceiveData, LogPrepare, LogFailed, LogStep, LogCommit,
     LogFinalize, PrintPrepare, PrintStep, PrintFinalize, Kill, Exit, dbVars, uutVars
<1>2. CASE DeliverToUut \/ Lose \/ UNCHANGED vars
  BY <1>2 DEF DeliverToUut, EthReceive, EthMissed, Lose, vars, dbVars, uutVars, judgedBar, ledgerBar
<1>3. CASE Uut
  BY <1>3, JudgeStep
<1>4. ASSUME NEW p \in Procs, Tester(p) PROVE Ledger!LedgerNext \/ UNCHANGED <<judgedBar, ledgerBar>>
  <2>1. CASE LogWrite(p)
    BY <1>4, <2>1, RecordStep DEF Tester
  <2>2. CASE ~LogWrite(p)
    BY <1>1, <1>4, <2>2 DEF judgedBar, ledgerBar
  <2> QED BY <2>1, <2>2
<1> QED BY <1>2, <1>3, <1>4 DEF Next

(* Whatever is lost, killed or refused, a test that was ordered is judged  *)
(* at most once and entered at most once, later, with that verdict.        *)
THEOREM LedgerIsKept == ASSUME MaxDups = 0 PROVE Spec => LedgerKept
<1>1. IType /\ OwnInv /\ OwnInv' /\ [Next]_vars => [Ledger!LedgerNext]_<<judgedBar, ledgerBar>>
  BY LedgerStep
<1> QED
  BY <1>1, LedgerInitBar, NoDups, TypeInvariant, PTL
     DEF Spec, LedgerKept, Ledger!LedgerSpec, judgedBar, ledgerBar
=============================================================================
