----------------------------- MODULE VerifSystem ----------------------------
(***************************************************************************)
(* The whole system: the invocations of hw_tester on the PC, with the      *)
(* database they share, the network, and the unit under test.              *)
(***************************************************************************)
EXTENDS HwTester, UutServer

vars == <<netVars, dbVars, pcVars, uutVars>>

Init == NetInit /\ DbInit /\ PcInit /\ UutInit

Tester(p)  == (Start(p) \/ TesterStep(p) \/ Kill(p)) /\ UNCHANGED uutVars
Uut        == UutStep /\ UNCHANGED <<dbVars, pcVars>>
DeliverToUut == (EthReceive \/ EthMissed) /\ UNCHANGED <<dbVars, pcVars>>
Lose       == (LoseRequest \/ LoseResponse) /\ UNCHANGED <<dbVars, pcVars, uutVars>>

Next ==
  \/ \E p \in Procs : Tester(p)
  \/ Uut
  \/ DeliverToUut
  \/ Lose

Spec == Init /\ [][Next]_vars

-----------------------------------------------------------------------------
(* Every variable has its type.                                            *)
TypeOK == NetTypeOK /\ DbTypeOK /\ PcTypeOK /\ UutTypeOK

(* The performed test e is the one that row r reports on.                  *)
Reports(r, e) ==
  /\ e.request.from = r.run.proc
  /\ e.request.peripheral = r.run.peripheral
  /\ e.request.test_id = r.test_id
  /\ (r.result = 1) <=> (e.result = TEST_SUCCESS)

(* A row reports what the UUT found when it performed that very test, for  *)
(* that invocation and under that identifier.  process_test takes the      *)
(* first datagram its socket yields for the answer and compares nothing    *)
(* (main.c, udp_receive_data): that the answer is its own rests on what    *)
(* the two ends do and on a network that does not deliver twice.           *)
ResultIsOwn ==
  \A i \in DOMAIN rows : \E k \in DOMAIN ran : Reports(rows[i], ran[k])

(* Over a network that repeats datagrams an answer may be taken for that of *)
(* a later test, but it is always an answer to the same invocation.        *)
ResultFromOwnInvocation ==
  \A i \in DOMAIN rows : \E k \in DOMAIN ran :
    /\ ran[k].request.from = rows[i].run.proc
    /\ (rows[i].result = 1) <=> (ran[k].result = TEST_SUCCESS)

(* A test is performed at most once for an invocation, also when its       *)
(* request waits in a descriptor while the invocation is killed and others *)
(* come and go.                                                            *)
PerformedOnce ==
  \A j, k \in DOMAIN ran :
    /\ ran[j].request.from = ran[k].request.from
    /\ ran[j].request.peripheral = ran[k].request.peripheral
    => j = k

(* Unless the network has repeated a datagram, a row that says success says *)
(* that every iteration the operator asked for with -n has passed on the   *)
(* requested peripheral, and that a message test had a message to send.    *)
SuccessMeansAllPassed ==
  dups = 0 => \A i \in DOMAIN rows :
    LET c == cmd[rows[i].run.proc]  x == rows[i].run.peripheral IN
    rows[i].result = 1 =>
      /\ \E k \in DOMAIN ran : Reports(rows[i], ran[k]) /\ ran[k].passes = c.n
      /\ x \in MsgTests /\ c.n > 0 => c.strlen[x] % 256 # 0

(* An invocation that waits for the network holds no lock on the database, *)
(* so one that hangs in recvfrom does not stop the others from logging.    *)
NoLockAcrossNetwork ==
  \A p \in Procs : pc[p] \in {"send", "recv"} => p \notin readers /\ writer # p

(* Run one after the other, tests get identifiers that no earlier row has; *)
(* only past the largest int does get_next_id repeat itself.               *)
IdsNeverRepeat ==
  \A i, j \in DOMAIN rows :
    i < j /\ rows[i].test_id = rows[j].test_id => rows[j].test_id = IntMin

(* An invocation that exits with EXIT_SUCCESS has logged every test it was *)
(* asked for.                                                              *)
ExitZeroMeansLogged ==
  \A p \in Procs : exit_code[p] = EXIT_SUCCESS =>
    \A x \in cmd[p].want : \E i \in DOMAIN rows : rows[i].run = [proc |-> p, peripheral |-> x]

(* What an invocation prints after a test is the row of that test.         *)
PrintsOwnRow ==
  \A p \in Procs : pc[p] = "print_finalize" /\ out_msg[p].test_id # IntMin =>
    /\ shown[p] \in DOMAIN rows
    /\ rows[shown[p]].run = [proc |-> p, peripheral |-> peripheral[p]]

(* The abstract state: what the UUT has performed, what the table holds.   *)
Judged(e) ==
  [run     |-> [proc |-> e.request.from, peripheral |-> e.request.peripheral],
   verdict |-> IF e.result = TEST_SUCCESS THEN 1 ELSE 0]
Entered(row) == [run |-> row.run, verdict |-> row.result]

Ledger == INSTANCE TestLedger WITH
  Runs     <- Run,
  Verdicts <- {0, 1},
  judged   <- {Judged(ran[k]) : k \in DOMAIN ran},
  ledger   <- [i \in DOMAIN rows |-> Entered(rows[i])]

(* A test is judged at most once and leaves at most one row, afterwards    *)
(* and with the verdict the UUT reached: the system implements TestLedger. *)
LedgerKept == Ledger!LedgerSpec

-----------------------------------------------------------------------------
(* Liveness.  The scheduler of the PC runs every invocation, the superloop *)
(* of the UUT never stops, and a datagram that is not lost arrives.        *)
Fairness ==
  /\ \A p \in Procs : WF_vars(TesterStep(p) /\ UNCHANGED uutVars)
  /\ WF_vars(Uut)
  /\ WF_vars(DeliverToUut)

FairSpec == Spec /\ Fairness

(* An invocation that was started ends, over a network that loses nothing, *)
(* with as many free receive descriptors as others may be waiting.         *)
Terminates == \A p \in Procs : pc[p] = "socket" ~> pc[p] = "exited"

-----------------------------------------------------------------------------
(* What the documentation says, and the code does not keep.                *)

(* FILES_FOR_PC/README.md: test_id is an auto-incremented primary key.     *)
TestIdIsPrimaryKey ==
  \A i, j \in DOMAIN rows : rows[i].test_id = rows[j].test_id => i = j

(* tests_db.h, log_test: returns 1 if successful, 0 otherwise.  main goes  *)
(* on to print_log_by_id only after log_test has returned 1.               *)
LoggedWhenReturnsOne ==
  \A p \in Procs : pc[p] = "print_prepare" =>
    \E i \in DOMAIN rows : rows[i].run = [proc |-> p, peripheral |-> peripheral[p]]
=============================================================================
