------------------------------ MODULE HwTester ------------------------------
(***************************************************************************)
(* hw_tester, the program on the PC (main.c), run any number of times and  *)
(* possibly several times at once.  An invocation p takes its command,     *)
(* opens its socket and the database, and for every peripheral the command *)
(* names fetches an identifier, sends a request, waits for one datagram,   *)
(* logs a row and prints the row.                                          *)
(*                                                                         *)
(* pc[p] names the call the invocation is about to make:                   *)
(*   socket       udp_init_network         log_prepare    log_test         *)
(*   init_db      init_db                  log_step       its INSERT       *)
(*   main         next test, get_next_id   log_commit     ... its COMMIT   *)
(*   id_step      its SELECT               log_write      ... its write    *)
(*   id_finalize  its end, out_msg         log_finalize   its end          *)
(*   send         udp_send_data            print_prepare  print_log_by_id  *)
(*   recv         udp_receive_data         print_step     its SELECT       *)
(*                                         print_finalize its end          *)
(***************************************************************************)
EXTENDS TestsDb

CONSTANTS
  Commands,    \* the command lines tried: which tests, how often, what message
  Concurrent,  \* TRUE: several invocations may run at the same time
  Killable,    \* TRUE: an invocation may be killed at any point
  Faults       \* the calls that may fail although nobody is in the way

Running      == -1     \* no exit code yet
EXIT_SUCCESS == 0
EXIT_FAILURE == 1
UDP_ERROR    == 2
SQLITE_ERROR == 3
Signalled    == 130    \* ended by a signal
ExitCodes    == {Running, EXIT_SUCCESS, EXIT_FAILURE, UDP_ERROR, SQLITE_ERROR, Signalled}

(* A parsed command: the tests wanted, -n, and strlen of the message of    *)
(* each test that takes one, up to the 256 characters that payload holds.  *)
Command == [want : SUBSET Peripherals, n : Byte, strlen : [MsgTests -> 0..256]]

ASSUME TesterAssumption ==
  /\ Commands \subseteq Command
  /\ Concurrent \in BOOLEAN /\ Killable \in BOOLEAN
  /\ Faults \subseteq {"socket", "sendto", "recvfrom", "sqlite3_open",
                       "sqlite3_prepare", "sqlite3_step"}

VARIABLES
  pc,          \* where each invocation is
  cmd,         \* its command
  todo,        \* the tests it has still to finish
  peripheral,  \* process_test's argument: the test it is performing, 0 at first
  out_msg,     \* main.c's out_msg without the bytes of the payload
  in_msg,      \* main.c's in_msg
  shown,       \* the table position of the row it printed last, 0 for none
  exit_code

pcVars == <<pc, cmd, todo, peripheral, out_msg, in_msg, shown, exit_code>>

OutMsg == [test_id : IntMin..IntMax, peripheral : Byte, n_iter : Byte, p_len : Byte]
InMsg  == [test_id : Int, test_result : Byte]

Labels == {"idle", "socket", "init_db", "main", "id_step", "id_finalize", "send",
           "recv", "log_prepare", "log_step", "log_commit", "log_write",
           "log_finalize", "print_prepare", "print_step", "print_finalize", "exited"}

NoCommand == [want |-> {}, n |-> 0, strlen |-> [x \in MsgTests |-> 0]]

Live(p) == pc[p] \notin {"idle", "exited"}

PcTypeOK ==
  /\ pc \in [Procs -> Labels]
  /\ cmd \in [Procs -> Command]
  /\ todo \in [Procs -> SUBSET Peripherals]
  /\ peripheral \in [Procs -> Peripherals \cup {0}]
  /\ out_msg \in [Procs -> OutMsg]
  /\ in_msg \in [Procs -> InMsg]
  /\ shown \in [Procs -> Nat]
  /\ exit_code \in [Procs -> ExitCodes]

PcInit ==
  /\ pc = [p \in Procs |-> "idle"]
  /\ cmd = [p \in Procs |-> NoCommand]
  /\ todo = [p \in Procs |-> {}]
  /\ peripheral = [p \in Procs |-> 0]
  /\ out_msg = [p \in Procs |-> [test_id |-> 0, peripheral |-> 0, n_iter |-> 0, p_len |-> 0]]
  /\ in_msg = [p \in Procs |-> [test_id |-> 0, test_result |-> 0]]
  /\ shown = [p \in Procs |-> 0]
  /\ exit_code = [p \in Procs |-> Running]

Goto(p, label) == pc' = [pc EXCEPT ![p] = label]
MayFail(call) == call \in Faults

(* exit(): the process ends, and what it had locked is free again.         *)
Exit(p, code) ==
  /\ Goto(p, "exited")
  /\ exit_code' = [exit_code EXCEPT ![p] = code]
  /\ Unlock(p)
  /\ UNCHANGED <<cmd, todo, peripheral, out_msg, in_msg, shown, rows, netVars>>

-----------------------------------------------------------------------------
(* main, up to the first test.                                             *)

(* The command line has been parsed.                                       *)
Start(p) ==
  /\ pc[p] = "idle"
  /\ Concurrent \/ \A q \in Procs : ~Live(q)
  /\ \E c \in Commands :
       /\ cmd' = [cmd EXCEPT ![p] = c]
       /\ todo' = [todo EXCEPT ![p] = c.want]
  /\ Goto(p, "socket")
  /\ UNCHANGED <<peripheral, out_msg, in_msg, shown, exit_code, dbVars, netVars>>

UdpInitNetwork(p) ==
  /\ pc[p] = "socket"
  /\ \/ /\ Goto(p, "init_db")
        /\ UNCHANGED <<cmd, todo, peripheral, out_msg, in_msg, shown, exit_code, dbVars, netVars>>
     \/ MayFail("socket") /\ Exit(p, UDP_ERROR)

(* The table exists since the program's first run, so CREATE TABLE IF NOT  *)
(* EXISTS only has to read the schema.                                     *)
InitDb(p) ==
  /\ pc[p] = "init_db"
  /\ \/ /\ Readable
        /\ Goto(p, "main")
        /\ UNCHANGED <<cmd, todo, peripheral, out_msg, in_msg, shown, exit_code, dbVars, netVars>>
     \/ MayFail("sqlite3_open") /\ Exit(p, EXIT_FAILURE)
     \/ (~Readable \/ MayFail("sqlite3_prepare")) /\ Exit(p, SQLITE_ERROR)

-----------------------------------------------------------------------------
(* process_test, for the tests in the order UART, SPI, I2C, ADC, TIM.      *)

Before(x, y) == y = TEST_TIM \/ (x # TEST_TIM /\ x <= y)

(* The next if of main, and get_next_id up to its prepared statement.      *)
BeginTest(p) ==
  /\ pc[p] = "main"
  /\ \E x \in todo[p] :
       /\ \A y \in todo[p] : Before(x, y)
       /\ peripheral' = [peripheral EXCEPT ![p] = x]
  /\ Readable
  /\ Goto(p, "id_step")
  /\ UNCHANGED <<cmd, todo, out_msg, in_msg, shown, exit_code, dbVars, netVars>>

NoNextId(p) ==
  /\ pc[p] = "main"
  /\ todo[p] # {}
  /\ ~Readable \/ MayFail("sqlite3_open") \/ MayFail("sqlite3_prepare")
  /\ Exit(p, SQLITE_ERROR)

Finish(p) ==
  /\ pc[p] = "main"
  /\ todo[p] = {}
  /\ Exit(p, EXIT_SUCCESS)

SetId(p, ids) == \E id \in ids : out_msg' = [out_msg EXCEPT ![p].test_id = id]

(* SELECT MAX(test_id): a step that fails is taken for an empty table.     *)
GetNextId(p) ==
  /\ pc[p] = "id_step"
  /\ \/ Readable /\ SetId(p, NextId(TRUE)) /\ LockShared(p)
     \/ /\ ~Readable \/ MayFail("sqlite3_step")
        /\ SetId(p, NextId(FALSE)) /\ UNCHANGED lockVars
  /\ Goto(p, "id_finalize")
  /\ UNCHANGED <<cmd, todo, peripheral, in_msg, shown, exit_code, rows, netVars>>

(* strlen of the message, kept in a uint8_t; ADC and TIM are given "".     *)
PLen(c, x) == (IF x \in MsgTests THEN c.strlen[x] ELSE 0) % 256

(* sqlite3_finalize and sqlite3_close at the end of get_next_id.            *)
LeaveDbOpen(p) == UNCHANGED lockVars                \* mutant
CloseDb(p) == Unlock(p)

LoadOutMsg(p) ==
  /\ pc[p] = "id_finalize"
  /\ out_msg' = [out_msg EXCEPT ![p] =
       [test_id    |-> @.test_id,
        peripheral |-> peripheral[p],
        n_iter     |-> cmd[p].n,
        p_len      |-> PLen(cmd[p], peripheral[p])]]
  /\ CloseDb(p)
  /\ Goto(p, "send")
  /\ UNCHANGED <<cmd, todo, peripheral, in_msg, shown, exit_code, rows, netVars>>

UdpSendData(p) ==
  /\ pc[p] = "send"
  /\ \/ /\ SendRequest([from |-> p, test_id |-> out_msg[p].test_id,
                        peripheral |-> out_msg[p].peripheral,
                        n_iter |-> out_msg[p].n_iter, p_len |-> out_msg[p].p_len])
        /\ Goto(p, "recv")
        /\ UNCHANGED <<cmd, todo, peripheral, out_msg, in_msg, shown, exit_code, dbVars, toPc, dups>>
     \/ MayFail("sendto") /\ Exit(p, UDP_ERROR)

ToMySocket(p, m) == m.from = p

(* recvfrom blocks until a datagram is in the socket, whichever it is.     *)
UdpReceiveData(p) ==
  /\ pc[p] = "recv"
  /\ \/ \E m \in toPc :
          /\ ToMySocket(p, m)
          /\ TakeResponse(m)
          /\ in_msg' = [in_msg EXCEPT ![p] =
                          [test_id |-> m.test_id, test_result |-> m.test_result]]
          /\ Goto(p, "log_prepare")
          /\ UNCHANGED <<cmd, todo, peripheral, out_msg, shown, exit_code, dbVars, toUut>>
     \/ MayFail("recvfrom") /\ Exit(p, UDP_ERROR)

-----------------------------------------------------------------------------
(* log_test.                                                               *)

\* mutant
LogFailureIgnored(p) ==
  /\ Goto(p, "print_prepare")
  /\ UNCHANGED <<cmd, todo, peripheral, out_msg, in_msg, shown, exit_code, dbVars, netVars>>
(* log_test returned 0.                                                    *)
LogFailed(p) == Exit(p, SQLITE_ERROR)

LogPrepare(p) ==
  /\ pc[p] = "log_prepare"
  /\ \/ /\ Readable
        /\ Goto(p, "log_step")
        /\ UNCHANGED <<cmd, todo, peripheral, out_msg, in_msg, shown, exit_code, dbVars, netVars>>
     \/ /\ ~Readable \/ MayFail("sqlite3_open") \/ MayFail("sqlite3_prepare")
        /\ LogFailed(p)

(* The INSERT starts; if it cannot, log_test reports that and returns 1.   *)
LogStep(p) ==
  /\ pc[p] = "log_step"
  /\ \/ CanReserve /\ Reserve(p) /\ Goto(p, "log_commit")
     \/ /\ ~CanReserve \/ MayFail("sqlite3_step")
        /\ Goto(p, "print_prepare") /\ UNCHANGED lockVars
  /\ UNCHANGED <<cmd, todo, peripheral, out_msg, in_msg, shown, exit_code, rows, netVars>>

(* ... commits, which every reader of the table prevents ...               *)
LogCommit(p) ==
  /\ pc[p] = "log_commit"
  /\ Escalate
  /\ \/ CanCommit /\ Goto(p, "log_write")
     \/ ~CanCommit /\ Goto(p, "log_finalize")
  /\ UNCHANGED <<cmd, todo, peripheral, out_msg, in_msg, shown, exit_code, rows, netVars>>

ResultRaw(p) == in_msg[p].test_result                \* mutant
ResultTruthy(p) == IF in_msg[p].test_result # 0 THEN 1 ELSE 0     \* mutant
ResultColumn(p) == IF in_msg[p].test_result = TEST_SUCCESS THEN 1 ELSE 0

LoggedRow(p) ==
  [test_id |-> out_msg[p].test_id,
   run     |-> [proc |-> p, peripheral |-> peripheral[p]],
   result  |-> ResultColumn(p)]

(* ... and writes the row.                                                 *)
LogWrite(p) ==
  /\ pc[p] = "log_write"
  /\ \/ /\ rows' = Append(rows, LoggedRow(p))
        /\ Unlock(p)
        /\ Goto(p, "print_prepare")
     \/ /\ MayFail("sqlite3_step")
        /\ Goto(p, "log_finalize")
        /\ UNCHANGED dbVars
  /\ UNCHANGED <<cmd, todo, peripheral, out_msg, in_msg, shown, exit_code, netVars>>

(* The end of an INSERT that failed: log_test returns 1 all the same.      *)
LogFinalize(p) ==
  /\ pc[p] = "log_finalize"
  /\ Unlock(p)
  /\ Goto(p, "print_prepare")
  /\ UNCHANGED <<cmd, todo, peripheral, out_msg, in_msg, shown, exit_code, rows, netVars>>

-----------------------------------------------------------------------------
(* print_log_by_id(out_msg.test_id); main ignores what it returns.         *)

NextTest(p) == todo' = [todo EXCEPT ![p] = @ \ {peripheral[p]}] /\ Goto(p, "main")

PrintPrepare(p) ==
  /\ pc[p] = "print_prepare"
  /\ \/ Readable /\ Goto(p, "print_step") /\ UNCHANGED <<shown, todo>>
     \/ /\ ~Readable \/ MayFail("sqlite3_open") \/ MayFail("sqlite3_prepare")
        /\ shown' = [shown EXCEPT ![p] = 0]
        /\ NextTest(p)
  /\ UNCHANGED <<cmd, peripheral, out_msg, in_msg, exit_code, dbVars, netVars>>

PrintStep(p) ==
  /\ pc[p] = "print_step"
  /\ \/ /\ Readable
        /\ LockShared(p)
        /\ \/ \E i \in FirstMatch(out_msg[p].test_id) : shown' = [shown EXCEPT ![p] = i]
           \/ /\ Matching(out_msg[p].test_id) = {}
              /\ shown' = [shown EXCEPT ![p] = 0]
     \/ /\ ~Readable \/ MayFail("sqlite3_step")
        /\ shown' = [shown EXCEPT ![p] = 0]
        /\ UNCHANGED lockVars
  /\ Goto(p, "print_finalize")
  /\ UNCHANGED <<cmd, todo, peripheral, out_msg, in_msg, exit_code, rows, netVars>>

PrintFinalize(p) ==
  /\ pc[p] = "print_finalize"
  /\ Unlock(p)
  /\ NextTest(p)
  /\ UNCHANGED <<cmd, peripheral, out_msg, in_msg, shown, exit_code, rows, netVars>>

-----------------------------------------------------------------------------
TesterStep(p) ==
  \/ UdpInitNetwork(p) \/ InitDb(p)
  \/ BeginTest(p) \/ NoNextId(p) \/ Finish(p)
  \/ GetNextId(p) \/ LoadOutMsg(p) \/ UdpSendData(p) \/ UdpReceiveData(p)
  \/ LogPrepare(p) \/ LogStep(p) \/ LogCommit(p) \/ LogWrite(p) \/ LogFinalize(p)
  \/ PrintPrepare(p) \/ PrintStep(p) \/ PrintFinalize(p)

(* Ctrl-C, the only way out of a recvfrom that nobody answers.             *)
Kill(p) == Killable /\ Live(p) /\ Exit(p, Signalled)
=============================================================================
