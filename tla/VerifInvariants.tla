--------------------------- MODULE VerifInvariants --------------------------
(***************************************************************************)
(* The inductive invariants behind the safety properties of VerifSystem:   *)
(* what must hold between the tester's position, the datagrams in flight,  *)
(* the UUT's ring and the table for the properties to survive every step.  *)
(***************************************************************************)
EXTENDS VerifSystem

(* Positions in process_test and the print_log_by_id after it.             *)
Asking   == {"id_step", "id_finalize", "send"}
Logging  == {"log_prepare", "log_step", "log_commit", "log_write"}
Printing == {"print_prepare", "print_step", "print_finalize"}
InTest   == Asking \cup {"recv"} \cup Logging \cup {"log_finalize"} \cup Printing

-----------------------------------------------------------------------------
(* Who may hold which lock: only a connection whose statement is not yet   *)
(* finalized, so nobody who waits for the network.                         *)
LockInv ==
  /\ \A p \in readers : pc[p] \in {"id_finalize", "print_finalize"}
  /\ \A p \in Procs : pc[p] \in {"log_commit", "log_write", "log_finalize"} <=> writer = p
  /\ pending => writer # None /\ pc[writer] \in {"log_write", "log_finalize"}

-----------------------------------------------------------------------------
(* A test that p has ordered and k is the record of.                       *)
Found(p, k) ==
  /\ ran[k].request.from = p
  /\ ran[k].request.test_id = out_msg[p].test_id
  /\ ran[k].request.peripheral = peripheral[p]

(* A request that has not been served: its sender still waits, or has died *)
(* waiting, and there is neither a record of the test nor an answer.       *)
Outstanding(m) ==
  /\ pc[m.from] \in {"recv", "exited"}
  /\ m.test_id = out_msg[m.from].test_id
  /\ m.peripheral = peripheral[m.from] /\ m.peripheral \in Peripherals
  /\ \A k \in DOMAIN ran :
       ~(ran[k].request.from = m.from /\ ran[k].request.peripheral = m.peripheral)
  /\ \A a \in toPc : a.from # m.from

RequestInv ==
  /\ \A m \in toUut : Outstanding(m)
  /\ \A i \in DOMAIN rx_ring : Outstanding(rx_ring[i])
  /\ uut_pc # "poll" => Outstanding(uut_msg)

(* At most one request per invocation is anywhere on its way.              *)
SingleInv ==
  /\ \A m, n \in toUut : m.from = n.from => m = n
  /\ \A m \in toUut, i \in DOMAIN rx_ring : m.from # rx_ring[i].from
  /\ \A i, j \in DOMAIN rx_ring : rx_ring[i].from = rx_ring[j].from => i = j
  /\ uut_pc # "poll" =>
       /\ \A m \in toUut : m.from # uut_msg.from
       /\ \A i \in DOMAIN rx_ring : rx_ring[i].from # uut_msg.from

(* An answer, in flight or in in_msg, is to the test its receiver performs.*)
AnswerInv ==
  /\ \A a \in toPc :
       /\ pc[a.from] \in {"recv", "exited"}
       /\ a.test_id = out_msg[a.from].test_id
       /\ \E k \in DOMAIN ran : Found(a.from, k) /\ ran[k].result = a.test_result
  /\ \A p \in Procs : pc[p] \in Logging =>
       \E k \in DOMAIN ran : Found(p, k) /\ ran[k].result = in_msg[p].test_result

(* What has been performed and logged is what the invocation has done so   *)
(* far: it is off its list, or is the test it is at, past the right point. *)
ProgressInv ==
  /\ \A p \in Procs : pc[p] \in InTest => peripheral[p] \in todo[p]
  /\ \A p \in Procs : pc[p] \in {"send", "recv"} => out_msg[p].peripheral = peripheral[p]
  /\ \A k \in DOMAIN ran :
       LET p == ran[k].request.from  x == ran[k].request.peripheral IN
       /\ pc[p] \notin {"idle", "socket", "init_db"}
       /\ x \in todo[p] => x = peripheral[p] /\ pc[p] \notin Asking \cup {"main"}
  /\ \A i \in DOMAIN rows :
       LET p == rows[i].run.proc  x == rows[i].run.peripheral IN
       /\ pc[p] \notin {"idle", "socket", "init_db"}
       /\ x \in todo[p] => x = peripheral[p] /\ pc[p] \in Printing \cup {"exited"}

(* Inductive as long as the network has delivered nothing twice.           *)
OwnInv ==
  RequestInv /\ SingleInv /\ AnswerInv /\ ProgressInv /\ ResultIsOwn /\ PerformedOnce

-----------------------------------------------------------------------------
(* A request asks for what its sender's command says, wherever it is and   *)
(* however often it is delivered.                                          *)
Ordered(m) ==
  /\ pc[m.from] # "idle"
  /\ m.n_iter = cmd[m.from].n
  /\ m.p_len = PLen(cmd[m.from], m.peripheral)

OrderInv ==
  /\ \A m \in toUut : Ordered(m)
  /\ \A i \in DOMAIN rx_ring : Ordered(rx_ring[i])
  /\ uut_pc # "poll" => Ordered(uut_msg)
  /\ \A k \in DOMAIN ran : Ordered(ran[k].request)
  /\ \A p \in Procs : pc[p] = "send" =>
       /\ out_msg[p].n_iter = cmd[p].n
       /\ out_msg[p].p_len = PLen(cmd[p], out_msg[p].peripheral)

-----------------------------------------------------------------------------
(* The verdict v is one that the UUT has reached on a test of p: true of   *)
(* every answer and every row, also when answers are delivered twice.      *)
Reached(p, v) == \E k \in DOMAIN ran : ran[k].request.from = p /\ ran[k].result = v

SourceInv ==
  /\ \A a \in toPc : Reached(a.from, a.test_result)
  /\ \A p \in Procs : pc[p] \in Logging => Reached(p, in_msg[p].test_result)
  /\ ResultFromOwnInvocation

-----------------------------------------------------------------------------
(* With ~Concurrent and no failing sqlite3_step this is inductive: the     *)
(* identifier an invocation has fetched is still unused when it logs.      *)
IdInv ==
  /\ \A p, q \in Procs : Live(p) /\ Live(q) => p = q
  /\ LockInv
  /\ \A p \in Procs : pc[p] \in {"id_finalize", "send", "recv"} \cup Logging =>
       out_msg[p].test_id = IntMin \/ \A i \in DOMAIN rows : rows[i].test_id # out_msg[p].test_id
  /\ IdsNeverRepeat

(* In the same circumstances no INSERT is refused, so that what is off the *)
(* list of an invocation has a row, and the row it is about to print is    *)
(* the one it has just written.                                            *)
OwnRow(p, x, i) == rows[i].run = [proc |-> p, peripheral |-> x]
HasRow(p, x)    == \E i \in DOMAIN rows : OwnRow(p, x, i)

LoggedInv ==
  /\ \A p \in Procs : pc[p] # "log_finalize"
  /\ \A p \in Procs : exit_code[p] # Running => pc[p] = "exited"
  /\ \A p \in Procs : exit_code[p] = EXIT_SUCCESS => todo[p] = {}
  /\ \A p \in Procs : \A x \in cmd[p].want \ todo[p] : HasRow(p, x)
  /\ \A p \in Procs : pc[p] \in Printing =>
       /\ \E i \in Matching(out_msg[p].test_id) : OwnRow(p, peripheral[p], i)
       /\ out_msg[p].test_id # IntMin =>
            \A i \in Matching(out_msg[p].test_id) : OwnRow(p, peripheral[p], i)
  /\ PrintsOwnRow
=============================================================================
