------------------------------ MODULE Retrieval -----------------------------
(***************************************************************************)
(* An invocation of hw_tester that looks things up (get, export) while     *)
(* others, who have their answers, log and print theirs.  It begins with   *)
(* CommandLine; a list of options ends at "tests", where HwTester goes on. *)
(*                                                                         *)
(* at, after CommandLine's values, names the call about to be made:        *)
(*   get, export                  init_db                                  *)
(*   get_id                       the loop over the identifiers            *)
(*   get_prepare .. get_finalize  print_log_by_id                          *)
(*   export_prepare               print_all_logs                           *)
(*   export_step, export_row      its first sqlite3_step, the others       *)
(*   export_finalize              its end                                  *)
(* and "done" (EXIT_SUCCESS) or "failed" (init_db) at the end.             *)
(***************************************************************************)
EXTENDS HwTester, CommandLine, SequencesExt

CONSTANTS
  Viewer,      \* the invocation that looks things up
  Earlier,     \* what may be in the table when the others begin to log
  Fetched      \* the identifiers that the others are about to log

ASSUME RetrievalAssumption ==
  Viewer \in Procs /\ Earlier \subseteq Seq(Row) /\ Fetched \in [Procs -> IntMin .. IntMax]

Others == Procs \ {Viewer}

VARIABLES
  told,        \* get: the row each identifier was answered with, 0 for none
  sorted,      \* export: the rows that sqlite3_step has still to return
  printed,     \* export: the rows printed
  refused      \* TRUE: SQLite has refused the statement at hand

viewVars == <<told, sorted, printed, refused>>
retrievalVars == <<netVars, dbVars, pcVars, cliVars, viewVars>>

(* The others stand where their answers have come in.                      *)
RetrievalInit ==
  /\ NetInit /\ CliInit
  /\ \E table \in IF IsCommand(argv) THEN Earlier ELSE {<< >>} : rows = table
  /\ readers = {} /\ writer = None /\ pending = FALSE
  /\ pc = [p \in Procs |-> IF p = Viewer THEN "idle" ELSE "log_prepare"]
  /\ cmd = [p \in Procs |-> [NoCommand EXCEPT !.want = {TEST_TIM}, !.n = 1]]
  /\ todo = [p \in Procs |-> {TEST_TIM}]
  /\ peripheral = [p \in Procs |-> TEST_TIM]
  /\ out_msg = [p \in Procs |->
       [test_id |-> Fetched[p], peripheral |-> TEST_TIM, n_iter |-> 1, p_len |-> 0]]
  /\ in_msg = [p \in Procs |-> [test_id |-> out_msg[p].test_id, test_result |-> TEST_SUCCESS]]
  /\ shown = [p \in Procs |-> 0]
  /\ exit_code = [p \in Procs |-> Running]
  /\ told = << >> /\ sorted = << >> /\ printed = << >> /\ refused = FALSE

WaitsItsTurn(call) == MayFail(call)                 \* mutant
Refused(call) == ~Readable \/ MayFail(call)

At(label) == at' = label /\ UNCHANGED <<argv, parsed, netVars, pcVars>>

(* The number of arguments, and init_db.                                   *)
BeginCommand ==
  /\ at \in {"get", "export"}
  /\ IF (at = "get" /\ Len(argv) < 2) \/ (at = "export" /\ Len(argv) > 1)
     THEN Refuse /\ UNCHANGED <<netVars, pcVars>>
     ELSE /\ idx' = 2
          /\ \/ Readable /\ At(IF at = "get" THEN "get_id" ELSE "export_prepare")
             \/ (MayFail("sqlite3_open") \/ Refused("sqlite3_prepare")) /\ At("failed")
  /\ UNCHANGED <<dbVars, viewVars>>

-----------------------------------------------------------------------------
(* get: print_log_by_id of each identifier, up to one that is not a number.*)

GetInvalid ==
  /\ at = "get_id" /\ idx <= Len(argv) /\ arg.value \cap Nat = {}
  /\ Refuse
  /\ UNCHANGED <<netVars, dbVars, pcVars, viewVars>>

GetPrepare ==
  /\ at = "get_id" /\ idx <= Len(argv) /\ arg.value \cap Nat # {}
  /\ \/ Readable /\ refused' = FALSE /\ At("get_step") /\ UNCHANGED <<idx, told>>
     \/ /\ MayFail("sqlite3_open") \/ Refused("sqlite3_prepare")
        /\ refused' = TRUE /\ told' = Append(told, 0)
        /\ idx' = idx + 1 /\ At("get_id")
  /\ UNCHANGED <<dbVars, sorted, printed>>

(* sqlite3_step of a SELECT.                                                *)
ReadsUnlocked == UNCHANGED lockVars                 \* mutant
ReadsLocked == LockShared(Viewer)

(* The long that strtol returns becomes a uint32_t and then SQLite's int.  *)
AsInt(value) == ((value + IntMax + 1) % (2 * (IntMax + 1))) - IntMax - 1

GetStep ==
  /\ at = "get_step"
  /\ \E value \in arg.value :
       \/ /\ Readable /\ ReadsLocked
          /\ \E i \in IF Matching(AsInt(value)) = {} THEN {0} ELSE FirstMatch(AsInt(value)) :
               told' = Append(told, i)
          /\ UNCHANGED refused
       \/ /\ Refused("sqlite3_step") /\ UNCHANGED lockVars
          /\ told' = Append(told, 0) /\ refused' = TRUE
  /\ At("get_finalize")
  /\ UNCHANGED <<idx, rows, sorted, printed>>

SameArgument == UNCHANGED idx                       \* mutant
NextArgument == idx' = idx + 1

GetFinalize ==
  /\ at = "get_finalize"
  /\ Unlock(Viewer)
  /\ NextArgument
  /\ At("get_id")
  /\ UNCHANGED <<rows, viewVars>>

GetDone ==
  /\ at = "get_id" /\ idx > Len(argv)
  /\ At("done")
  /\ UNCHANGED <<idx, dbVars, viewVars>>

-----------------------------------------------------------------------------
(* export: print_all_logs.  main ignores what it returns.                  *)

ExportPrepare ==
  /\ at = "export_prepare"
  /\ \/ Readable /\ At("export_step") /\ UNCHANGED refused
     \/ /\ MayFail("sqlite3_open") \/ Refused("sqlite3_prepare")
        /\ refused' = TRUE /\ At("done")
  /\ UNCHANGED <<idx, dbVars, told, sorted, printed>>

(* ORDER BY test_id ASC, for which SQLite reads the whole table first:     *)
(* the positions in the table, in the order in which the rows come.        *)
Precedes(i, j) == rows[i].test_id < rows[j].test_id \/ (rows[i].test_id = rows[j].test_id /\ i < j)
InOrder ==
  {order \in [DOMAIN rows -> DOMAIN rows] :
     \A i, j \in DOMAIN rows : i < j => Precedes(order[i], order[j])}

ExportStep ==
  /\ at = "export_step"
  /\ \/ Readable /\ ReadsLocked /\ sorted' \in InOrder /\ At("export_row") /\ UNCHANGED refused
     \/ /\ Refused("sqlite3_step") /\ UNCHANGED <<lockVars, sorted>>
        /\ refused' = TRUE /\ At("export_finalize")
  /\ UNCHANGED <<idx, rows, told, printed>>

ExportRow ==
  /\ at = "export_row" /\ sorted # << >>
  /\ \/ /\ printed' = Append(printed, Head(sorted)) /\ sorted' = Tail(sorted)
        /\ At("export_row") /\ UNCHANGED refused
     \/ /\ MayFail("sqlite3_step") /\ refused' = TRUE
        /\ At("export_finalize") /\ UNCHANGED <<sorted, printed>>
  /\ UNCHANGED <<idx, dbVars, told>>

(* SQLITE_DONE, or the end of a statement that failed.                     *)
ExportFinalize ==
  /\ at = "export_finalize" \/ (at = "export_row" /\ sorted = << >>)
  /\ Unlock(Viewer)
  /\ At("done")
  /\ UNCHANGED <<idx, rows, viewVars>>

-----------------------------------------------------------------------------
View ==
  \/ ParseStep /\ UNCHANGED <<netVars, dbVars, pcVars, viewVars>>
  \/ BeginCommand
  \/ GetInvalid \/ GetPrepare \/ GetStep \/ GetFinalize \/ GetDone
  \/ ExportPrepare \/ ExportStep \/ ExportRow \/ ExportFinalize

(* Parsing reads argv and nothing else: the others need not move during it.*)
Parsing == at \in {"argv", "options", "tests", "help"} \/ (at = "refused" /\ ~IsCommand(argv))

Log ==
  /\ ~Parsing
  /\ \E p \in Others : TesterStep(p)
  /\ UNCHANGED <<cliVars, viewVars>>

RetrievalNext == View \/ Log

RetrievalSpec == RetrievalInit /\ [][RetrievalNext]_retrievalVars
RetrievalFairSpec == RetrievalSpec /\ WF_retrievalVars(View)

-----------------------------------------------------------------------------
Steps == {"argv", "options", "tests", "get", "export", "help", "refused", "get_id",
          "get_step", "get_finalize", "export_prepare", "export_step", "export_row",
          "export_finalize", "done", "failed"}

RetrievalTypeOK ==
  /\ DbTypeOK /\ PcTypeOK /\ CliTypeOK
  /\ at \in Steps
  /\ told \in Seq(0 .. Len(rows)) /\ Len(told) <= Len(argv)
  /\ sorted \in Seq(DOMAIN rows) /\ printed \in Seq(DOMAIN rows)
  /\ refused \in BOOLEAN

(* get answers each identifier: with the record that was logged under it   *)
(* first, and with none only if there is none or SQLite has refused.  An   *)
(* identifier past the largest int wraps and shows the record of another.  *)
GetAnswers ==
  /\ at = "get_finalize" => \A value \in arg.value \cap 0 .. IntMax :
       LET i == told[Len(told)]
           found == {j \in DOMAIN rows : rows[j].test_id = value}
       IN  IF i = 0 THEN refused \/ found = {} ELSE i \in found /\ \A j \in found : i <= j
  /\ at = "done" /\ argv[1].kind = "get" => Len(told) = Len(argv) - 1

(* While export prints, what it has printed and what is still to come are  *)
(* the whole table as it is at that moment, in the order of the            *)
(* identifiers, however many others are about to log.                      *)
ExportIsWhole == at = "export_row" => printed \o sorted \in InOrder

(* Whatever the arguments and the others do, an invocation that only looks *)
(* things up, or is refused, ends: the database never keeps it waiting.    *)
Ends == at = "argv" ~> at \in {"tests", "help", "refused", "done", "failed"}
=============================================================================
