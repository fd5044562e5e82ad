--------------------------- MODULE RetrievalProofs ---------------------------
(***************************************************************************)
(* What get and export answer, for every argument list, every table and    *)
(* any number of invocations that log and print meanwhile:                 *)
(*   RetrievalTypes     every variable keeps its type                      *)
(*   AnswersAreTrue     get tells what was logged first, identifier by     *)
(*                      identifier                                         *)
(*   ParserKeepsTheRules   options are taken, refused and understood as    *)
(*                      the usage text says                                *)
(*   ExportsOneMoment   export prints the table of one moment, in order    *)
(***************************************************************************)
EXTENDS Retrieval, TesterFacts, FiniteSetTheorems

(* Whoever writes the table holds it alone: the Viewer, who never does,    *)
(* keeps it as it is while it is a reader.                                 *)
LockInv ==
  /\ pc[Viewer] = "idle" /\ writer # Viewer
  /\ \A q \in Others : pc[q] = "log_commit" => writer = q
  /\ \A q \in Others : pc[q] = "log_write" => writer = q /\ pending /\ readers = {}

(* The identifiers get has dealt with are those before idx.                *)
GetInv ==
  /\ at \in {"argv", "options", "tests", "help", "get", "export", "export_prepare",
             "export_step", "export_row", "export_finalize"} => told = << >>
  /\ at \in {"get", "get_id", "get_step", "get_finalize"} => argv # << >> /\ argv[1].kind = "get"
  /\ at \in {"get_id", "get_step", "get_finalize"} => idx >= 2
  /\ at \in {"get_id", "get_step"} => Len(told) = idx - 2 /\ idx <= Len(argv) + 1
  /\ at \in {"get_step", "get_finalize"} => idx <= Len(argv)
  /\ at = "get_finalize" => Len(told) = idx - 1 /\ (refused \/ Viewer \in readers)
  /\ at \in {"export", "export_prepare", "export_step", "export_row", "export_finalize"} =>
       argv # << >> /\ argv[1].kind = "export"

ExportInv ==
  /\ at \in {"argv", "export", "export_prepare", "export_step"} => printed = << >>
  /\ at = "export_row" => Viewer \in readers

IInv ==
  /\ TesterType /\ RetrievalTypeOK /\ argv \in ArgLists
  /\ LockInv /\ GetInv /\ ExportInv /\ GetAnswers /\ ExportIsWhole

-----------------------------------------------------------------------------
(* What an invocation that logs and prints does to the table and the locks.*)
LEMMA OthersStep ==
  ASSUME TesterType, LockInv, NEW q \in Others, TesterStep(q)
  PROVE  /\ rows' = rows \/ (readers = {} /\ \E r \in Row : rows' = Append(rows, r))
         /\ Viewer \in readers => Viewer \in readers'
         /\ LockInv'
<1> USE DEF Others, Goto, lockVars, dbVars
<1>0. q \in Procs /\ q # Viewer /\ Viewer \in Procs /\ Viewer # None /\ q # None
  BY RetrievalAssumption, NoneAssumption
<1>t. pc \in [Procs -> Labels] /\ TesterType'
  BY <1>0, TesterTypes DEF TesterType, PcTypeOK
<1>1. \/ rows' = rows
      \/ /\ pc[q] = "log_write" /\ \E r : rows' = Append(rows, r)
         /\ Unlock(q) /\ Goto(q, "print_prepare")
  BY DEF TesterStep, UdpInitNetwork, InitDb, BeginTest, NoNextId, Finish, GetNextId, LoadOutMsg, UdpSendData,
         UdpReceiveData, LogPrepare, LogStep, LogCommit, LogWrite, LogFinalize, PrintPrepare, PrintStep,
         PrintFinalize, Exit, LogFailed
<1>2. CASE Unlock(q) /\ pc' = [pc EXCEPT ![q] = pc'[q]] /\ pc'[q] \notin {"log_commit", "log_write"}
  <2>1. Viewer \in readers => Viewer \in readers'
    BY <1>0, <1>2 DEF Unlock
  <2>2. LockInv'
    BY <1>0, <1>2, <1>t DEF LockInv, Unlock
  <2>3. rows' = rows \/ (readers = {} /\ \E r \in Row : rows' = Append(rows, r))
    <3>1. CASE rows' = rows
      BY <3>1
    <3>2. CASE pc[q] = "log_write" /\ \E r : rows' = Append(rows, r)
      <4>1. PICK r : rows' = Append(rows, r)
        BY <3>2
      <4>2. rows' \in Seq(Row) /\ rows \in Seq(Row)
        BY <1>t DEF TesterType, DbTypeOK
      <4>3. PICK any : rows \in Seq(any) /\ r \in any
        <5>1. rows \in Seq(Row \cup {r})
          BY <4>2
        <5> QED
          BY <5>1
      <4>4. Len(rows) + 1 \in DOMAIN rows' /\ rows'[Len(rows) + 1] = r
        BY <4>1, <4>3
      <4>5. r \in Row
        BY <4>2, <4>4
      <4> QED
        BY <3>2, <4>1, <4>5 DEF LockInv
    <3> QED
      BY <1>1, <3>1, <3>2
  <2> QED
    BY <2>1, <2>2, <2>3
<1>3. CASE /\ UNCHANGED dbVars /\ pc' = [pc EXCEPT ![q] = pc'[q]]
           /\ pc'[q] \notin {"log_commit", "log_write"}
  BY <1>0, <1>3, <1>t DEF LockInv
<1>4. CASE /\ Readable /\ LockShared(q) /\ pc' = [pc EXCEPT ![q] = pc'[q]]
           /\ pc'[q] \notin {"log_commit", "log_write"} /\ rows' = rows
  BY <1>0, <1>4, <1>t DEF LockInv, LockShared, Readable
<1>5. CASE LogStep(q)
  <2>1. CASE writer = None /\ writer' = q /\ UNCHANGED <<rows, readers, pending>>
    BY <1>0, <1>5, <1>t, <2>1, NoneAssumption DEF LogStep, LockInv
  <2>2. CASE UNCHANGED dbVars /\ Goto(q, "print_prepare")
    BY <1>0, <1>3, <2>2, <1>t
  <2> QED
    BY <1>5, <2>1, <2>2 DEF LogStep, Reserve, CanReserve
<1>6. CASE LogCommit(q)
  BY <1>0, <1>6, <1>t DEF LogCommit, LockInv, Escalate, CanCommit
<1>7. CASE LogWrite(q) /\ ~Unlock(q)
  BY <1>0, <1>7, <1>t DEF LogWrite, LockInv
<1>8. CASE LogWrite(q) /\ Unlock(q)
  BY <1>0, <1>2, <1>8, <1>t DEF LogWrite
<1>9. CASE \E code : Exit(q, code)
  BY <1>0, <1>2, <1>9, <1>t DEF Exit
<1>10. CASE UdpInitNetwork(q) \/ InitDb(q) \/ BeginTest(q) \/ NoNextId(q) \/ Finish(q)
  BY <1>0, <1>3, <1>9, <1>10, <1>t DEF UdpInitNetwork, InitDb, BeginTest, NoNextId, Finish
<1>11. CASE GetNextId(q) \/ LoadOutMsg(q)
  BY <1>0, <1>2, <1>3, <1>4, <1>11, <1>t DEF GetNextId, LoadOutMsg, CloseDb
<1>12. CASE UdpSendData(q) \/ UdpReceiveData(q) \/ LogPrepare(q)
  BY <1>0, <1>3, <1>9, <1>12, <1>t DEF UdpSendData, UdpReceiveData, LogPrepare, LogFailed
<1>13. CASE LogFinalize(q) \/ PrintFinalize(q)
  BY <1>0, <1>2, <1>13, <1>t DEF LogFinalize, PrintFinalize, NextTest
<1>14. CASE PrintPrepare(q)
  BY <1>0, <1>3, <1>14, <1>t DEF PrintPrepare, NextTest
<1>15. CASE PrintStep(q)
  BY <1>0, <1>3, <1>4, <1>15, <1>t DEF PrintStep
<1> QED
  BY <1>5, <1>6, <1>7, <1>8, <1>10, <1>11, <1>12, <1>13, <1>14, <1>15 DEF TesterStep

LEMMA SeqWidens ==
  ASSUME NEW S, NEW T, S \subseteq T, NEW s \in Seq(S)
  PROVE  s \in Seq(T)
  OBVIOUS

(* What the steps of the others leave of the Viewer's invariant.           *)
LEMMA LogKeeps == IInv /\ Log => IInv'
<1> SUFFICES ASSUME IInv, Log PROVE IInv'
  OBVIOUS
<1> USE DEF cliVars, parsed, viewVars
<1>1. PICK q \in Others : TesterStep(q)
  BY DEF Log
<1>2. UNCHANGED <<argv, at, idx, seen, used_all, used_n, n, msg, told, sorted, printed, refused>>
  BY DEF Log
<1>3. TesterType /\ LockInv /\ RetrievalTypeOK /\ GetInv /\ ExportInv /\ GetAnswers /\ ExportIsWhole
  BY DEF IInv
<1>4. TesterType'
  BY <1>1, <1>3, TesterTypes DEF Others
<1>5. /\ rows' = rows \/ (readers = {} /\ \E r \in Row : rows' = Append(rows, r))
      /\ Viewer \in readers => Viewer \in readers'
      /\ LockInv'
  BY <1>1, <1>3, OthersStep
<1>6. Viewer \in readers => rows' = rows
  BY <1>5
<1>7. /\ Len(rows') >= Len(rows) /\ DOMAIN rows \subseteq DOMAIN rows' /\ Len(rows) \in Nat /\ Len(rows') \in Nat
      /\ \A i \in DOMAIN rows : rows'[i] = rows[i]
      /\ \A i \in DOMAIN rows' \ DOMAIN rows : \A j \in DOMAIN rows : j <= i
  <2>1. rows \in Seq(Row)
    BY <1>3 DEF TesterType, DbTypeOK
  <2>2. CASE rows' = rows
    BY <2>1, <2>2
  <2>3. CASE \E r \in Row : rows' = Append(rows, r)
    <3> PICK r \in Row : rows' = Append(rows, r)
      BY <2>3
    <3>1. /\ Len(rows') = Len(rows) + 1 /\ Len(rows) \in Nat
          /\ DOMAIN rows = 1 .. Len(rows) /\ DOMAIN rows' = 1 .. Len(rows')
      BY <2>1
    <3>2. \A i \in DOMAIN rows : rows'[i] = rows[i]
      BY <2>1, SMTT(40)
    <3>3. PICK k \in Nat : k = Len(rows)
      BY <3>1, Zenon
    <3>4. Len(rows') = k + 1 /\ DOMAIN rows = 1 .. k /\ DOMAIN rows' = 1 .. k + 1
      BY <3>1, <3>3
    <3>5. 1 .. k \subseteq 1 .. k + 1 /\ \A i \in (1 .. k + 1) \ (1 .. k) : \A j \in 1 .. k : j <= i
      OBVIOUS
    <3> QED
      BY <3>2, <3>3, <3>4, <3>5
  <2> QED
    BY <1>5, <2>2, <2>3
<1>8. RetrievalTypeOK'
  <2>1. DbTypeOK' /\ PcTypeOK'
    BY <1>4 DEF TesterType
  <2>2. CliTypeOK' /\ at' \in Steps /\ refused' \in BOOLEAN
    BY <1>2, <1>3 DEF RetrievalTypeOK, CliTypeOK
  <2>3. told \in Seq(0 .. Len(rows')) /\ Len(told) <= Len(argv)
    <3>1. told \in Seq(0 .. Len(rows)) /\ Len(told) <= Len(argv) /\ 0 .. Len(rows) \subseteq 0 .. Len(rows')
      BY <1>3, <1>7 DEF RetrievalTypeOK
    <3> QED
      BY <3>1, SeqWidens
  <2>4. sorted \in Seq(DOMAIN rows') /\ printed \in Seq(DOMAIN rows')
    <3>1. sorted \in Seq(DOMAIN rows) /\ printed \in Seq(DOMAIN rows)
      BY <1>3 DEF RetrievalTypeOK
    <3>2. DOMAIN rows \subseteq DOMAIN rows'
      BY <1>7
    <3> QED
      BY <3>1, <3>2, SeqWidens
  <2> QED
    BY <1>2, <2>1, <2>2, <2>3, <2>4 DEF RetrievalTypeOK
<1>9. GetInv' /\ ExportInv'
  BY <1>2, <1>3, <1>5 DEF GetInv, ExportInv
<1>10. ExportIsWhole'
  <2>1. at = "export_row" => rows' = rows
    BY <1>3, <1>6 DEF ExportInv
  <2> QED
    BY <1>2, <1>3, <2>1 DEF ExportIsWhole, InOrder, Precedes
<1>11. GetAnswers'
  <2>1. SUFFICES ASSUME at = "get_finalize", NEW value \in arg.value \cap 0 .. IntMax
        PROVE LET i == told[Len(told)]
                  found == {j \in DOMAIN rows' : rows'[j].test_id = value}
              IN  IF i = 0 THEN refused \/ found = {} ELSE i \in found /\ \A j \in found : i <= j
    BY <1>2, <1>3 DEF GetAnswers, arg
  <2> DEFINE i == told[Len(told)]
  <2>2. IF i = 0 THEN refused \/ {j \in DOMAIN rows : rows[j].test_id = value} = {}
        ELSE /\ i \in {j \in DOMAIN rows : rows[j].test_id = value}
             /\ \A j \in {k \in DOMAIN rows : rows[k].test_id = value} : i <= j
    BY <1>3, <2>1 DEF GetAnswers
  <2>3. CASE i = 0
    BY <1>3, <1>6, <2>1, <2>2, <2>3 DEF GetInv
  <2>4. CASE i # 0
    BY <1>7, <2>2, <2>4
  <2> QED
    BY <2>3, <2>4
<1> QED
  BY <1>2, <1>3, <1>4, <1>5, <1>8, <1>9, <1>10, <1>11 DEF IInv

-----------------------------------------------------------------------------
(* The Viewer.                                                             *)

(* What it does to the table and the locks.                                *)
LEMMA ViewFrame ==
  ASSUME IInv, View
  PROVE  rows' = rows /\ TesterType' /\ LockInv'
<1>0. TesterType /\ LockInv /\ Viewer \in Procs
  BY RetrievalAssumption DEF IInv
<1>1. UNCHANGED <<netVars, pcVars, rows>>
  BY DEF View, BeginCommand, Refuse, At, GetInvalid, GetPrepare, GetStep, GetFinalize, GetDone,
         ExportPrepare, ExportStep, ExportRow, ExportFinalize, dbVars
<1>2. CASE UNCHANGED lockVars
  BY <1>0, <1>1, <1>2
     DEF lockVars, pcVars, netVars, TesterType, NetTypeOK, DbTypeOK, PcTypeOK, LockInv
<1>3. CASE Readable /\ ReadsLocked
  BY <1>0, <1>1, <1>3
     DEF pcVars, netVars, TesterType, NetTypeOK, DbTypeOK, PcTypeOK, LockInv, Readable, ReadsLocked, LockShared
<1>4. CASE Unlock(Viewer)
  BY <1>0, <1>1, <1>4
     DEF pcVars, netVars, TesterType, NetTypeOK, DbTypeOK, PcTypeOK, LockInv, Unlock
<1> QED
  BY <1>1, <1>2, <1>3, <1>4
     DEF View, BeginCommand, GetInvalid, GetPrepare, GetStep, GetFinalize, GetDone,
         ExportPrepare, ExportStep, ExportRow, ExportFinalize, dbVars, lockVars

(* What is left to be shown of each of its steps.                          *)
ViewRest ==
  /\ CliTypeOK /\ argv \in ArgLists
  /\ at \in Steps /\ refused \in BOOLEAN
  /\ told \in Seq(0 .. Len(rows)) /\ Len(told) <= Len(argv)
  /\ sorted \in Seq(DOMAIN rows) /\ printed \in Seq(DOMAIN rows)
  /\ GetInv /\ ExportInv /\ GetAnswers /\ ExportIsWhole

LEMMA ParseKeeps ==
  ASSUME IInv, ParseStep, UNCHANGED <<netVars, dbVars, pcVars, viewVars>>
  PROVE  ViewRest'
<1>0. CliTypeOK /\ argv \in Seq(Arg) /\ idx \in 1 .. Len(argv) + 2 /\ Len(argv) \in Nat
  BY DEF IInv, RetrievalTypeOK, CliTypeOK
<1>1. UNCHANGED <<argv, told, sorted, printed, refused, rows, readers, writer, pending>>
  BY DEF ParseStep, NoArguments, FirstArgument, Help, All, Iterations, Flags, UnexpectedToken, AllParsed,
         Refuse, viewVars, dbVars
<1>2. /\ at \in {"argv", "options"}
      /\ at' \in {"options", "refused", "help", "tests"} \/ (at' = argv[1].kind /\ at' \in {"get", "export"})
      /\ at' \in {"get", "export"} => argv # << >> /\ at = "argv"
  BY DEF ParseStep, NoArguments, FirstArgument, Help, All, Iterations, Flags, UnexpectedToken, AllParsed, Refuse
<1>3. ASSUME NEW xs, idx <= Len(argv), ShareMessage(xs)
      PROVE  idx' \in 1 .. Len(argv) + 2 /\ msg' \in [MsgLetters -> 0 .. Len(argv)]
  BY <1>0, <1>3 DEF ShareMessage, MessageFollows, CliTypeOK
<1>4. CliTypeOK'
  <2>1. CASE NoArguments \/ FirstArgument \/ Help \/ UnexpectedToken \/ AllParsed
    BY <1>0, <2>1 DEF NoArguments, FirstArgument, Help, UnexpectedToken, AllParsed, Refuse, parsed, CliTypeOK
  <2>2. CASE Refuse
    BY <1>0, <2>2 DEF Refuse, parsed, CliTypeOK
  <2>3. CASE All /\ ~Refuse
    BY <1>0, <1>1, <1>3, <2>3 DEF All, CliTypeOK
  <2>4. CASE Iterations /\ ~Refuse
    <3>1. /\ n' \in Counts /\ used_n' = TRUE /\ idx' = idx + 2 /\ idx <= Len(argv)
          /\ UNCHANGED <<argv, seen, used_all, msg>>
      BY <2>4 DEF Iterations, IterationCount
    <3>2. idx' \in 1 .. Len(argv) + 2
      BY <1>0, <3>1
    <3> QED
      BY <1>0, <3>1, <3>2 DEF CliTypeOK
  <2>5. CASE Flags /\ ~Refuse
    BY <1>0, <1>1, <1>3, <2>5 DEF Flags, StackOk, CliTypeOK
  <2> QED
    BY <2>1, <2>2, <2>3, <2>4, <2>5 DEF ParseStep
<1>5. GetInv' /\ GetAnswers'
  BY <1>1, <1>2 DEF IInv, GetInv, GetAnswers
<1>6. ExportInv' /\ ExportIsWhole'
  BY <1>1, <1>2 DEF IInv, ExportInv, ExportIsWhole
<1> QED
  BY <1>1, <1>2, <1>4, <1>5, <1>6 DEF IInv, RetrievalTypeOK, ViewRest, Steps

LEMMA BeginKeeps == ASSUME IInv, BeginCommand PROVE ViewRest'
<1>0. CliTypeOK /\ argv \in Seq(Arg) /\ Len(argv) \in Nat
  BY DEF IInv, RetrievalTypeOK, CliTypeOK
<1>1. UNCHANGED <<argv, parsed, told, sorted, printed, refused, rows>> /\ told = << >> /\ argv # << >>
  BY DEF IInv, GetInv, BeginCommand, At, Refuse, parsed, viewVars, dbVars
<1>2. CASE at' = "refused" /\ idx' = idx
  <2>1. CliTypeOK'
    BY <1>0, <1>1, <1>2 DEF CliTypeOK, parsed
  <2> QED
    BY <1>1, <1>2, <2>1 DEF IInv, RetrievalTypeOK, ViewRest, Steps, GetInv, ExportInv, GetAnswers, ExportIsWhole
<1>3. CASE /\ idx' = 2 /\ Len(argv) >= 1
           /\ \/ at = "get" /\ at' = "get_id" /\ Len(argv) >= 2
              \/ at = "export" /\ at' = "export_prepare"
              \/ at' = "failed"
  <2>1. CliTypeOK'
    <3>1. idx' \in 1 .. Len(argv) + 2
      BY <1>0, <1>3
    <3> QED
      BY <1>0, <1>1, <3>1 DEF CliTypeOK, parsed
  <2>2. Len(told) = 0
    BY <1>1
  <2>3. GetInv' /\ ExportInv'
    BY <1>0, <1>1, <1>3, <2>2 DEF IInv, GetInv, ExportInv
  <2>4. GetAnswers' /\ ExportIsWhole'
    BY <1>3 DEF GetAnswers, ExportIsWhole
  <2> QED
    BY <1>1, <1>3, <2>1, <2>3, <2>4 DEF IInv, RetrievalTypeOK, ViewRest, Steps
<1>4. Len(argv) >= 1
  BY <1>0, <1>1
<1> QED
  BY <1>0, <1>2, <1>3, <1>4 DEF BeginCommand, At, Refuse

LEMMA AsIntKeeps == ASSUME NEW value \in 0 .. IntMax PROVE AsInt(value) = value
<1>1. PICK m \in Nat : m = IntMax
  BY IntMaxAssumption
<1>2. \A a \in Nat, b \in Nat : a < b => a % b = a
  OBVIOUS
<1>3. (value + m + 1) % (2 * (m + 1)) = value + m + 1
  BY <1>1, <1>2
<1> QED
  BY <1>1, <1>3 DEF AsInt

(* What get is about to say of the identifier in hand.                     *)
LEMMA GetStepKeeps == ASSUME IInv, GetStep PROVE ViewRest'
<1>0. /\ CliTypeOK /\ argv \in Seq(Arg) /\ argv \in ArgLists /\ Len(argv) \in Nat /\ idx \in Nat
      /\ rows \in Seq(Row) /\ Len(rows) \in Nat /\ told \in Seq(0 .. Len(rows))
  BY DEF IInv, RetrievalTypeOK, CliTypeOK, DbTypeOK
<1>1. /\ at = "get_step" /\ at' = "get_finalize"
      /\ UNCHANGED <<argv, parsed, idx, sorted, printed, rows>>
      /\ idx >= 2 /\ idx <= Len(argv) /\ Len(told) = idx - 2 /\ argv[1].kind = "get"
  BY DEF GetStep, At, IInv, GetInv
<1> DEFINE Answered(value, i) ==
             /\ told' = Append(told, i)
             /\ \/ /\ readers' = readers \cup {Viewer}
                   /\ IF Matching(AsInt(value)) = {} THEN i = 0 ELSE i \in FirstMatch(AsInt(value))
                   /\ refused' = refused
                \/ i = 0 /\ refused' = TRUE
<1>p. PICK value \in arg.value : \E i : Answered(value, i)
  BY DEF GetStep, ReadsLocked, LockShared
<1>2. PICK i : Answered(value, i)
  BY <1>p
<1>3. i \in 0 .. Len(rows)
  BY <1>0, <1>2 DEF FirstMatch, Matching
<1>4. /\ told' \in Seq(0 .. Len(rows)) /\ Len(told') = idx - 1 /\ told'[Len(told')] = i
  <2>1. told' \in Seq(0 .. Len(rows)) /\ Len(told') = Len(told) + 1 /\ told'[Len(told) + 1] = i
    BY <1>0, <1>2, <1>3
  <2> QED
    BY <1>0, <1>1, <2>1
<1>5. CliTypeOK'
  BY <1>0, <1>1 DEF CliTypeOK, parsed
<1>6. GetInv' /\ ExportInv'
  BY <1>0, <1>1, <1>2, <1>4 DEF GetInv, ExportInv
<1>7. GetAnswers'
  <2>1. SUFFICES ASSUME NEW w \in arg.value \cap 0 .. IntMax
        PROVE LET found == {j \in DOMAIN rows : rows[j].test_id = w}
              IN  IF i = 0 THEN refused' \/ found = {} ELSE i \in found /\ \A j \in found : i <= j
    BY <1>1, <1>4 DEF GetAnswers, arg
  <2>2. w = value
    <3>1. idx \in DOMAIN argv
      BY <1>0, <1>1
    <3> QED
      BY <1>0, <2>1, <3>1, ArgsAssumption DEF arg
  <2>3. AsInt(value) = w
    BY <2>1, <2>2, AsIntKeeps
  <2> QED
    BY <1>0, <1>2, <2>3 DEF FirstMatch, Matching
<1> QED
  <2>1. ExportIsWhole' /\ Len(told') <= Len(argv)
    BY <1>0, <1>1, <1>4 DEF ExportIsWhole
  <2>2. refused' \in BOOLEAN
    <3>1. refused \in BOOLEAN
      BY DEF IInv, RetrievalTypeOK
    <3> QED
      BY <1>2, <3>1
  <2> QED
    BY <1>0, <1>1, <1>4, <1>5, <1>6, <1>7, <2>1, <2>2 DEF IInv, RetrievalTypeOK, ViewRest, Steps

LEMMA GetKeeps ==
  ASSUME IInv, GetInvalid \/ GetPrepare \/ GetFinalize \/ GetDone
  PROVE  ViewRest'
<1>0. /\ CliTypeOK /\ argv \in Seq(Arg) /\ Len(argv) \in Nat /\ idx \in Nat
      /\ rows \in Seq(Row) /\ Len(rows) \in Nat /\ told \in Seq(0 .. Len(rows)) /\ Len(told) \in Nat
  BY DEF IInv, RetrievalTypeOK, CliTypeOK, DbTypeOK
<1>1. /\ UNCHANGED <<argv, parsed, sorted, printed, rows>>
      /\ at \in {"get_id", "get_finalize"} /\ at' \notin {"get_finalize", "export_row"}
  BY DEF GetInvalid, GetPrepare, GetFinalize, GetDone, At, Refuse, viewVars, dbVars
<1>2. GetAnswers' /\ ExportIsWhole' /\ ExportInv'
  <2>1. at' = "done" => at = "get_id" /\ idx > Len(argv) /\ told' = told
    BY DEF GetInvalid, GetPrepare, GetFinalize, GetDone, At, Refuse, viewVars
  <2>2. at = "get_id" => Len(told) = idx - 2 /\ idx <= Len(argv) + 1
    BY DEF IInv, GetInv
  <2>3. at' = "done" => Len(told') = Len(argv) - 1
    BY <1>0, <2>1, <2>2
  <2>4. at' \notin {"export", "export_prepare", "export_step", "argv"}
    BY DEF GetInvalid, GetPrepare, GetFinalize, GetDone, At, Refuse
  <2> QED
    BY <1>1, <2>3, <2>4 DEF GetAnswers, ExportIsWhole, ExportInv
<1>3. \/ idx' = idx
      \/ idx' = idx + 1 /\ idx <= Len(argv)
  BY DEF GetInvalid, GetPrepare, GetFinalize, GetDone, NextArgument, Refuse, IInv, GetInv
<1>4. CliTypeOK'
  BY <1>0, <1>1, <1>3 DEF CliTypeOK, parsed
<1>5. told' \in Seq(0 .. Len(rows)) /\ Len(told') <= Len(argv) /\ GetInv' /\ refused' \in BOOLEAN /\ at' \in Steps
  <2>1. refused \in BOOLEAN /\ Len(told) <= Len(argv)
    BY DEF IInv, RetrievalTypeOK
  <2>2. CASE GetInvalid
    BY <1>0, <1>1, <2>1, <2>2 DEF GetInvalid, Refuse, viewVars, GetInv, Steps
  <2>3. CASE GetDone
    BY <1>0, <1>1, <2>1, <2>3 DEF GetDone, At, viewVars, GetInv, Steps
  <2>4. CASE GetFinalize
    <3>1. /\ idx' = idx + 1 /\ at' = "get_id" /\ told' = told /\ refused' = refused
          /\ Len(told) = idx - 1 /\ idx <= Len(argv) /\ idx >= 2 /\ argv # << >> /\ argv[1].kind = "get"
      BY <2>4 DEF GetFinalize, NextArgument, At, viewVars, IInv, GetInv
    <3>2. Len(told) = (idx + 1) - 2 /\ idx + 1 <= Len(argv) + 1 /\ idx + 1 >= 2
      BY <1>0, <3>1
    <3>3. GetInv'
      BY <1>1, <3>1, <3>2 DEF GetInv
    <3> QED
      BY <1>0, <2>1, <3>1, <3>3 DEF Steps
  <2>5. CASE GetPrepare
    <3>1. /\ idx <= Len(argv) /\ Len(told) = idx - 2 /\ idx >= 2 /\ argv # << >> /\ argv[1].kind = "get"
      BY <2>5 DEF GetPrepare, IInv, GetInv
    <3>2. CASE at' = "get_step" /\ idx' = idx /\ told' = told /\ refused' = FALSE
      <4>1. GetInv'
        BY <1>0, <1>1, <3>1, <3>2 DEF GetInv
      <4> QED
        BY <1>0, <2>1, <3>2, <4>1 DEF Steps
    <3>3. CASE at' = "get_id" /\ idx' = idx + 1 /\ told' = Append(told, 0) /\ refused' = TRUE
      <4>1. told' \in Seq(0 .. Len(rows)) /\ Len(told') = Len(told) + 1
        BY <1>0, <3>3
      <4>2. Len(told') = (idx + 1) - 2 /\ idx + 1 <= Len(argv) + 1 /\ idx + 1 >= 2 /\ Len(told') <= Len(argv)
        BY <1>0, <3>1, <4>1
      <4>3. GetInv'
        BY <1>1, <3>1, <3>3, <4>2 DEF GetInv
      <4> QED
        BY <3>3, <4>1, <4>2, <4>3 DEF Steps
    <3> QED
      BY <2>5, <3>2, <3>3 DEF GetPrepare, At
  <2> QED
    BY <2>2, <2>3, <2>4, <2>5
<1> QED
  BY <1>1, <1>2, <1>4, <1>5 DEF IInv, RetrievalTypeOK, ViewRest

(* The same sequence, cut at another place.                                *)
Continues(S, s, t, u, v) == u \in Seq(S) /\ v \in Seq(S) /\ u \o v = s \o t

LEMMA HeadAndTail ==
  ASSUME NEW S, NEW s \in Seq(S), NEW t \in Seq(S), t # << >>,
         NEW u, u = Append(s, Head(t)), NEW v, v = Tail(t)
  PROVE  Continues(S, s, t, u, v)
<1> SUFFICES /\ Append(s, Head(t)) \o Tail(t) = s \o t
             /\ Append(s, Head(t)) \in Seq(S) /\ Tail(t) \in Seq(S)
  BY DEF Continues
<1>1. Append(s, Head(t)) \in Seq(S) /\ Tail(t) \in Seq(S)
  OBVIOUS
<1> DEFINE a == Append(s, Head(t)) \o Tail(t)
           b == s \o t
<1>2. Len(a) = Len(b) /\ a \in Seq(S) /\ b \in Seq(S)
  OBVIOUS
<1>3. ASSUME NEW k \in 1 .. Len(b) PROVE a[k] = b[k]
  <2>1. CASE k <= Len(s)
    BY <2>1
  <2>2. CASE k = Len(s) + 1
    BY <2>2
  <2>3. CASE k > Len(s) + 1
    BY <2>3
  <2> QED
    BY <2>1, <2>2, <2>3
<1> QED
  BY <1>1, <1>2, <1>3, SMTT(40)

LEMMA ExportKeeps ==
  ASSUME IInv, ExportPrepare \/ ExportStep \/ ExportRow \/ ExportFinalize
  PROVE  ViewRest'
<1>0. /\ CliTypeOK /\ rows \in Seq(Row) /\ sorted \in Seq(DOMAIN rows) /\ printed \in Seq(DOMAIN rows)
      /\ at \in {"export_prepare", "export_step", "export_row", "export_finalize"}
  BY DEF IInv, RetrievalTypeOK, DbTypeOK, ExportPrepare, ExportStep, ExportRow, ExportFinalize
<1>1. /\ UNCHANGED <<argv, parsed, idx, told, rows>> /\ argv # << >> /\ argv[1].kind = "export"
      /\ at' \in {"export_step", "export_row", "export_finalize", "done"}
  BY DEF ExportPrepare, ExportStep, ExportRow, ExportFinalize, At, viewVars, dbVars, IInv, GetInv
<1>2. CliTypeOK'
  BY <1>0, <1>1 DEF CliTypeOK, parsed
<1>3. GetInv' /\ GetAnswers'
  <2>1. told = << >>
    BY <1>0 DEF IInv, GetInv
  <2> QED
    BY <1>1, <2>1 DEF GetInv, GetAnswers
<1>4. refused' \in BOOLEAN
  <2>1. refused \in BOOLEAN
    BY DEF IInv, RetrievalTypeOK
  <2>2. refused' = refused \/ refused' = TRUE
    BY DEF ExportPrepare, ExportStep, ExportRow, ExportFinalize, viewVars
  <2> QED
    BY <2>1, <2>2
<1>5. /\ sorted' \in Seq(DOMAIN rows) /\ printed' \in Seq(DOMAIN rows)
      /\ ExportInv' /\ ExportIsWhole'
  <2>1. CASE ExportPrepare
    BY <1>0, <2>1 DEF ExportPrepare, At, IInv, ExportInv, ExportIsWhole
  <2>2. CASE ExportStep
    <3>1. CASE at' = "export_row"
      <4>1. sorted' \in InOrder /\ printed' = printed /\ printed = << >> /\ Viewer \in readers' /\ rows' = rows
        BY <2>2, <3>1 DEF ExportStep, At, ReadsLocked, LockShared, IInv, ExportInv
      <4>2. sorted' \in Seq(DOMAIN rows)
        <5>1. sorted' \in [1 .. Len(rows) -> DOMAIN rows] /\ Len(rows) \in Nat
          BY <1>0, <4>1 DEF InOrder
        <5> QED
          BY <5>1
      <4>3. << >> \o sorted' = sorted'
        BY <4>2
      <4>4. ExportIsWhole'
        BY <4>1, <4>3 DEF ExportIsWhole, InOrder, Precedes
      <4> QED
        BY <1>0, <3>1, <4>1, <4>2, <4>4 DEF ExportInv
    <3>2. CASE at' = "export_finalize"
      BY <1>0, <2>2, <3>2 DEF ExportStep, At, ExportInv, ExportIsWhole
    <3> QED
      BY <2>2, <3>1, <3>2 DEF ExportStep, At
  <2>3. CASE ExportRow
    <3>1. CASE at' = "export_row"
      <4>1. /\ at = "export_row" /\ sorted # << >> /\ UNCHANGED <<rows, readers>>
            /\ printed' = Append(printed, Head(sorted)) /\ sorted' = Tail(sorted)
        BY <2>3, <3>1 DEF ExportRow, At, dbVars
      <4>2. /\ printed' \o sorted' = printed \o sorted
            /\ printed' \in Seq(DOMAIN rows) /\ sorted' \in Seq(DOMAIN rows)
        <5>1. Continues(DOMAIN rows, printed, sorted, printed', sorted')
          BY <1>0, <4>1, HeadAndTail
        <5> QED
          BY <5>1, Zenon DEF Continues
      <4>3. ExportInv' /\ ExportIsWhole'
        <5>1. InOrder' = InOrder
          BY <4>1 DEF InOrder, Precedes
        <5>2. printed \o sorted \in InOrder /\ Viewer \in readers
          BY <4>1 DEF IInv, ExportIsWhole, ExportInv
        <5>3. ExportInv'
          BY <3>1, <4>1, <5>2 DEF ExportInv
        <5> QED
          BY <4>2, <5>1, <5>2, <5>3 DEF ExportIsWhole
      <4> QED
        BY <4>2, <4>3
    <3>2. CASE at' = "export_finalize"
      BY <1>0, <2>3, <3>2 DEF ExportRow, At, ExportInv, ExportIsWhole
    <3> QED
      BY <2>3, <3>1, <3>2 DEF ExportRow, At
  <2>4. CASE ExportFinalize
    BY <1>0, <2>4 DEF ExportFinalize, At, viewVars, ExportInv, ExportIsWhole
  <2> QED
    BY <2>1, <2>2, <2>3, <2>4
<1> QED
  BY <1>1, <1>2, <1>3, <1>4, <1>5 DEF IInv, RetrievalTypeOK, ViewRest, Steps

-----------------------------------------------------------------------------
LEMMA RetrievalInitially == RetrievalInit => IInv
<1> SUFFICES ASSUME RetrievalInit PROVE IInv
  OBVIOUS
<1> USE DEF RetrievalInit, NetInit, CliInit
<1>0. TEST_TIM \in Peripherals /\ TEST_SUCCESS \in Byte /\ 1 \in Byte /\ 0 \in Byte /\ TEST_TIM \in Byte
  BY DEF Peripherals, TEST_TIM, TEST_SUCCESS, Byte
<1>1. rows \in Seq(Row) /\ Len(rows) \in Nat
  <2>1. << >> \in Seq(Row)
    OBVIOUS
  <2> QED
    <3>1. rows \in Seq(Row)
      <4>1. CASE IsCommand(argv)
        BY <4>1, RetrievalAssumption
      <4>2. CASE ~IsCommand(argv)
        BY <2>1, <4>2
      <4> QED
        BY <4>1, <4>2
    <3> QED
      BY <3>1
<1>2. DbTypeOK
  BY <1>1 DEF DbTypeOK
<1>3. PcTypeOK
  <2>1. cmd \in [Procs -> Command]
    <3>1. NoCommand \in Command
      BY DEF NoCommand, Command, Byte
    <3>2. [NoCommand EXCEPT !.want = {TEST_TIM}, !.n = 1] \in Command
      BY <1>0, <3>1 DEF Command
    <3> QED
      BY <3>2
  <2>2. out_msg \in [Procs -> OutMsg]
    BY <1>0, RetrievalAssumption DEF OutMsg
  <2>3. in_msg \in [Procs -> InMsg]
    <3>1. \A q \in Procs : out_msg[q].test_id \in Int
      BY RetrievalAssumption DEF IntMin
    <3> QED
      BY <1>0, <3>1 DEF InMsg
  <2>4. todo \in [Procs -> SUBSET Peripherals] /\ peripheral \in [Procs -> Peripherals \cup {0}]
    BY <1>0
  <2>5. pc \in [Procs -> Labels] /\ shown \in [Procs -> Nat] /\ exit_code \in [Procs -> ExitCodes]
    BY DEF Labels, ExitCodes
  <2> QED
    BY <2>1, <2>2, <2>3, <2>4, <2>5 DEF PcTypeOK
<1>4. TesterType
  <2>1. NetTypeOK
    BY NetAssumption DEF NetTypeOK
  <2> QED
    BY <1>0, <1>2, <1>3, <2>1 DEF TesterType, Testing
<1>5. CliTypeOK
  <2>1. argv \in Seq(Arg) /\ Len(argv) \in Nat
    BY ArgsAssumption
  <2> QED
    <3>1. idx \in 1 .. Len(argv) + 2
      BY <2>1
    <3>2. seen \subseteq Letters /\ used_all \in BOOLEAN /\ used_n \in BOOLEAN
      OBVIOUS
    <3>3. n \in 0 .. 255
      OBVIOUS
    <3>4. msg \in [MsgLetters -> 0 .. Len(argv)]
      BY <2>1
    <3> QED
      BY <2>1, <3>1, <3>2, <3>3, <3>4 DEF CliTypeOK, Counts
<1>6. RetrievalTypeOK
  <2>1. Len(argv) \in Nat /\ Len(told) = 0
    BY ArgsAssumption
  <2> QED
    <3>1. told \in Seq(0 .. Len(rows)) /\ Len(told) <= Len(argv)
      BY <2>1
    <3>2. sorted \in Seq(DOMAIN rows) /\ printed \in Seq(DOMAIN rows)
      OBVIOUS
    <3>3. at \in Steps /\ refused \in BOOLEAN
      BY DEF Steps
    <3> QED
      BY <1>2, <1>3, <1>5, <3>1, <3>2, <3>3 DEF RetrievalTypeOK
<1>7. LockInv
  BY RetrievalAssumption, NoneAssumption DEF LockInv, Others
<1>8. GetInv /\ ExportInv /\ GetAnswers /\ ExportIsWhole
  BY DEF GetInv, ExportInv, GetAnswers, ExportIsWhole
<1> QED
  BY <1>4, <1>6, <1>7, <1>8 DEF IInv

LEMMA RetrievalStep == IInv /\ [RetrievalNext]_retrievalVars => IInv'
<1> SUFFICES ASSUME IInv, [RetrievalNext]_retrievalVars PROVE IInv'
  OBVIOUS
<1>1. CASE View
  <2>1. rows' = rows /\ TesterType' /\ LockInv'
    BY <1>1, ViewFrame
  <2>2. ViewRest'
    BY <1>1, ParseKeeps, BeginKeeps, GetStepKeeps, GetKeeps, ExportKeeps DEF View
  <2> QED
    BY <2>1, <2>2 DEF IInv, ViewRest, RetrievalTypeOK, TesterType
<1>2. CASE Log
  BY <1>2, LogKeeps
<1>3. CASE UNCHANGED retrievalVars
  <2>1. /\ UNCHANGED <<toUut, toPc, dups, rows, readers, writer, pending>>
        /\ UNCHANGED <<pc, cmd, todo, peripheral, out_msg, in_msg, shown, exit_code>>
        /\ UNCHANGED <<argv, at, idx, seen, used_all, used_n, n, msg, told, sorted, printed, refused>>
    BY <1>3 DEF retrievalVars, netVars, dbVars, pcVars, cliVars, parsed, viewVars
  <2>2. TesterType' /\ LockInv'
    BY <2>1 DEF IInv, TesterType, NetTypeOK, DbTypeOK, PcTypeOK, LockInv
  <2>3. RetrievalTypeOK'
    BY <2>1 DEF IInv, RetrievalTypeOK, DbTypeOK, PcTypeOK, CliTypeOK
  <2>4. (argv \in ArgLists)' /\ GetInv' /\ ExportInv'
    BY <2>1 DEF IInv, GetInv, ExportInv
  <2>5. GetAnswers' /\ ExportIsWhole'
    BY <2>1 DEF IInv, GetAnswers, arg, ExportIsWhole, InOrder, Precedes
  <2> QED
    BY <2>2, <2>3, <2>4, <2>5 DEF IInv
<1> QED
  BY <1>1, <1>2, <1>3 DEF RetrievalNext

LEMMA RetrievalInvariant == RetrievalSpec => []IInv
  BY RetrievalInitially, RetrievalStep, PTL DEF RetrievalSpec

(* Every variable of an invocation that looks things up keeps its type,    *)
(* whatever it is called with: idx never runs past the end of argv by more *)
(* than one, and what is told or printed is in the table.                  *)
THEOREM RetrievalTypes == RetrievalSpec => []RetrievalTypeOK
<1>1. IInv => RetrievalTypeOK
  BY DEF IInv
<1> QED
  BY <1>1, RetrievalInvariant, PTL

(* get tells of every identifier the record that was logged under it first *)
(* and of none only where there is none, or where SQLite has refused;      *)
(* others may log between any two of its steps.                            *)
THEOREM AnswersAreTrue == RetrievalSpec => []GetAnswers
<1>1. IInv => GetAnswers
  BY DEF IInv
<1> QED
  BY <1>1, RetrievalInvariant, PTL

(* export prints the table as it is at every moment while it prints: its   *)
(* SHARED lock keeps all others from committing a row.                     *)
THEOREM ExportsOneMoment == RetrievalSpec => []ExportIsWhole
<1>1. IInv => ExportIsWhole
  BY DEF IInv
<1> QED
  BY <1>1, RetrievalInvariant, PTL

-----------------------------------------------------------------------------
(* Parsing.  The rules, option by option: the k-th argument, an option, is *)
(* one that the arguments before it allow.                                 *)
Fits(a, k) ==
  /\ a[k].kind \in {"flags", "all", "n"}
  /\ a[k].kind \in {"all", "n"} => \A i \in Of(a, a[k].kind) : i >= k
  /\ a[k].kind = "n" => k + 1 \in ValueAt(a) /\ a[k + 1].value \cap Counts # {}
  /\ a[k].kind = "flags" =>
       /\ Named(a, k) \subseteq Letters /\ IsInjective(a[k].letters)
       /\ \A j \in Of(a, "flags") \cup Of(a, "all") : j < k => Named(a, k) \cap Named(a, j) = {}
       /\ k + 1 \in MessageAt(a) => Named(a, k) \subseteq MsgLetters

(* What the loop over the options has enforced when it gets to the k-th.   *)
RegularBelow(a, k) == \A i \in OptionAt(a) : i < k => Fits(a, i)

Remembered(a, k) ==
  \A x \in MsgLetters :
    /\ msg[x] \in MessagesOf(a, x) /\ msg[x] < k
    /\ \A i \in MessagesOf(a, x) : i < k => i <= msg[x]

(* What has been understood of the arguments before the k-th.              *)
Understood(a, k) ==
  /\ seen = UNION {Named(a, i) : i \in {j \in Of(a, "flags") \cup Of(a, "all") : j < k}}
  /\ used_all <=> \E i \in Of(a, "all") : i < k
  /\ used_n <=> \E i \in Of(a, "n") : i < k
  /\ ~used_n => n = 1
  /\ \A i \in Of(a, "n") : i < k => n \in a[i + 1].value
  /\ Remembered(a, k)

(* The loop stands where the rules see an option, or at the end.           *)
ParseInv ==
  /\ at = "argv" => /\ idx = 1 /\ seen = {} /\ ~used_all /\ ~used_n
                    /\ n = 1 /\ msg = [x \in MsgLetters |-> 0]
  /\ at = "options" => /\ argv # << >> /\ ~IsCommand(argv)
                       /\ idx \in OptionAt(argv) \cup {Len(argv) + 1}
                       /\ RegularBelow(argv, idx) /\ Understood(argv, idx)
  /\ ParsesByTheRules

-----------------------------------------------------------------------------
LEMMA AtMostOne ==
  ASSUME NEW a \in Seq(Arg), NEW kind
  PROVE  Cardinality(Of(a, kind)) <= 1 <=> \A i, j \in Of(a, kind) : i = j
<1> DEFINE S == Of(a, kind)
<1>1. IsFiniteSet(S) /\ Cardinality(S) \in Nat
  <2>1. IsFiniteSet(1 .. Len(a)) /\ S \subseteq 1 .. Len(a)
    BY FS_Interval DEF Of, OptionAt
  <2> QED
    BY <2>1, FS_Subset, FS_CardinalityType
<1>2. ASSUME Cardinality(S) <= 1, NEW i \in S, NEW j \in S PROVE i = j
  <2>1. Cardinality(S) # 0
    BY <1>1, FS_EmptySet
  <2>2. Cardinality(S) = 1
    BY <1>1, <1>2, <2>1
  <2>3. PICK x : S = {x}
    BY <1>1, <2>2, FS_Singleton
  <2> QED
    BY <2>3
<1>3. ASSUME \A i, j \in S : i = j PROVE Cardinality(S) <= 1
  <2>1. CASE S = {}
    BY <2>1, FS_EmptySet
  <2>2. ASSUME NEW x \in S PROVE Cardinality(S) <= 1
    <3>1. S = {x}
      BY <1>3
    <3>2. Cardinality(S) = 1
      BY <3>1, FS_Singleton
    <3> QED
      BY <3>2
  <2> QED
    BY <2>1, <2>2
<1> QED
  BY <1>2, <1>3

(* An option is a dash with something behind it, or out of place; the      *)
(* kinds of options do not overlap.                                        *)
LEMMA Places ==
  ASSUME NEW a \in Seq(Arg)
  PROVE  /\ Len(a) \in Nat /\ DOMAIN a = 1 .. Len(a)
         /\ \A i \in DOMAIN a : a[i] \in Arg
         /\ \A i : i \in OptionAt(a) <=> i \in DOMAIN a /\ i \notin ValueAt(a) /\ i \notin MessageAt(a)
         /\ \A i, kind : i \in Of(a, kind) <=> i \in OptionAt(a) /\ a[i].kind = kind
  BY DEF OptionAt, Of

LEMMA RegularIsAllFit ==
  ASSUME NEW a \in Seq(Arg)
  PROVE  Regular(a) <=> \A i \in OptionAt(a) : Fits(a, i)
<1>0. Len(a) \in Nat /\ DOMAIN a = 1 .. Len(a)
  OBVIOUS
<1>1. ASSUME NEW kind PROVE Cardinality(Of(a, kind)) <= 1 <=> \A i \in Of(a, kind) : \A j \in Of(a, kind) : j >= i
  <2>1. \A i \in Of(a, kind) : i \in Int
    BY <1>0 DEF Of, OptionAt
  <2>2. Cardinality(Of(a, kind)) <= 1 <=> \A i, j \in Of(a, kind) : i = j
    BY AtMostOne
  <2>3. (\A i, j \in Of(a, kind) : i = j) <=> \A i \in Of(a, kind) : \A j \in Of(a, kind) : j >= i
    BY <2>1
  <2> QED
    BY <2>2, <2>3
<1>2. ASSUME Regular(a), NEW i \in OptionAt(a) PROVE Fits(a, i)
  <2>1. i \in Of(a, "flags") \cup Of(a, "all") \cup Of(a, "n")
    BY <1>2 DEF Regular
  <2>2. i \in Of(a, a[i].kind) /\ a[i].kind \in {"flags", "all", "n"}
    BY <2>1 DEF Of
  <2>3. a[i].kind \in {"all", "n"} => \A j \in Of(a, a[i].kind) : j >= i
    <3>1. CASE a[i].kind = "all"
      BY <1>1, <1>2, <2>2, <3>1 DEF Regular
    <3>2. CASE a[i].kind = "n"
      BY <1>1, <1>2, <2>2, <3>2 DEF Regular
    <3> QED
      BY <3>1, <3>2
  <2>4. a[i].kind = "n" => i + 1 \in ValueAt(a) /\ a[i + 1].value \cap Counts # {}
    BY <1>2, <2>2 DEF Regular
  <2>5. ASSUME a[i].kind = "flags"
        PROVE  /\ Named(a, i) \subseteq Letters /\ IsInjective(a[i].letters)
               /\ \A j \in Of(a, "flags") \cup Of(a, "all") : j < i => Named(a, i) \cap Named(a, j) = {}
               /\ i + 1 \in MessageAt(a) => Named(a, i) \subseteq MsgLetters
    BY <1>2, <2>2, <2>5 DEF Regular
  <2> QED
    BY <2>2, <2>3, <2>4, <2>5 DEF Fits
<1>3. ASSUME \A i \in OptionAt(a) : Fits(a, i) PROVE Regular(a)
  <2>1. OptionAt(a) \subseteq Of(a, "flags") \cup Of(a, "all") \cup Of(a, "n")
    BY <1>3 DEF Fits, Of
  <2>2. \A kind : \A i \in Of(a, kind) : a[i].kind = kind /\ Fits(a, i)
    BY <1>3 DEF Of
  <2>3. Cardinality(Of(a, "all")) <= 1 /\ Cardinality(Of(a, "n")) <= 1
    <3>1. \A i \in Of(a, "all") : \A j \in Of(a, "all") : j >= i
      BY <2>2 DEF Fits
    <3>2. \A i \in Of(a, "n") : \A j \in Of(a, "n") : j >= i
      BY <2>2 DEF Fits
    <3> QED
      BY <1>1, <3>1, <3>2
  <2>4. \A i \in Of(a, "n") : i + 1 \in ValueAt(a) /\ a[i + 1].value \cap Counts # {}
    BY <2>2 DEF Fits
  <2>5. \A i \in Of(a, "flags") :
          /\ Named(a, i) \subseteq Letters /\ IsInjective(a[i].letters)
          /\ \A j \in Of(a, "flags") \cup Of(a, "all") : j < i => Named(a, i) \cap Named(a, j) = {}
          /\ i + 1 \in MessageAt(a) => Named(a, i) \subseteq MsgLetters
    BY <2>2 DEF Fits
  <2> QED
    BY <2>1, <2>3, <2>4, <2>5 DEF Regular
<1> QED
  BY <1>2, <1>3

(* What stands before an option can be judged without what comes after.    *)
LEMMA RegularPrefix ==
  ASSUME NEW a \in Seq(Arg), NEW h \in OptionAt(a)
  PROVE  Regular(SubSeq(a, 1, h - 1)) <=> RegularBelow(a, h)
<1> DEFINE b == SubSeq(a, 1, h - 1)
<1>0. Len(a) \in Nat /\ DOMAIN a = 1 .. Len(a) /\ h \in 1 .. Len(a) /\ h \in DOMAIN a
  BY DEF OptionAt
<1>1. b \in Seq(Arg) /\ DOMAIN b = 1 .. h - 1 /\ \A i \in 1 .. h - 1 : b[i] = a[i]
  BY <1>0
<1>2. h \notin ValueAt(a) /\ h \notin MessageAt(a)
  BY DEF OptionAt
<1> HIDE DEF b
<1>3. \A i \in DOMAIN b : i \in DOMAIN a /\ i < h /\ (i > 1 => i - 1 \in DOMAIN b /\ b[i - 1] = a[i - 1])
  BY <1>0, <1>1
<1>4. \A i : i \in ValueAt(b) <=> i \in ValueAt(a) /\ i < h
  BY <1>0, <1>1, <1>3 DEF ValueAt
<1>5. \A i : i \in MessageAt(b) <=> i \in MessageAt(a) /\ i < h
  <2>1. ASSUME NEW i, i \in MessageAt(b) PROVE i \in MessageAt(a) /\ i < h
    BY <1>1, <1>3, <1>4, <2>1 DEF MessageAt
  <2>2. ASSUME NEW i, i \in MessageAt(a), i < h PROVE i \in MessageAt(b)
    <3>1. i \in DOMAIN b /\ b[i] = a[i] /\ i > 1 /\ b[i - 1] = a[i - 1] /\ i - 1 \notin ValueAt(b)
      BY <1>0, <1>1, <1>3, <1>4, <2>2 DEF MessageAt
    <3> QED
      BY <2>2, <3>1 DEF MessageAt
  <2> QED
    BY <2>1, <2>2
<1>6. \A i : i \in OptionAt(b) <=> i \in OptionAt(a) /\ i < h
  BY <1>0, <1>1, <1>4, <1>5 DEF OptionAt
<1>7. ASSUME NEW i \in OptionAt(b) PROVE Fits(b, i) <=> Fits(a, i)
  <2>1. i \in Int /\ i \in DOMAIN b /\ b[i] = a[i] /\ i < h /\ i \in DOMAIN a
    BY <1>0, <1>1, <1>6 DEF OptionAt
  <2>2. \A kind, j : j \in Of(b, kind) <=> j \in Of(a, kind) /\ j < h
    BY <1>1, <1>6 DEF Of, OptionAt
  <2>3. \A kind, j : j \in Of(a, kind) => j \in Int
    BY <1>0 DEF Of, OptionAt
  <2>4. b[i].kind \in {"all", "n"} =>
          ((\A j \in Of(b, b[i].kind) : j >= i) <=> (\A j \in Of(a, a[i].kind) : j >= i))
    BY <1>0, <2>1, <2>2, <2>3
  <2>5. a[i].kind = "n" => i + 1 < h /\ b[i + 1] = a[i + 1]
    <3>1. a[i].kind = "n" => i + 1 # h
      BY <1>0, <1>2, <2>1 DEF ValueAt
    <3> QED
      BY <1>0, <1>1, <2>1, <3>1
  <2>6. i + 1 \in MessageAt(b) <=> i + 1 \in MessageAt(a)
    <3>1. i + 1 < h \/ i + 1 = h
      BY <1>0, <2>1
    <3> QED
      BY <1>2, <1>5, <3>1
  <2>7. \A j \in DOMAIN b : Named(b, j) = Named(a, j)
    BY <1>1 DEF Named
  <2>8. /\ \A j \in Of(b, "flags") \cup Of(b, "all") : j \in DOMAIN b
        /\ \A j : j < i => (j \in Of(b, "flags") \cup Of(b, "all") <=> j \in Of(a, "flags") \cup Of(a, "all"))
    <3>1. \A j : j < i /\ j \in Of(a, "flags") \cup Of(a, "all") => j < h
      BY <1>0, <2>1, <2>3
    <3> QED
      BY <2>2, <3>1 DEF Of, OptionAt
  <2>9. (\A j \in Of(b, "flags") \cup Of(b, "all") : j < i => Named(b, i) \cap Named(b, j) = {})
          <=> (\A j \in Of(a, "flags") \cup Of(a, "all") : j < i => Named(a, i) \cap Named(a, j) = {})
    BY <2>1, <2>7, <2>8
  <2> QED
    BY <1>4, <2>1, <2>4, <2>5, <2>6, <2>7, <2>9 DEF Fits
<1> QED
  BY <1>1, <1>6, <1>7, RegularIsAllFit DEF RegularBelow, b

(* Where the next option is, or the end.                                   *)
LEMMA NextOption ==
  ASSUME NEW a \in ArgLists, NEW k \in OptionAt(a)
  PROVE  /\ a[k].kind = "n" /\ k + 1 \in DOMAIN a /\ a[k + 1].value # {} =>
              k + 1 \in ValueAt(a) /\ k + 2 \in OptionAt(a) \cup {Len(a) + 1}
         /\ a[k].kind \in {"flags", "all"} /\ k + 1 \in DOMAIN a /\ a[k + 1].kind \notin Dashed =>
              k + 1 \in MessageAt(a) /\ k + 2 \in OptionAt(a) \cup {Len(a) + 1}
         /\ a[k].kind \in {"flags", "all"} /\ ~(k + 1 \in DOMAIN a /\ a[k + 1].kind \notin Dashed) =>
              k + 1 \notin MessageAt(a) /\ k + 1 \in OptionAt(a) \cup {Len(a) + 1}
<1>0. /\ a \in Seq(Arg) /\ Len(a) \in Nat /\ DOMAIN a = 1 .. Len(a)
      /\ \A i \in DOMAIN a : a[i].kind \notin {"flags", "word"} => a[i].value = {}
  BY ArgsAssumption
<1>1. k \in 1 .. Len(a) /\ k \in Int /\ k \notin ValueAt(a) /\ k + 1 > 1 /\ (k + 1) - 1 = k /\ (k + 2) - 1 = k + 1
  BY <1>0 DEF OptionAt
<1>2. \A i : i \in OptionAt(a) <=> i \in DOMAIN a /\ i \notin ValueAt(a) /\ i \notin MessageAt(a)
  BY DEF OptionAt
<1>3. ASSUME a[k].kind = "n", k + 1 \in DOMAIN a, a[k + 1].value # {}
      PROVE  k + 1 \in ValueAt(a) /\ k + 2 \in OptionAt(a) \cup {Len(a) + 1}
  <2>1. k + 1 \in ValueAt(a)
    BY <1>1, <1>3 DEF ValueAt
  <2>2. k + 2 \notin ValueAt(a) /\ k + 2 \notin MessageAt(a)
    BY <1>0, <1>1, <1>3, <2>1 DEF ValueAt, MessageAt
  <2> QED
    BY <1>0, <1>1, <1>2, <1>3, <2>1, <2>2
<1>4. ASSUME a[k].kind \in {"flags", "all"}, k + 1 \in DOMAIN a, a[k + 1].kind \notin Dashed
      PROVE  k + 1 \in MessageAt(a) /\ k + 2 \in OptionAt(a) \cup {Len(a) + 1}
  <2>1. k + 1 \in MessageAt(a)
    BY <1>1, <1>4 DEF MessageAt
  <2>2. k + 2 \notin ValueAt(a) /\ k + 2 \notin MessageAt(a)
    BY <1>0, <1>1, <1>4 DEF ValueAt, MessageAt, Dashed
  <2> QED
    BY <1>0, <1>1, <1>2, <1>4, <2>1, <2>2
<1>5. ASSUME a[k].kind \in {"flags", "all"}, ~(k + 1 \in DOMAIN a /\ a[k + 1].kind \notin Dashed)
      PROVE  k + 1 \notin MessageAt(a) /\ k + 1 \in OptionAt(a) \cup {Len(a) + 1}
  <2>1. k + 1 \notin MessageAt(a)
    BY <1>5 DEF MessageAt
  <2>2. k + 1 \notin ValueAt(a)
    BY <1>1, <1>5 DEF ValueAt
  <2> QED
    BY <1>0, <1>1, <1>2, <2>1, <2>2
<1> QED
  BY <1>3, <1>4, <1>5

(* The loop refuses what does not fit, and nothing after it can mend that: *)
(* not even -h, for what comes before it has to be in order.               *)
LEMMA RefusedByTheRules ==
  ASSUME argv \in ArgLists, idx \in OptionAt(argv), RegularBelow(argv, idx),
         ~Fits(argv, idx), argv[idx].kind # "help"
  PROVE  ~Regular(argv) /\ ~AsksForHelp(argv)
<1>0. argv \in Seq(Arg) /\ idx \in Int /\ OptionAt(argv) \subseteq Int
  BY ArgsAssumption DEF OptionAt
<1>1. ~Regular(argv)
  BY <1>0, RegularIsAllFit
<1>2. ASSUME NEW h \in Of(argv, "help"), Regular(SubSeq(argv, 1, h - 1)) PROVE FALSE
  <2>1. h \in OptionAt(argv) /\ argv[h].kind = "help" /\ h \in Int
    BY <1>0 DEF Of
  <2>2. RegularBelow(argv, h)
    BY <1>0, <1>2, <2>1, RegularPrefix
  <2>3. ~Fits(argv, h)
    BY <2>1 DEF Fits
  <2>4. ~(h < idx) /\ ~(idx < h) /\ h # idx
    BY <2>1, <2>2, <2>3 DEF RegularBelow
  <2> QED
    BY <1>0, <2>1, <2>4
<1> QED
  BY <1>1, <1>2 DEF AsksForHelp

LEMMA HelpByTheRules ==
  ASSUME argv \in ArgLists, idx \in OptionAt(argv), RegularBelow(argv, idx), argv[idx].kind = "help"
  PROVE  AsksForHelp(argv)
<1>0. argv \in Seq(Arg) /\ idx \in Int /\ OptionAt(argv) \subseteq Int
  BY ArgsAssumption DEF OptionAt
<1>1. idx \in Of(argv, "help") /\ Regular(SubSeq(argv, 1, idx - 1))
  BY <1>0, RegularPrefix DEF Of
<1>2. ASSUME NEW i \in Of(argv, "help") PROVE idx <= i
  <2>1. i \in OptionAt(argv) /\ ~Fits(argv, i) /\ i \in Int
    BY <1>0 DEF Of, Fits
  <2> QED
    BY <1>0, <2>1 DEF RegularBelow
<1> QED
  BY <1>1, <1>2 DEF AsksForHelp

(* At the end of the list everything has been understood.                  *)
LEMMA EndByTheRules ==
  ASSUME argv \in ArgLists, idx = Len(argv) + 1, RegularBelow(argv, idx), Understood(argv, idx)
  PROVE  /\ Regular(argv) /\ ~AsksForHelp(argv) /\ seen = Wanted(argv)
         /\ \A x \in MsgLetters : msg[x] = Largest(MessagesOf(argv, x))
         /\ {n} = IF Of(argv, "n") = {} THEN {1} ELSE UNION {argv[i + 1].value : i \in Of(argv, "n")}
<1>0. argv \in Seq(Arg) /\ Len(argv) \in Nat /\ DOMAIN argv = 1 .. Len(argv) /\ OptionAt(argv) \subseteq DOMAIN argv
  BY ArgsAssumption DEF OptionAt
<1>1. \A i \in DOMAIN argv : i \in Int /\ i < idx
  BY <1>0
<1>2. \A i \in OptionAt(argv) : Fits(argv, i)
  BY <1>0, <1>1 DEF RegularBelow
<1>3. Regular(argv)
  BY <1>0, <1>2, RegularIsAllFit
<1>4. ~AsksForHelp(argv)
  <2>1. Of(argv, "help") = {}
    BY <1>2 DEF Of, Fits
  <2> QED
    BY <2>1 DEF AsksForHelp
<1>5. seen = Wanted(argv)
  <2>1. {j \in Of(argv, "flags") \cup Of(argv, "all") : j < idx} = Of(argv, "flags") \cup Of(argv, "all")
    BY <1>0, <1>1 DEF Of
  <2> QED
    BY <2>1 DEF Understood, Wanted
<1>6. ASSUME NEW x \in MsgLetters PROVE msg[x] = Largest(MessagesOf(argv, x))
  <2> DEFINE S == MessagesOf(argv, x)
  <2>1. S \subseteq Int /\ \A i \in S : i < idx
    <3>1. \A i \in S : i = 0 \/ i \in DOMAIN argv
      BY DEF MessagesOf, MessageAt
    <3>2. 0 \in Int /\ 0 < idx
      BY <1>0
    <3> QED
      BY <1>1, <3>1, <3>2
  <2>2. msg[x] \in S /\ \A i \in S : i <= msg[x]
    BY <2>1 DEF Understood, Remembered
  <2> HIDE DEF S
  <2>3. ASSUME NEW i \in S, \A j \in S : j <= i PROVE i = msg[x]
    <3>1. i <= msg[x] /\ msg[x] <= i /\ i \in Int /\ msg[x] \in Int
      BY <2>1, <2>2, <2>3
    <3> QED
      BY <3>1
  <2>4. Largest(S) \in S /\ \A j \in S : j <= Largest(S)
    <3> DEFINE P(i) == i \in S /\ \A j \in S : j <= i
    <3>1. Largest(S) = CHOOSE i : P(i)
      BY DEF Largest
    <3>2. \E i : P(i)
      BY <2>2
    <3> HIDE DEF P
    <3>3. P(CHOOSE i : P(i))
      BY <3>2, Zenon
    <3>4. P(Largest(S))
      BY <3>1, <3>3
    <3> QED
      BY <3>4 DEF P
  <2>5. msg[x] = Largest(S)
    BY <2>3, <2>4
  <2> QED
    BY <2>5 DEF S
<1>7. {n} = IF Of(argv, "n") = {} THEN {1} ELSE UNION {argv[i + 1].value : i \in Of(argv, "n")}
  <2>1. CASE Of(argv, "n") = {}
    BY <2>1 DEF Understood
  <2>2. ASSUME NEW k \in Of(argv, "n") PROVE UNION {argv[i + 1].value : i \in Of(argv, "n")} = {n}
    <3>1. \A i \in Of(argv, "n") : i \in OptionAt(argv) /\ argv[i].kind = "n" /\ i \in Int
      BY <1>0 DEF Of
    <3>2. \A i \in Of(argv, "n") : i = k
      <4>1. ASSUME NEW i \in Of(argv, "n"), NEW j \in Of(argv, "n") PROVE j >= i
        BY <1>2, <3>1 DEF Fits
      <4> QED
        BY <3>1, <4>1
    <3>3. k + 1 \in DOMAIN argv /\ n \in argv[k + 1].value
      <4>1. k \in OptionAt(argv) /\ argv[k].kind = "n" /\ k < idx
        BY <1>0, <1>1, <3>1
      <4>2. k + 1 \in DOMAIN argv
        <5>1. k + 1 \in ValueAt(argv)
          BY <1>2, <4>1 DEF Fits
        <5> QED
          BY <5>1 DEF ValueAt
      <4>3. n \in argv[k + 1].value
        BY <4>1 DEF Understood
      <4> QED
        BY <4>2, <4>3
    <3>4. argv[k + 1].value = {n}
      BY <3>3, ArgsAssumption
    <3> DEFINE V(i) == argv[i + 1].value
    <3>5. \A i \in Of(argv, "n") : V(i) = {n}
      BY <3>2, <3>4
    <3> HIDE DEF V
    <3>6. \A y : y \in UNION {V(i) : i \in Of(argv, "n")} <=> y = n
      <4>1. \A y : y \in UNION {V(i) : i \in Of(argv, "n")} <=> \E i \in Of(argv, "n") : y \in V(i)
        OBVIOUS
      <4> QED
        BY <3>5, <4>1
    <3>7. UNION {V(i) : i \in Of(argv, "n")} = {n}
      BY <3>6
    <3> QED
      BY <3>7 DEF V
  <2>3. CASE Of(argv, "n") # {}
    BY <2>2, <2>3
  <2> QED
    BY <2>1, <2>3
<1> QED
  BY <1>3, <1>4, <1>5, <1>6, <1>7

(* One option further.                                                     *)
LEMMA BelowNext ==
  ASSUME NEW a \in Seq(Arg), NEW k \in OptionAt(a), NEW m,
         m = k + 1 \/ (m = k + 2 /\ k + 1 \notin OptionAt(a))
  PROVE  /\ \A i \in OptionAt(a) : i < m <=> i < k \/ i = k
         /\ RegularBelow(a, k) /\ Fits(a, k) => RegularBelow(a, m)
<1>0. k \in Int /\ OptionAt(a) \subseteq Int
  BY DEF OptionAt
<1>1. \A i \in OptionAt(a) : i < m <=> i < k \/ i = k
  BY <1>0
<1> QED
  BY <1>1 DEF RegularBelow

(* The message that follows an option is the last that its letters got.    *)
LEMMA MessagesNext ==
  ASSUME argv \in ArgLists, idx \in OptionAt(argv), argv[idx].kind \in {"flags", "all"},
         argv' = argv, msg \in [MsgLetters -> 0 .. Len(argv)], Remembered(argv, idx),
         ShareMessage(Named(argv, idx))
  PROVE  /\ idx' \in OptionAt(argv) \cup {Len(argv) + 1}
         /\ idx' = idx + 1 \/ (idx' = idx + 2 /\ idx + 1 \notin OptionAt(argv))
         /\ Remembered(argv, idx)'
<1>0. argv \in Seq(Arg) /\ Len(argv) \in Nat /\ DOMAIN argv = 1 .. Len(argv)
  BY ArgsAssumption
<1>1. idx \in 1 .. Len(argv) /\ idx \notin MessageAt(argv)
  BY <1>0 DEF OptionAt
<1>2. MessageFollows <=> idx + 1 \in DOMAIN argv /\ argv[idx + 1].kind \notin Dashed
  BY <1>0, <1>1 DEF MessageFollows
<1>3. \A x \in MsgLetters : \A i \in MessagesOf(argv, x) : i \in Int /\ i # idx
  BY <1>0, <1>1 DEF MessagesOf, MessageAt
<1>4. CASE MessageFollows
  <2>1. idx + 1 \in MessageAt(argv) /\ idx + 2 \in OptionAt(argv) \cup {Len(argv) + 1}
    BY <1>2, <1>4, NextOption
  <2>2. idx' = idx + 2 /\ msg' = [x \in MsgLetters |-> IF x \in Named(argv, idx) THEN idx + 1 ELSE msg[x]]
    BY <1>4 DEF ShareMessage
  <2>3. ASSUME NEW x \in MsgLetters
        PROVE  /\ msg'[x] \in MessagesOf(argv, x) /\ msg'[x] < idx + 2
               /\ \A i \in MessagesOf(argv, x) : i < idx + 2 => i <= msg'[x]
    <3>1. CASE x \in Named(argv, idx)
      <4>1. msg'[x] = idx + 1
        BY <2>2, <3>1
      <4>2. idx + 1 \in MessagesOf(argv, x)
        <5>1. (idx + 1) - 1 = idx
          BY <1>1
        <5> QED
          BY <2>1, <3>1, <5>1 DEF MessagesOf
      <4> QED
        BY <1>1, <1>3, <4>1, <4>2
    <3>2. CASE x \notin Named(argv, idx)
      <4>1. msg'[x] = msg[x] /\ msg[x] \in Int
        BY <2>2, <3>2
      <4>2. idx + 1 \notin MessagesOf(argv, x)
        <5>1. (idx + 1) - 1 = idx /\ idx + 1 # 0
          BY <1>1
        <5> QED
          BY <3>2, <5>1 DEF MessagesOf
      <4>3. ASSUME NEW i \in MessagesOf(argv, x), i < idx + 2 PROVE i < idx
        BY <1>1, <1>3, <4>2, <4>3
      <4>4. msg[x] \in MessagesOf(argv, x) /\ msg[x] < idx
        BY DEF Remembered
      <4>5. \A i \in MessagesOf(argv, x) : i < idx => i <= msg[x]
        BY DEF Remembered
      <4> QED
        BY <1>1, <4>1, <4>3, <4>4, <4>5
    <3> QED
      BY <3>1, <3>2
  <2>4. Remembered(argv, idx)'
    BY <2>2, <2>3 DEF Remembered
  <2> QED
    BY <2>1, <2>2, <2>4 DEF OptionAt
<1>5. CASE ~MessageFollows
  <2>1. idx + 1 \in OptionAt(argv) \cup {Len(argv) + 1}
    BY <1>2, <1>5, NextOption
  <2>2. idx' = idx + 1 /\ msg' = msg
    BY <1>5 DEF ShareMessage
  <2>3. ASSUME NEW x \in MsgLetters
        PROVE  /\ msg'[x] \in MessagesOf(argv, x) /\ msg'[x] < idx + 1
               /\ \A i \in MessagesOf(argv, x) : i < idx + 1 => i <= msg'[x]
    <3>1. msg'[x] = msg[x] /\ msg[x] \in Int
      BY <2>2
    <3>2. ASSUME NEW i \in MessagesOf(argv, x), i < idx + 1 PROVE i < idx
      BY <1>1, <1>3, <3>2
    <3>3. msg[x] \in MessagesOf(argv, x) /\ msg[x] < idx
      BY DEF Remembered
    <3>4. \A i \in MessagesOf(argv, x) : i < idx => i <= msg[x]
      BY DEF Remembered
    <3> QED
      BY <1>1, <3>1, <3>2, <3>3, <3>4
  <2>4. Remembered(argv, idx)'
    BY <2>2, <2>3 DEF Remembered
  <2> QED
    BY <2>1, <2>2, <2>4
<1> QED
  BY <1>4, <1>5

(* What a step of the loop that takes an option keeps.                     *)
LEMMA AllKeeps ==
  ASSUME argv \in ArgLists, CliTypeOK, idx \in OptionAt(argv), RegularBelow(argv, idx),
         Understood(argv, idx), All, ~used_all
  PROVE  /\ at' = "options" /\ argv' = argv /\ idx' \in OptionAt(argv) \cup {Len(argv) + 1}
         /\ RegularBelow(argv, idx') /\ Understood(argv, idx)'
<1>0. argv \in Seq(Arg) /\ OptionAt(argv) \subseteq Int /\ idx \in Int
  BY ArgsAssumption DEF OptionAt
<1>1. /\ argv[idx].kind = "all" /\ used_all' = TRUE /\ seen' = Letters /\ ShareMessage(Letters)
      /\ UNCHANGED <<argv, at, used_n, n>> /\ at = "options"
  BY DEF All, Refuse, arg
<1>2. Named(argv, idx) = Letters /\ idx \in Of(argv, "all")
  BY <1>1 DEF Named, Of
<1>3. Remembered(argv, idx)'
      /\ idx' \in OptionAt(argv) \cup {Len(argv) + 1}
      /\ (idx' = idx + 1 \/ (idx' = idx + 2 /\ idx + 1 \notin OptionAt(argv)))
  BY <1>1, <1>2, MessagesNext DEF Understood, CliTypeOK
<1>4. Fits(argv, idx)
  BY <1>0, <1>1 DEF Fits, Understood, Of
<1>5. RegularBelow(argv, idx') /\ \A i \in OptionAt(argv) : i < idx' <=> i < idx \/ i = idx
  BY <1>0, <1>3, <1>4, BelowNext
<1>6. \A kind : \A i \in Of(argv, kind) : i < idx' <=> i < idx \/ i = idx
  BY <1>5 DEF Of
<1>7. \A i \in Of(argv, "n") : i # idx
  BY <1>1 DEF Of
<1>8. seen' = UNION {Named(argv, i) : i \in {j \in Of(argv, "flags") \cup Of(argv, "all") : j < idx'}}
  <2> DEFINE T == {j \in Of(argv, "flags") \cup Of(argv, "all") : j < idx'}
  <2>1. \A i \in T : Named(argv, i) \subseteq Letters
    BY <1>5 DEF RegularBelow, Fits, Named, Of
  <2>2. idx \in T
    BY <1>2, <1>6
  <2> HIDE DEF T
  <2>3. UNION {Named(argv, i) : i \in T} = Letters
    BY <1>2, <2>1, <2>2
  <2> QED
    BY <1>1, <2>3 DEF T
<1>9. Understood(argv, idx)'
  <2>1. used_all' <=> \E i \in Of(argv, "all") : i < idx'
    BY <1>1, <1>2, <1>6
  <2>2. used_n' <=> \E i \in Of(argv, "n") : i < idx'
    BY <1>1, <1>6, <1>7 DEF Understood
  <2>3. /\ ~used_n' => n' = 1
        /\ \A i \in Of(argv, "n") : i < idx' => n' \in argv[i + 1].value
    BY <1>1, <1>6, <1>7 DEF Understood
  <2> QED
    BY <1>1, <1>3, <1>8, <2>1, <2>2, <2>3 DEF Understood
<1> QED
  BY <1>1, <1>3, <1>5, <1>9

LEMMA IterationsKeeps ==
  ASSUME argv \in ArgLists, CliTypeOK, idx \in OptionAt(argv), RegularBelow(argv, idx),
         Understood(argv, idx), Iterations, ~Refuse
  PROVE  /\ at' = "options" /\ argv' = argv /\ idx' \in OptionAt(argv) \cup {Len(argv) + 1}
         /\ RegularBelow(argv, idx') /\ Understood(argv, idx)'
<1>0. argv \in Seq(Arg) /\ OptionAt(argv) \subseteq Int /\ idx \in 1 .. Len(argv) /\ Len(argv) \in Nat
  BY ArgsAssumption DEF OptionAt
<1>1. /\ argv[idx].kind = "n" /\ ~used_n /\ idx + 1 <= Len(argv) /\ used_n' = TRUE /\ idx' = idx + 2
      /\ n' \in argv[idx + 1].value /\ n' \in Counts
      /\ UNCHANGED <<argv, at, seen, used_all, msg>> /\ at = "options"
  BY <1>0 DEF Iterations, IterationCount, arg
<1>2. idx \in Of(argv, "n") /\ idx + 1 \in DOMAIN argv /\ argv[idx + 1].value \cap Counts # {}
  BY <1>0, <1>1 DEF Of
<1>3. idx + 1 \in ValueAt(argv) /\ idx' \in OptionAt(argv) \cup {Len(argv) + 1} /\ idx + 1 \notin OptionAt(argv)
  BY <1>1, <1>2, NextOption DEF OptionAt
<1>4. Fits(argv, idx)
  BY <1>0, <1>1, <1>2, <1>3 DEF Fits, Understood, Of
<1>5. RegularBelow(argv, idx') /\ \A i \in OptionAt(argv) : i < idx' <=> i < idx \/ i = idx
  BY <1>0, <1>1, <1>3, <1>4, BelowNext
<1>6. \A kind : \A i \in Of(argv, kind) : i < idx' <=> i < idx \/ i = idx
  BY <1>5 DEF Of
<1>7. \A i \in Of(argv, "flags") \cup Of(argv, "all") : i # idx
  BY <1>1 DEF Of
<1>8. {j \in Of(argv, "flags") \cup Of(argv, "all") : j < idx'}
        = {j \in Of(argv, "flags") \cup Of(argv, "all") : j < idx}
  BY <1>6, <1>7
<1>9. Remembered(argv, idx)'
  <2>1. ASSUME NEW x \in MsgLetters, NEW i \in MessagesOf(argv, x), i < idx' PROVE i < idx
    <3>1. i \in Int /\ i # idx /\ i # idx + 1
      BY <1>0, <1>3 DEF MessagesOf, MessageAt, OptionAt, ValueAt
    <3> QED
      BY <1>0, <1>1, <2>1, <3>1
  <2>2. \A x \in MsgLetters : msg[x] \in MessagesOf(argv, x) /\ msg[x] < idx /\ msg[x] \in Int
    BY DEF Understood, Remembered, CliTypeOK
  <2>3. \A x \in MsgLetters : msg[x] < idx'
    BY <1>0, <1>1, <2>2
  <2> QED
    BY <1>1, <2>1, <2>2, <2>3 DEF Understood, Remembered
<1>10. Understood(argv, idx)'
  <2>1. used_all' <=> \E i \in Of(argv, "all") : i < idx'
    BY <1>1, <1>6, <1>7 DEF Understood
  <2>2. used_n' /\ \E i \in Of(argv, "n") : i < idx'
    BY <1>1, <1>2, <1>6
  <2>3. \A i \in Of(argv, "n") : i < idx' => n' \in argv[i + 1].value
    BY <1>1, <1>6 DEF Understood
  <2>4. seen' = UNION {Named(argv, i) : i \in {j \in Of(argv, "flags") \cup Of(argv, "all") : j < idx'}}
    BY <1>1, <1>8 DEF Understood
  <2> QED
    BY <1>1, <1>9, <2>1, <2>2, <2>3, <2>4 DEF Understood
<1> QED
  BY <1>1, <1>3, <1>5, <1>10

LEMMA FlagsKeeps ==
  ASSUME argv \in ArgLists, CliTypeOK, idx \in OptionAt(argv), RegularBelow(argv, idx),
         Understood(argv, idx), Flags, ~Refuse
  PROVE  /\ at' = "options" /\ argv' = argv /\ idx' \in OptionAt(argv) \cup {Len(argv) + 1}
         /\ RegularBelow(argv, idx') /\ Understood(argv, idx)'
<1>0. argv \in Seq(Arg) /\ OptionAt(argv) \subseteq Int /\ idx \in 1 .. Len(argv) /\ Len(argv) \in Nat
  BY ArgsAssumption DEF OptionAt
<1>1. /\ argv[idx].kind = "flags" /\ StackOk
      /\ seen' = seen \cup Range(argv[idx].letters) /\ ShareMessage(Range(argv[idx].letters))
      /\ MessageFollows => Range(argv[idx].letters) \subseteq MsgLetters
      /\ UNCHANGED <<argv, at, used_all, used_n, n>> /\ at = "options"
  BY DEF Flags, arg
<1>2. Named(argv, idx) = Range(argv[idx].letters) /\ idx \in Of(argv, "flags")
  BY <1>1 DEF Named, Of
<1>3. Remembered(argv, idx)'
      /\ idx' \in OptionAt(argv) \cup {Len(argv) + 1}
      /\ (idx' = idx + 1 \/ (idx' = idx + 2 /\ idx + 1 \notin OptionAt(argv)))
  BY <1>1, <1>2, MessagesNext DEF Understood, CliTypeOK
<1>4. Fits(argv, idx)
  <2>1. Named(argv, idx) \subseteq Letters /\ IsInjective(argv[idx].letters)
    BY <1>1, <1>2 DEF StackOk, arg
  <2>2. ASSUME NEW j \in Of(argv, "flags") \cup Of(argv, "all"), j < idx
        PROVE  Named(argv, idx) \cap Named(argv, j) = {}
    <3>1. Named(argv, j) \subseteq seen
      BY <2>2 DEF Understood
    <3>2. Named(argv, idx) \cap seen = {}
      BY <1>1, <1>2 DEF StackOk, arg
    <3> QED
      BY <3>1, <3>2
  <2>3. idx + 1 \in MessageAt(argv) => MessageFollows
    BY <1>0 DEF MessageAt, MessageFollows
  <2> QED
    BY <1>1, <1>2, <2>1, <2>2, <2>3 DEF Fits
<1>5. RegularBelow(argv, idx') /\ \A i \in OptionAt(argv) : i < idx' <=> i < idx \/ i = idx
  BY <1>0, <1>3, <1>4, BelowNext
<1>6. \A kind : \A i \in Of(argv, kind) : i < idx' <=> i < idx \/ i = idx
  BY <1>5 DEF Of
<1>7. \A i \in Of(argv, "n") \cup Of(argv, "all") : i # idx
  BY <1>1 DEF Of
<1>8. seen' = UNION {Named(argv, i) : i \in {j \in Of(argv, "flags") \cup Of(argv, "all") : j < idx'}}
  <2> DEFINE T == {j \in Of(argv, "flags") \cup Of(argv, "all") : j < idx}
             U == {j \in Of(argv, "flags") \cup Of(argv, "all") : j < idx'}
  <2>1. U = T \cup {idx}
    BY <1>2, <1>6
  <2>2. seen = UNION {Named(argv, i) : i \in T}
    BY DEF Understood
  <2> HIDE DEF T, U
  <2>3. seen' = UNION {Named(argv, i) : i \in U}
    <3>1. \A y : y \in UNION {Named(argv, i) : i \in U} <=> \E i \in U : y \in Named(argv, i)
      OBVIOUS
    <3>2. \A y : y \in seen <=> \E i \in T : y \in Named(argv, i)
      BY <2>2
    <3>3. seen' = seen \cup Named(argv, idx)
      BY <1>1, <1>2
    <3>4. \A y : y \in seen' <=> y \in UNION {Named(argv, i) : i \in U}
      BY <2>1, <3>1, <3>2, <3>3
    <3> QED
      BY <3>4
  <2> QED
    BY <2>3 DEF U
<1>9. Understood(argv, idx)'
  <2>1. used_all' <=> \E i \in Of(argv, "all") : i < idx'
    BY <1>1, <1>6, <1>7 DEF Understood
  <2>2. used_n' <=> \E i \in Of(argv, "n") : i < idx'
    BY <1>1, <1>6, <1>7 DEF Understood
  <2>3. /\ ~used_n' => n' = 1
        /\ \A i \in Of(argv, "n") : i < idx' => n' \in argv[i + 1].value
    BY <1>1, <1>6, <1>7 DEF Understood
  <2> QED
    BY <1>1, <1>3, <1>8, <2>1, <2>2, <2>3 DEF Understood
<1> QED
  BY <1>1, <1>3, <1>5, <1>9

(* One step of the parser.                                                 *)
LEMMA ParseFirst ==
  ASSUME argv \in ArgLists, ParseInv, NoArguments \/ FirstArgument
  PROVE  ParseInv'
<1>0. argv \in Seq(Arg) /\ Len(argv) \in Nat /\ argv' = argv
  BY ArgsAssumption DEF NoArguments, FirstArgument, Refuse
<1>1. CASE NoArguments
  <2>1. argv = << >> /\ at' = "refused"
    BY <1>1 DEF NoArguments, Refuse
  <2>2. OptionAt(argv) = {}
    BY <2>1 DEF OptionAt
  <2>3. Wanted(argv) = {} /\ ~AsksForHelp(argv)
    BY <2>2 DEF Wanted, AsksForHelp, Of
  <2> QED
    BY <1>0, <2>1, <2>3 DEF ParseInv, ParsesByTheRules
<1>2. CASE FirstArgument
  <2>1. /\ argv # << >> /\ idx = 1 /\ UNCHANGED <<idx, seen, used_all, used_n, n, msg>> /\ at' # "argv"
        /\ at' = "options" => ~IsCommand(argv)
        /\ at' \notin {"help", "refused", "tests"}
    BY <1>2 DEF FirstArgument, ParseInv, IsCommand, parsed
  <2>2. 1 \in OptionAt(argv)
    BY <1>0, <2>1 DEF OptionAt, ValueAt, MessageAt
  <2>3. \A i \in OptionAt(argv) : ~(i < 1)
    BY <1>0 DEF OptionAt
  <2>4. RegularBelow(argv, 1)
    BY <2>3 DEF RegularBelow
  <2>5. at = "argv"
    BY <1>2 DEF FirstArgument
  <2>6. Understood(argv, idx)'
    <3>1. \A kind : \A i \in Of(argv, kind) : ~(i < 1)
      BY <2>3 DEF Of
    <3>2. {j \in Of(argv, "flags") \cup Of(argv, "all") : j < 1} = {}
      BY <3>1
    <3>3. Remembered(argv, 1)'
      <4>1. \A x \in MsgLetters : msg'[x] = 0
        BY <2>1, <2>5 DEF ParseInv
      <4>2. \A x \in MsgLetters : 0 \in MessagesOf(argv, x)
        BY DEF MessagesOf
      <4>3. \A x \in MsgLetters : \A i \in MessagesOf(argv, x) : i < 1 => i <= 0
        BY <1>0 DEF MessagesOf, MessageAt
      <4> QED
        BY <1>0, <4>1, <4>2, <4>3 DEF Remembered
    <3>4. seen = {} /\ ~used_all /\ ~used_n /\ n = 1
      BY <2>5 DEF ParseInv
    <3>5. Remembered(argv, idx)'
      BY <2>1, <3>3 DEF Remembered
    <3> QED
      BY <1>0, <2>1, <3>1, <3>2, <3>4, <3>5 DEF Understood
  <2> QED
    BY <1>0, <2>1, <2>2, <2>4, <2>6 DEF ParseInv, ParsesByTheRules
<1> QED
  BY <1>1, <1>2

LEMMA ParseLoop ==
  ASSUME argv \in ArgLists, CliTypeOK, ParseInv, at = "options", ParseStep
  PROVE  ParseInv'
<1>0. argv \in Seq(Arg) /\ Len(argv) \in Nat /\ DOMAIN argv = 1 .. Len(argv) /\ idx \in Int
  BY ArgsAssumption DEF CliTypeOK
<1>1. argv # << >> /\ ~IsCommand(argv) /\ RegularBelow(argv, idx) /\ Understood(argv, idx)
      /\ idx \in OptionAt(argv) \cup {Len(argv) + 1}
  BY DEF ParseInv
<1>2. idx <= Len(argv) => idx \in OptionAt(argv)
  BY <1>0, <1>1
<1>3. ASSUME at' = "options", argv' = argv, idx' \in OptionAt(argv) \cup {Len(argv) + 1},
             RegularBelow(argv, idx'), Understood(argv, idx)'
      PROVE  ParseInv'
  <2>1. (RegularBelow(argv, idx))'
    BY <1>3
  <2> QED
    BY <1>1, <1>3, <2>1 DEF ParseInv, ParsesByTheRules
<1>4. ASSUME Refuse, ~AsksForHelp(argv), Regular(argv) => Wanted(argv) = {} PROVE ParseInv'
  BY <1>4 DEF Refuse, ParseInv, ParsesByTheRules
<1>5. ASSUME Refuse, idx \in OptionAt(argv), ~Fits(argv, idx), argv[idx].kind # "help" PROVE ParseInv'
  BY <1>1, <1>4, <1>5, RefusedByTheRules
<1>6. CASE NoArguments \/ FirstArgument
  BY <1>6 DEF NoArguments, FirstArgument
<1>7. CASE Help
  <2>1. at' = "help" /\ argv' = argv /\ AsksForHelp(argv)
    BY <1>1, <1>2, <1>7, HelpByTheRules DEF Help, arg
  <2> QED
    BY <2>1 DEF ParseInv, ParsesByTheRules
<1>8. CASE All
  <2>1. CASE used_all /\ Refuse
    <3>1. PICK i \in Of(argv, "all") : i < idx
      BY <1>1, <2>1 DEF Understood
    <3>2. argv[idx].kind = "all" /\ idx \in OptionAt(argv) /\ i \in Int
      BY <1>0, <1>2, <1>8 DEF All, arg, Of, OptionAt
    <3>3. ~Fits(argv, idx)
      BY <1>0, <3>1, <3>2 DEF Fits
    <3> QED
      BY <1>5, <2>1, <3>2, <3>3
  <2>2. CASE ~used_all
    BY <1>1, <1>2, <1>3, <1>8, <2>2, AllKeeps DEF All
  <2> QED
    BY <1>8, <2>1, <2>2 DEF All
<1>9. CASE Iterations
  <2>1. CASE Refuse
    <3>1. argv[idx].kind = "n" /\ idx \in OptionAt(argv)
      BY <1>2, <1>9 DEF Iterations, arg
    <3>2. at' = "refused"
      BY <2>1 DEF Refuse
    <3>3. used_n \/ idx + 1 > Len(argv) \/ argv[idx + 1].value \cap Counts = {}
      BY <1>9, <3>2 DEF Iterations, IterationCount
    <3>4. CASE used_n
      <4>1. PICK i \in Of(argv, "n") : i < idx
        BY <1>1, <3>4 DEF Understood
      <4>2. i \in Int
        BY <1>0 DEF Of, OptionAt
      <4> QED
        BY <1>0, <1>5, <2>1, <3>1, <4>1, <4>2 DEF Fits
    <3>5. CASE idx + 1 > Len(argv)
      <4>1. idx + 1 \notin ValueAt(argv)
        BY <1>0, <3>5 DEF ValueAt
      <4> QED
        BY <1>5, <2>1, <3>1, <4>1 DEF Fits
    <3>6. CASE argv[idx + 1].value \cap Counts = {}
      BY <1>5, <2>1, <3>1, <3>6 DEF Fits
    <3> QED
      BY <3>3, <3>4, <3>5, <3>6
  <2>2. CASE ~Refuse
    BY <1>1, <1>2, <1>3, <1>9, <2>2, IterationsKeeps DEF Iterations
  <2> QED
    BY <2>1, <2>2
<1>10. CASE Flags
  <2>1. CASE Refuse
    <3>1. argv[idx].kind = "flags" /\ idx \in OptionAt(argv) /\ Named(argv, idx) = Range(argv[idx].letters)
      BY <1>2, <1>10 DEF Flags, arg, Named
    <3>2. at' = "refused"
      BY <2>1 DEF Refuse
    <3>3. ~StackOk \/ (MessageFollows /\ ~(Named(argv, idx) \subseteq MsgLetters))
      BY <1>10, <3>1, <3>2 DEF Flags, arg
    <3>4. CASE ~StackOk
      <4>1. ASSUME Fits(argv, idx) PROVE FALSE
        <5>1. Named(argv, idx) \cap seen # {}
          BY <3>1, <3>4, <4>1 DEF Fits, StackOk, arg
        <5>2. PICK y \in seen : y \in Named(argv, idx)
          BY <5>1
        <5>3. PICK j \in Of(argv, "flags") \cup Of(argv, "all") : j < idx /\ y \in Named(argv, j)
          BY <1>1 DEF Understood
        <5> QED
          BY <3>1, <4>1, <5>2, <5>3 DEF Fits
      <4> QED
        BY <1>5, <2>1, <3>1, <4>1
    <3>5. CASE MessageFollows /\ ~(Named(argv, idx) \subseteq MsgLetters)
      <4>1. idx + 1 \in MessageAt(argv)
        <5>1. idx + 1 \in DOMAIN argv /\ argv[idx + 1].kind \notin Dashed
          BY <1>0, <1>2, <3>1, <3>5 DEF MessageFollows, OptionAt
        <5> QED
          BY <3>1, <5>1, NextOption
      <4> QED
        BY <1>5, <2>1, <3>1, <3>5, <4>1 DEF Fits
    <3> QED
      BY <3>3, <3>4, <3>5
  <2>2. CASE ~Refuse
    BY <1>1, <1>2, <1>3, <1>10, <2>2, FlagsKeeps DEF Flags
  <2> QED
    BY <2>1, <2>2
<1>11. CASE UnexpectedToken
  <2>1. Refuse /\ idx \in OptionAt(argv) /\ argv[idx].kind \notin {"help", "all", "n", "flags"}
    BY <1>2, <1>11 DEF UnexpectedToken, arg
  <2> QED
    BY <1>5, <2>1 DEF Fits
<1>12. CASE AllParsed
  <2>1. idx = Len(argv) + 1
    BY <1>0, <1>1, <1>12 DEF AllParsed, OptionAt
  <2>2. /\ Regular(argv) /\ ~AsksForHelp(argv) /\ seen = Wanted(argv)
        /\ \A x \in MsgLetters : msg[x] = Largest(MessagesOf(argv, x))
        /\ {n} = IF Of(argv, "n") = {} THEN {1} ELSE UNION {argv[i + 1].value : i \in Of(argv, "n")}
    BY <1>1, <2>1, EndByTheRules
  <2>3. CASE seen = {}
    BY <1>4, <1>12, <2>2, <2>3 DEF AllParsed
  <2>4. CASE seen # {}
    <3>1. at' = "tests" /\ UNCHANGED <<argv, seen, n, msg>>
      BY <1>12, <2>4 DEF AllParsed, parsed
    <3>2. Regular(argv)' /\ (seen = Wanted(argv) /\ seen # {})'
      BY <2>2, <2>4, <3>1
    <3>3. (\A x \in MsgLetters : msg[x] = Largest(MessagesOf(argv, x)))'
      BY <2>2, <3>1
    <3>4. ({n} = IF Of(argv, "n") = {} THEN {1} ELSE UNION {argv[i + 1].value : i \in Of(argv, "n")})'
      BY <2>2, <3>1
    <3> QED
      BY <3>1, <3>2, <3>3, <3>4 DEF ParseInv, ParsesByTheRules
  <2> QED
    BY <2>3, <2>4
<1> QED
  BY <1>6, <1>7, <1>8, <1>9, <1>10, <1>11, <1>12 DEF ParseStep

LEMMA ParseInitially == RetrievalInit => ParseInv
BY DEF RetrievalInit, CliInit, ParseInv, ParsesByTheRules

(* Outside the loop nobody touches what it has left behind; a get that is  *)
(* refused is no list of options.                                          *)
LEMMA ParseInvStep == IInv /\ ParseInv /\ [RetrievalNext]_retrievalVars => ParseInv'
<1> SUFFICES ASSUME IInv, ParseInv, [RetrievalNext]_retrievalVars PROVE ParseInv'
  OBVIOUS
<1>0. argv \in ArgLists /\ CliTypeOK
  BY DEF IInv, RetrievalTypeOK
<1>1. ASSUME argv' = argv, at' \notin {"argv", "options", "help", "refused", "tests"} PROVE ParseInv'
  BY <1>1 DEF ParseInv, ParsesByTheRules
<1>2. ASSUME Refuse, at \in {"get", "get_id", "export"} PROVE ParseInv'
  <2>1. IsCommand(argv)
    BY <1>2 DEF IInv, GetInv, IsCommand
  <2> QED
    BY <1>2, <2>1 DEF Refuse, ParseInv, ParsesByTheRules
<1>3. ASSUME UNCHANGED <<argv, at, idx, seen, used_all, used_n, n, msg>> PROVE ParseInv'
  <2>1. Remembered(argv, idx) => Remembered(argv, idx)'
    BY <1>3 DEF Remembered
  <2>2. Understood(argv, idx) => Understood(argv, idx)'
    BY <1>3, <2>1 DEF Understood
  <2>3. RegularBelow(argv, idx) => RegularBelow(argv, idx)'
    BY <1>3
  <2>4. ParsesByTheRules'
    <3>1. at' = "tests" => (\A x \in MsgLetters : msg[x] = Largest(MessagesOf(argv, x)))'
      BY <1>3 DEF ParseInv, ParsesByTheRules
    <3>2. at' = "tests" =>
            ({n} = IF Of(argv, "n") = {} THEN {1} ELSE UNION {argv[i + 1].value : i \in Of(argv, "n")})'
      BY <1>3 DEF ParseInv, ParsesByTheRules
    <3>3. at' = "tests" => (Regular(argv) /\ seen = Wanted(argv) /\ seen # {})'
      BY <1>3 DEF ParseInv, ParsesByTheRules
    <3>4. (at = "help" => AsksForHelp(argv))'
      BY <1>3 DEF ParseInv, ParsesByTheRules
    <3>5. (at = "refused" /\ ~IsCommand(argv) =>
             ~AsksForHelp(argv) /\ (Regular(argv) => Wanted(argv) = {}))'
      BY <1>3 DEF ParseInv, ParsesByTheRules
    <3> QED
      BY <3>1, <3>2, <3>3, <3>4, <3>5 DEF ParsesByTheRules
  <2> QED
    BY <1>3, <2>2, <2>3, <2>4 DEF ParseInv
<1>4. CASE ParseStep
  <2>1. at = "options" \/ NoArguments \/ FirstArgument
    BY <1>4 DEF ParseStep, Help, All, Iterations, Flags, UnexpectedToken, AllParsed
  <2> QED
    BY <1>0, <1>4, <2>1, ParseFirst, ParseLoop
<1>5. CASE BeginCommand
  <2>1. CASE Refuse
    BY <1>2, <1>5, <2>1 DEF BeginCommand
  <2>2. CASE ~Refuse
    <3>1. At(IF at = "get" THEN "get_id" ELSE "export_prepare") \/ At("failed")
      BY <1>5, <2>2 DEF BeginCommand
    <3> QED
      BY <1>1, <3>1 DEF At
  <2> QED
    BY <2>1, <2>2
<1>6. CASE GetInvalid
  BY <1>2, <1>6 DEF GetInvalid
<1>7. CASE GetPrepare \/ GetStep \/ GetFinalize \/ GetDone
  <2>1. At("get_step") \/ At("get_id") \/ At("get_finalize") \/ At("done")
    BY <1>7 DEF GetPrepare, GetStep, GetFinalize, GetDone
  <2> QED
    BY <1>1, <2>1 DEF At
<1>8. CASE ExportPrepare \/ ExportStep \/ ExportRow \/ ExportFinalize
  <2>1. At("export_step") \/ At("export_row") \/ At("export_finalize") \/ At("done")
    BY <1>8 DEF ExportPrepare, ExportStep, ExportRow, ExportFinalize
  <2> QED
    BY <1>1, <2>1 DEF At
<1>9. CASE Log \/ UNCHANGED retrievalVars
  BY <1>3, <1>9 DEF Log, retrievalVars, cliVars, parsed
<1> QED
  BY <1>4, <1>5, <1>6, <1>7, <1>8, <1>9 DEF RetrievalNext, View

(* The loop over the options takes, refuses and understands what the usage *)
(* text says, of every argument list of every length: each test gets the   *)
(* last message given to a flag that names it, -n counts wherever it       *)
(* stands, and -h where nothing before it is wrong.                        *)
THEOREM ParserKeepsTheRules == RetrievalSpec => []ParsesByTheRules
<1>1. ParseInv => ParsesByTheRules
  BY DEF ParseInv
<1> QED
  BY <1>1, ParseInitially, ParseInvStep, RetrievalInvariant, PTL DEF RetrievalSpec

=============================================================================
