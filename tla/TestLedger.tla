----------------------------- MODULE TestLedger -----------------------------
(***************************************************************************)
(* What the system promises, whatever the network, the processes and the   *)
(* database do: a test that was ordered is judged at most once, by the     *)
(* unit under test, and the ledger gains at most one entry for it, later,  *)
(* and with that verdict.                                                  *)
(***************************************************************************)
EXTENDS Sequences, Naturals

CONSTANTS
  Runs,                 \* the tests that may be ordered
  Verdicts              \* what they may come to

VARIABLES
  judged,               \* the tests that were performed, with their verdicts
  ledger                \* the entries, in the order they were made

Entry == [run : Runs, verdict : Verdicts]

LedgerTypeOK == judged \subseteq Entry /\ ledger \in Seq(Entry)

LedgerInit == judged = {} /\ ledger = << >>

Judge(r, v) ==
  /\ \A e \in judged : e.run # r
  /\ judged' = judged \cup {[run |-> r, verdict |-> v]}
  /\ UNCHANGED ledger

Record(e) ==
  /\ \A i \in DOMAIN ledger : ledger[i].run # e.run
  /\ ledger' = Append(ledger, e)
  /\ UNCHANGED judged

LedgerNext ==
  \/ \E r \in Runs, v \in Verdicts : Judge(r, v)
  \/ \E e \in judged : Record(e)

LedgerSpec == LedgerInit /\ [][LedgerNext]_<<judged, ledger>>
=============================================================================
