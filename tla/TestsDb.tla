------------------------------ MODULE TestsDb -------------------------------
(***************************************************************************)
(* The table test_logs of tests_db.c and the file locks SQLite takes while *)
(* a statement of tests_db.c is running.                                   *)
(*                                                                         *)
(* Every function of tests_db.c opens a connection of its own, prepares    *)
(* one statement, steps it and finalizes it; no busy handler is installed. *)
(* A SELECT holds a SHARED lock from its first sqlite3_step to             *)
(* sqlite3_finalize.  An INSERT takes RESERVED, goes on to PENDING, which  *)
(* admits no new reader, and to EXCLUSIVE, which needs the present readers *)
(* to be gone; it gives up with SQLITE_BUSY where somebody is in the way.  *)
(* The locks are SQLite's (rollback-journal mode, its default); when a     *)
(* function takes and leaves them, and what it makes of SQLITE_BUSY, is    *)
(* tests_db.c's.                                                           *)
(***************************************************************************)
EXTENDS Integers, Sequences, UdpNet

CONSTANT IntMax     \* the largest value of a C int (2^31 - 1)
ASSUME IntMaxAssumption == IntMax \in Nat

VARIABLES
  rows,       \* the table, in insertion (rowid) order
  readers,    \* connections that hold SHARED between two steps
  writer,     \* the connection that holds RESERVED, or None
  pending     \* TRUE: writer has gone on to PENDING or EXCLUSIVE

dbVars   == <<rows, readers, writer, pending>>
lockVars == <<readers, writer, pending>>

IntMin == -IntMax - 1

(* The timestamp and duration columns say which test of which invocation a *)
(* row describes; `run' stands for both.                                   *)
Run == [proc : Procs, peripheral : Peripherals]
Row == [test_id : IntMin..IntMax, run : Run, result : {0, 1}]

DbTypeOK ==
  /\ rows \in Seq(Row)
  /\ readers \subseteq Procs
  /\ writer \in Procs \cup {None}
  /\ pending \in BOOLEAN

DbInit ==
  /\ rows = << >>
  /\ readers = {}
  /\ writer = None
  /\ pending = FALSE

(* Preparing a statement, which reads the schema, and starting to read the *)
(* table need a SHARED lock, which PENDING and EXCLUSIVE refuse.           *)
Readable == ~pending

LockShared(c) == readers' = readers \cup {c} /\ UNCHANGED <<writer, pending>>

(* sqlite3_step of the INSERT: RESERVED first, PENDING and then EXCLUSIVE  *)
(* to commit.  Where EXCLUSIVE is refused PENDING stays till the end.      *)
CanReserve == writer = None
Reserve(c) == writer' = c /\ UNCHANGED <<readers, pending>>
CanCommit  == readers = {}
Escalate   == pending' = TRUE /\ UNCHANGED <<readers, writer>>

(* sqlite3_finalize and sqlite3_close, or the death of the process.        *)
Unlock(c) ==
  /\ readers' = readers \ {c}
  /\ IF writer = c THEN writer' = None /\ pending' = FALSE
                   ELSE UNCHANGED <<writer, pending>>

(* The rows that hold MAX(test_id).                                        *)
Oldest == {i \in DOMAIN rows : \A j \in DOMAIN rows : rows[i].test_id <= rows[j].test_id}   \* mutant
Newest == {i \in DOMAIN rows : \A j \in DOMAIN rows : rows[j].test_id <= rows[i].test_id}

(* int + 1 in two's complement, kept in the uint32_t that *dest is.        *)
SameId(id) == id                                    \* mutant
Successor(id) == IF id = IntMax THEN IntMin ELSE id + 1

(* What get_next_id writes to *dest (one value): a table without records   *)
(* gives 0, and so does a SELECT that returned no row because it failed.   *)
NextId(got_row) ==
  IF got_row /\ rows # << >> THEN {Successor(rows[i].test_id) : i \in Newest} ELSE {0}

(* SELECT ... WHERE test_id = ?: the one sqlite3_step of print_log_by_id   *)
(* returns the first matching row, in rowid order.                         *)
Matching(id)   == {i \in DOMAIN rows : rows[i].test_id = id}
FirstMatch(id) == {i \in Matching(id) : \A j \in Matching(id) : i <= j}
=============================================================================
