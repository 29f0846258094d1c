---------------------------- MODULE SharedConnection ----------------------------
(***************************************************************************)
(* SQLiteDatabase is one sqlite3 connection for all threads.  SQLite runs  *)
(* the statements of a connection one at a time, and a transaction belongs *)
(* to the connection, not to the thread that began it: a statement of      *)
(* another thread joins it, is seen before the COMMIT, and is undone by    *)
(* the ROLLBACK.  A second BEGIN fails.                                    *)
(*                                                                         *)
(* A failed statement changes nothing.  That SQLite may end a transaction  *)
(* by itself, when the disk is full, is left out.                          *)
(***************************************************************************)
EXTENDS Integers

CONSTANT Nobody   \* the owner of no transaction

VARIABLES
  tables,   \* the tables as the statements of the connection see them
  disk,     \* the tables as they were last committed
  owner,    \* the thread that began the open transaction, or Nobody
  lastRow   \* sqlite3_last_insert_rowid of the connection

connection == <<tables, disk, owner, lastRow>>

\* A row of a table whose ids the model does not number.
OtherRow == 0

Open(initial) ==
  /\ tables = initial
  /\ disk = initial
  /\ owner = Nobody
  /\ lastRow = OtherRow

InTransaction == owner # Nobody

BeginImmediate(t) ==
  /\ ~ InTransaction
  /\ owner' = t
  /\ UNCHANGED <<tables, disk, lastRow>>

\* A statement commits by itself unless a transaction is open.
Execute(new) ==
  /\ tables' = new
  /\ disk' = IF InTransaction THEN disk ELSE new
  /\ UNCHANGED owner

Write(new) == Execute(new) /\ UNCHANGED lastRow

Insert(new, id) == Execute(new) /\ lastRow' = id

Commit ==
  /\ InTransaction
  /\ disk' = tables
  /\ owner' = Nobody
  /\ UNCHANGED <<tables, lastRow>>

Rollback ==
  /\ InTransaction
  /\ tables' = disk
  /\ owner' = Nobody
  /\ UNCHANGED <<disk, lastRow>>

\* The process ends: the journal undoes what was not committed.
Close ==
  /\ tables' = disk
  /\ owner' = Nobody
  /\ lastRow' = OtherRow
  /\ UNCHANGED disk

=============================================================================
