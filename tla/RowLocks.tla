------------------------------ MODULE RowLocks ------------------------------
(***************************************************************************)
(* Row locks of the database, as the transactions of the program see them: *)
(* SELECT ... FOR UPDATE and UPDATE take the lock of a row, wait while     *)
(* another transaction has it, and keep it until the transaction ends.     *)
(* owner is a function from rows to the session that locks each of them,   *)
(* or NoSession.  The database is not part of the repository: these        *)
(* operators state what the code relies on.                                *)
(***************************************************************************)
CONSTANT NoSession

\* A request by session s for the row does not wait.
Grantable(owner, row, s) == owner[row] \in {NoSession, s}

\* Mutant of Acquire: SELECT without FOR UPDATE.
AcquireNothing(owner, row, s) == owner

\* The row after s has got its lock.
Acquire(owner, row, s) == [owner EXCEPT ![row] = s]

\* COMMIT or ROLLBACK of s: all its locks at once.
ReleaseAll(owner, s) ==
  [row \in DOMAIN owner |-> IF owner[row] = s THEN NoSession ELSE owner[row]]

=============================================================================
