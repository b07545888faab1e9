----------------------------- MODULE Transactions -----------------------------
(***************************************************************************)
(* PostgreSQL transactions as the engine uses them (external to the        *)
(* repository): at most one transaction holds the lock on a row, and it    *)
(* holds it until it commits or rolls back.                                *)
(***************************************************************************)

CONSTANTS
  Tx,    \* the transactions that may be open at the same time
  NoTx   \* "nobody" as the holder of a lock

ASSUME TxAssumption == NoTx \notin Tx

(***************************************************************************)
(* Lock tables are functions from rows to holders.                         *)
(***************************************************************************)
Unlocked(rows) == [r \in rows |-> NoTx]

Lock(locks, r, t) == [locks EXCEPT ![r] = t]

Release(locks, t) == [r \in DOMAIN locks |-> IF locks[r] = t THEN NoTx ELSE locks[r]]
==============================================================================
