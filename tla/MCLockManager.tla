--------------------------- MODULE MCLockManager ----------------------------
(* Small instances of LockManager: MCLockManager*.cfg.  Transactions are   *)
(* numbers, since victims are chosen by id; rows are model values.         *)
EXTENDS LockManager
=============================================================================
