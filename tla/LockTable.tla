----------------------------- MODULE LockTable ------------------------------
(***************************************************************************)
(* What the row-lock layer promises its callers, with no mention of how:   *)
(* a row is owned by at most one transaction, ownership is given only      *)
(* when the row is free, and everything a transaction owns goes away in    *)
(* one step, once, when it ends.                                           *)
(***************************************************************************)
EXTENDS Naturals

CONSTANTS Txns, Rids

VARIABLES owner,   \* owner[r]: the transaction that owns r, or NoTxn
          ended    \* transactions whose locks have been released

NoTxn == 0

Init ==
  /\ owner = [r \in Rids |-> NoTxn]
  /\ ended = {}

Acquire(t, r) ==
  /\ t \notin ended
  /\ owner[r] = NoTxn
  /\ owner' = [owner EXCEPT ![r] = t]
  /\ UNCHANGED ended

ReleaseAll(t) ==
  /\ t \notin ended
  /\ owner' = [r \in Rids |-> IF owner[r] = t THEN NoTxn ELSE owner[r]]
  /\ ended' = ended \cup {t}

Next == \E t \in Txns : ReleaseAll(t) \/ \E r \in Rids : Acquire(t, r)

vars == <<owner, ended>>

Spec == Init /\ [][Next]_vars
=============================================================================
