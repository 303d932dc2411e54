--------------------------- MODULE SnapshotStore ----------------------------
(***************************************************************************)
(* What a multi-version table promises its clients: a transaction reads    *)
(* the database as it was when it began, its writes are its own until it   *)
(* commits, they become the database's all at once when it does, and they  *)
(* never existed if it aborts.  (Which of two overlapping writers of a key *)
(* wins is left open: the one that commits last.)                          *)
(***************************************************************************)
CONSTANTS Txns, Keys, Values, NoValue

VARIABLES db,       \* key -> committed value
          active,   \* transactions in flight
          base,     \* transaction in flight -> the database when it began
          written,  \* transaction in flight -> the keys it has written
          buffer,   \* transaction in flight -> what it wrote there
          outcome   \* transaction -> what its client was told, "none" until it ends

vars == <<db, active, base, written, buffer, outcome>>

Blank == [k \in Keys |-> NoValue]

Init ==
  /\ db \in [Keys -> Values \cup {NoValue}]
  /\ active = {}
  /\ base = [t \in Txns |-> Blank]
  /\ written = [t \in Txns |-> {}]
  /\ buffer = [t \in Txns |-> Blank]
  /\ outcome = [t \in Txns |-> "none"]

Begin(t) ==
  /\ t \notin active
  /\ outcome[t] = "none"
  /\ active' = active \cup {t}
  /\ base' = [base EXCEPT ![t] = db]
  /\ UNCHANGED <<db, written, buffer, outcome>>

Write(t, k, v) ==
  /\ t \in active
  /\ written' = [written EXCEPT ![t] = @ \cup {k}]
  /\ buffer' = [buffer EXCEPT ![t][k] = v]
  /\ UNCHANGED <<db, active, base, outcome>>

End(t, how) ==
  /\ t \in active
  /\ active' = active \ {t}
  /\ base' = [base EXCEPT ![t] = Blank]
  /\ written' = [written EXCEPT ![t] = {}]
  /\ buffer' = [buffer EXCEPT ![t] = Blank]
  /\ outcome' = [outcome EXCEPT ![t] = how]

Commit(t) ==
  /\ End(t, "committed")
  /\ db' = [k \in Keys |-> IF k \in written[t] THEN buffer[t][k] ELSE db[k]]

Abort(t) == End(t, "aborted") /\ UNCHANGED db

Next ==
  \E t \in Txns :
    \/ Begin(t)
    \/ \E k \in Keys, v \in Values \cup {NoValue} : Write(t, k, v)
    \/ Commit(t)
    \/ Abort(t)

Spec == Init /\ [][Next]_vars
=============================================================================
