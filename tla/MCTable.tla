------------------------------ MODULE MCTable -------------------------------
(* Instances of Table: what the clients do, and how much of it. *)
EXTENDS TableStore, TLC

Writing == {"INSERT", "UPDATE", "DELETE"}

(* Both kinds of discipline under which the table keeps its promise, and   *)
(* clients that write whatever they like.                                  *)
AllClients == {
  [preloaded |-> Keys, statements |-> Writing, rollbacks |-> FALSE, inserts |-> "again",
   ids |-> 4, versions |-> 4],
  [preloaded |-> {}, statements |-> {"SELECT", "SCAN", "INSERT", "UPDATE"}, rollbacks |-> TRUE,
   inserts |-> "distinct", ids |-> 4, versions |-> 3],
  [preloaded |-> Keys, statements |-> Writing, rollbacks |-> TRUE, inserts |-> "any",
   ids |-> 3, versions |-> 3]}

Deleters == {
  [preloaded |-> Keys, statements |-> {"UPDATE", "DELETE"}, rollbacks |-> TRUE, inserts |-> "any",
   ids |-> 3, versions |-> 3]}

(* Sessions are interchangeable. *)
SessionSymmetry == Permutations(Sessions)
=============================================================================
