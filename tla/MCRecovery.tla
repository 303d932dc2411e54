----------------------------- MODULE MCRecovery -----------------------------
(* Small instances of Recovery: MCRecovery*.cfg. *)
EXTENDS Recovery

(* Bounds on the behaviours followed: at most two pages are written, and a *)
(* process that no crash can end any more stops before it reads a page.    *)
Explored ==
  /\ Cardinality({p \in Pages : RecordsOf(p) # {}}) <= 2
  /\ restarts < MaxRestarts \/ phase # "up" \/ \A f \in Frames : frames[f] = NoFrame
=============================================================================
