----------------------------- MODULE MCSqlServer -----------------------------
(* Two clients that create and use two tables, one of them twice.          *)
EXTENDS SqlServer, TLC

create(t) == [kind |-> "create", table |-> t]
use(t) == [kind |-> "use", table |-> t]

Two == {"c1", "c2"}
TwoScripts == ("c1" :> <<create("a"), create("b")>>) @@ ("c2" :> <<create("b"), use("a")>>)
=============================================================================
