--------------------------- MODULE SqlServerTables ---------------------------
(***************************************************************************)
(* Proof that tables keep their files, for any clients, any scripts and    *)
(* any number of crashes and restarts, when a CREATE TABLE runs alone.     *)
(*                                                                         *)
(* What is needed beyond SqlServerAnswers is Alone, about the statements   *)
(* side by side, and Catalogued, about how far tables, file and opened are *)
(* apart at each step of createTable.                                      *)
(***************************************************************************)
EXTENDS SqlServerAnswers

(* With a CREATE of one client pending, nothing of another one is. *)
Alone ==
    \A c, d \in Clients : c # d =>
      \A k \in Pending(c), j \in Pending(d) :
        Script[c][k].kind # "create" /\ Script[d][j].kind # "create"

Injective(f) == \A m, n \in DOMAIN f : f[m] = f[n] => m = n
Holds(f, a) == a[1] \in DOMAIN f /\ f[a[1]] = a[2]

(* What a thread in the middle of createTable knows. *)
Creation(c) ==
  LET t == Statement(c).table
      id == thread[c].id
      at == thread[c].at
  IN /\ at \in Creating => Statement(c).kind = "create" /\ thread[c].ok
     /\ at \in {"number", "enter"} => t \notin DOMAIN tables
     /\ at = "enter" => id = next_table_id
     /\ at \in {"truncate", "write", "storage"} =>
          /\ t \notin DOMAIN opened /\ Below(opened, id) /\ id < next_table_id
          /\ tables = put(opened, t, id)
          /\ at = "truncate" => file = opened
          /\ at = "storage" => file = tables
     /\ at = "send" /\ Statement(c).kind = "create" /\ thread[c].ok => Holds(opened, <<t, id>>)

Settled == \A c \in Clients : thread[c].at \notin {"truncate", "write", "storage"}

Catalogued ==
  /\ Injective(opened) /\ Below(opened, next_table_id)
  /\ Injective(file) /\ Below(file, next_table_id)
  /\ main # "down" => \A c \in Clients : Creation(c)
  /\ main # "down" /\ Settled => file = opened /\ tables = opened
  /\ main # "down" => \A a \in acknowledged : Holds(opened, a)
  /\ main = "down" => \A a \in acknowledged : Holds(file, a)

-----------------------------------------------------------------------------
(* The statements that are pending. *)

Ends(s, k) == \E i \in DOMAIN s : s[i].last /\ s[i].no = k

(* A part of a sequence ends no more statements than the whole. *)
LEMMA CutEnds ==
  ASSUME NEW T, NEW s \in Seq(T), NEW n \in 1 .. Len(s), NEW k
  PROVE  /\ Ends(SubSeq(s, 1, n), k) => Ends(s, k)
         /\ Ends(SubSeq(s, n + 1, Len(s)), k) => Ends(s, k)
<1> DEFINE u == SubSeq(s, 1, n)
           v == SubSeq(s, n + 1, Len(s))
<1>1. /\ u \in Seq(T) /\ Len(u) = n /\ \A i \in 1 .. n : u[i] = s[i]
      /\ v \in Seq(T) /\ Len(v) = Len(s) - n
      /\ \A i \in 1 .. Len(v) : v[i] = s[n + i]
  BY Cut
<1> HIDE DEF u, v
<1>2. \A i \in DOMAIN u : i \in DOMAIN s /\ u[i] = s[i] BY <1>1
<1>3. \A i \in DOMAIN v : n + i \in DOMAIN s /\ v[i] = s[n + i] BY <1>1
<1>4. Ends(u, k) => Ends(s, k) BY <1>2, Zenon DEF Ends
<1>5. Ends(v, k) => Ends(s, k) BY <1>3, Zenon DEF Ends
<1> QED BY <1>4, <1>5 DEF u, v

(* What two sequences end, one after the other. *)
LEMMA JoinedEnds ==
  ASSUME NEW T, NEW s \in Seq(T), NEW t \in Seq(T), NEW k
  PROVE  Ends(s \o t, k) <=> Ends(s, k) \/ Ends(t, k)
<1> DEFINE u == s \o t
<1>1. /\ DOMAIN u = 1 .. Len(s) + Len(t)
      /\ \A i \in 1 .. Len(s) : u[i] = s[i]
      /\ \A i \in 1 .. Len(t) : u[Len(s) + i] = t[i]
  BY Joined
<1> HIDE DEF u
<1>2. \A i \in DOMAIN s : i \in DOMAIN u /\ u[i] = s[i] BY <1>1
<1>3. \A i \in DOMAIN t : Len(s) + i \in DOMAIN u /\ u[Len(s) + i] = t[i] BY <1>1
<1>4. ASSUME NEW i \in DOMAIN u, u[i].last, u[i].no = k PROVE Ends(s, k) \/ Ends(t, k)
  <2>1. CASE i <= Len(s)
    <3>1. i \in DOMAIN s /\ u[i] = s[i] BY <1>1, <2>1
    <3> QED BY <1>4, <3>1, Zenon DEF Ends
  <2>2. CASE ~(i <= Len(s))
    <3> DEFINE j == i - Len(s)
    <3>1. j \in 1 .. Len(t) /\ j \in DOMAIN t /\ i = Len(s) + j BY <1>1, <2>2
    <3>2. u[i] = t[j] BY <1>1, <3>1
    <3> QED BY <1>4, <3>1, <3>2, Zenon DEF Ends
  <2> QED BY <2>1, <2>2
<1>5. Ends(u, k) <=> Ends(s, k) \/ Ends(t, k) BY <1>2, <1>3, <1>4, Zenon DEF Ends
<1> QED BY <1>5 DEF u

PendingAre ==
  \A c \in Clients : \A k :
    k \in Pending(c) <=> \/ Ends(wire[c], k) \/ Ends(buffer[c], k)
                         \/ thread[c].at \in Executing /\ thread[c].no = k

(* Pending(c), by where the end of the statement is. *)
LEMMA PendingIs == TypeOK => PendingAre
<1> SUFFICES ASSUME TypeOK, NEW c \in Clients, NEW k
             PROVE  k \in Pending(c) <=> \/ Ends(wire[c], k) \/ Ends(buffer[c], k)
                                         \/ thread[c].at \in Executing /\ thread[c].no = k
  BY Zenon DEF PendingAre
<1> DEFINE s == wire[c] \o buffer[c]
           X == thread[c].at \in Executing /\ thread[c].no = k
<1>1. wire[c] \in Seq(Parts) /\ buffer[c] \in Seq(Parts) /\ thread[c] \in Threads BY DEF TypeOK
<1>2. thread[c].at \in {"none", "read", "done"} <=> thread[c].at \notin Executing
  BY <1>1 DEF Threads, Executing, Creating
<1>3. Ends(s, k) <=> Ends(wire[c], k) \/ Ends(buffer[c], k) BY <1>1, JoinedEnds, Zenon
<1>4. k \in (IF thread[c].at \in {"none", "read", "done"} THEN {} ELSE {thread[c].no}) <=> X
  BY <1>2, Zenon
<1>5. k \in {p.no : p \in {q \in Range(s) : q.last}} <=> Ends(s, k)
  <2> HIDE DEF s
  <2> QED BY Zenon DEF Range, Ends
<1>6. k \in Pending(c) <=> Ends(s, k) \/ X BY <1>4, <1>5, Zenon DEF Pending
<1> QED BY <1>3, <1>6, Zenon

(* A statement is added to those pending when its end is sent. *)
LEMMA PendingShrinks ==
  ASSUME TypeOK, TypeOK', [Next]_vars, NEW d \in Clients, NEW k \in Pending(d)'
  PROVE  \/ k \in Pending(d)
         \/ ClientSend(d) /\ sent[d] % 2 = 1 /\ k = (sent[d] \div 2) + 1
<1> DEFINE Was == \/ Ends(wire[d], k) \/ Ends(buffer[d], k)
                  \/ thread[d].at \in Executing /\ thread[d].no = k
<1>0. Was => k \in Pending(d) BY PendingIs, Zenon DEF PendingAre
<1>1. \/ Ends(wire'[d], k) \/ Ends(buffer'[d], k)
      \/ thread'[d].at \in Executing /\ thread'[d].no = k
  <2>1. PendingAre' BY PendingIs, PTL
  <2> QED BY <2>1, Zenon DEF PendingAre
<1>2. ASSUME wire'[d] = wire[d], buffer'[d] = buffer[d], thread'[d] = thread[d]
      PROVE  k \in Pending(d)
  BY <1>0, <1>1, <1>2
<1>3. CASE UNCHANGED vars BY <1>2, <1>3 DEF vars, clientVars, connVars
<1>4. ASSUME NEW c \in Clients, Connect(c) \/ HangUp(c) \/ (ClientSend(c) /\ c # d)
      PROVE  k \in Pending(d)
  <2>1. wire'[d] = wire[d] /\ buffer' = buffer /\ thread' = thread
    BY <1>4, Zenon DEF Connect, HangUp, ClientSend, TypeOK, connVars
  <2> QED BY <1>2, <2>1
<1>5. CASE ClientSend(d)
  <2> DEFINE p == [no |-> (sent[d] \div 2) + 1, last |-> sent[d] % 2 = 1]
  <2>1. wire[d] \in Seq(Parts) BY DEF TypeOK
  <2>2. wire'[d] = Append(wire[d], p) /\ buffer' = buffer /\ thread' = thread
    BY <1>5, Zenon DEF ClientSend, TypeOK, connVars
  <2>3. p.no = (sent[d] \div 2) + 1 /\ (p.last => sent[d] % 2 = 1) BY Zenon
  <2> HIDE DEF p
  <2>4. ASSUME NEW i \in DOMAIN wire'[d] PROVE wire'[d][i] = p \/ (i \in DOMAIN wire[d] /\ wire'[d][i] = wire[d][i])
    BY <2>1, <2>2
  <2>5. Ends(wire'[d], k) => Ends(wire[d], k) \/ (p.last /\ p.no = k) BY <2>4, Zenon DEF Ends
  <2> QED BY <1>0, <1>1, <1>5, <2>2, <2>3, <2>5
<1>6. ASSUME NEW c \in Clients, Serve(c), c # d PROVE k \in Pending(d)
  BY <1>2, <1>6, ServeOthers
<1>7. CASE Serve(d)
  <2>1. wire[d] \in Seq(Parts) /\ buffer[d] \in Seq(Parts) /\ thread[d] \in Threads BY DEF TypeOK
  <2>2. CASE Receive(d)
    <3>1. ASSUME NEW n \in 1 .. Len(wire[d]), buffer'[d] = buffer[d] \o SubSeq(wire[d], 1, n),
                 wire'[d] = SubSeq(wire[d], n + 1, Len(wire[d])), thread' = thread
          PROVE  Was
      <4>1. SubSeq(wire[d], 1, n) \in Seq(Parts) BY <2>1, Cut
      <4>2. Ends(wire'[d], k) => Ends(wire[d], k) BY <2>1, <3>1, CutEnds, Zenon
      <4>3. Ends(buffer'[d], k) => Ends(buffer[d], k) \/ Ends(SubSeq(wire[d], 1, n), k)
        <5> DEFINE b == buffer[d]
                   u == SubSeq(wire[d], 1, n)
        <5>1. b \in Seq(Parts) /\ u \in Seq(Parts) BY <2>1, <4>1
        <5> HIDE DEF b, u
        <5>2. Ends(b \o u, k) <=> Ends(b, k) \/ Ends(u, k) BY <5>1, JoinedEnds
        <5> QED BY <3>1, <5>2, Zenon DEF b, u
      <4>4. Ends(SubSeq(wire[d], 1, n), k) => Ends(wire[d], k) BY <2>1, CutEnds, Zenon
      <4> QED BY <1>1, <3>1, <4>2, <4>3, <4>4
    <3>2. ASSUME Goto(d, "done"), buffer' = buffer, wire' = wire PROVE Was
      <4>1. thread'[d].at = "done" BY <2>1, <3>2 DEF Goto, TypeOK, Threads
      <4> QED BY <1>1, <3>2, <4>1 DEF Executing, Creating
    <3>3. CASE \E n \in 1 .. Len(wire[d]) :
                 /\ buffer' = [buffer EXCEPT ![d] = buffer[d] \o SubSeq(wire[d], 1, n)]
                 /\ wire' = [wire EXCEPT ![d] = SubSeq(wire[d], n + 1, Len(wire[d]))]
                 /\ thread' = thread
      BY <1>0, <3>1, <3>3, Zenon DEF TypeOK
    <3> QED BY <1>0, <2>2, <3>2, <3>3, Zenon DEF Receive
  <2>3. CASE Extract(d)
    <3>1. PICK n \in DOMAIN buffer[d] :
            /\ buffer[d][n].last /\ thread'[d].no = buffer[d][n].no
            /\ buffer' = [buffer EXCEPT ![d] = SubSeq(buffer[d], n + 1, Len(buffer[d]))]
            /\ wire' = wire
      BY <2>3, Extracted, Zenon DEF clientVars
    <3>2. buffer'[d] = SubSeq(buffer[d], n + 1, Len(buffer[d])) /\ n \in 1 .. Len(buffer[d])
      <4>1. buffer'[d] = SubSeq(buffer[d], n + 1, Len(buffer[d])) BY <3>1, Zenon DEF TypeOK
      <4>2. n \in 1 .. Len(buffer[d]) BY <2>1
      <4> QED BY <4>1, <4>2
    <3>3. Ends(buffer'[d], k) => Ends(buffer[d], k) BY <2>1, <3>2, CutEnds, Zenon
    <3>4. thread'[d].no = k => Ends(buffer[d], k) BY <3>1, Zenon DEF Ends
    <3> QED BY <1>0, <1>1, <3>1, <3>3, <3>4
  <2>4. CASE CreateTable(d)
    <3>1. thread[d].at \in Executing BY <2>4, Created DEF Executing
    <3> QED BY <1>0, <1>1, <2>4, <3>1, Created
  <2>5. CASE Send(d)
    <3>1. thread'[d].at = "read" /\ wire' = wire /\ buffer' = buffer
      BY <2>1, <2>5 DEF Send, Goto, TypeOK, Threads, clientVars
    <3> QED BY <1>0, <1>1, <3>1 DEF Executing, Creating
  <2> QED BY <1>7, <2>2, <2>3, <2>4, <2>5 DEF Serve
<1>8. CASE CheckRunning \/ Timeout \/ BeginStop \/ Stop \/ Start
  BY <1>2, <1>8 DEF CheckRunning, Timeout, BeginStop, Stop, CloseListener, JoinConnections, Start,
                    clientVars, connVars
<1>9. CASE Accept
  <2>1. wire' = wire /\ buffer' = buffer /\ (thread'[d] = thread[d] \/ thread'[d].at = "read")
    BY <1>9 DEF Accept, TypeOK, NoThread
  <2> QED BY <1>0, <1>1, <2>1 DEF Executing, Creating
<1>10. CASE End
  <2>1. wire'[d] = <<>> /\ buffer'[d] = <<>> /\ thread'[d].at = "none" BY <1>10 DEF End, NoThread
  <2>2. ~Ends(<<>>, k) BY DEF Ends
  <2> QED BY <1>1, <2>1, <2>2 DEF Executing, Creating
<1> QED BY <1>3, <1>4, <1>5, <1>6, <1>7, <1>8, <1>9, <1>10 DEF Next, Exit, Crash

(* Clients that wait for each other keep a CREATE TABLE alone. *)
LEMMA AloneStep ==
  ASSUME CreatesAlone, TypeOK, TypeOK', Alone, [Next]_vars PROVE Alone'
<1> DEFINE Creates(c, k) == Script[c][k].kind = "create"
<1> SUFFICES ASSUME NEW c \in Clients, NEW d \in Clients, c # d,
                    NEW k \in Pending(c)', NEW j \in Pending(d)'
             PROVE  ~Creates(c, k) /\ ~Creates(d, j)
  BY Zenon DEF Alone
<1>1. CASE k \in Pending(c) /\ j \in Pending(d) BY <1>1, Zenon DEF Alone
<1>2. ASSUME NEW a \in Clients, NEW b \in Clients, a # b, NEW m \in Pending(a)', NEW n \in Pending(b)',
             m \notin Pending(a)
      PROVE  ~Creates(a, m) /\ ~Creates(b, n)
  <2>1. ClientSend(a) /\ sent[a] % 2 = 1 /\ m = (sent[a] \div 2) + 1 BY <1>2, PendingShrinks, Zenon
  <2>2. sent'[a] = sent[a] + 1 /\ sent'[b] = sent[b] /\ sent[a] \in Nat /\ sent[b] \in Nat
    BY <1>2, <2>1, Zenon DEF ClientSend, TypeOK
  <2>3. ~ClientSend(b)
    <3>1. SUFFICES ASSUME ClientSend(b) PROVE FALSE OBVIOUS
    <3>2. sent'[b] = sent[b] + 1 BY <3>1, Zenon DEF ClientSend, TypeOK
    <3> QED BY <2>2, <3>2
  <2>4. n \in Pending(b) BY <2>3, PendingShrinks, Zenon
  <2>5. \A x \in Pending(b) : Script[a][m].kind # "create" /\ Script[b][x].kind # "create"
    BY <1>2, <2>1, Zenon DEF ClientSend
  <2> QED BY <2>4, <2>5, Zenon
<1>3. CASE k \notin Pending(c) BY <1>2, <1>3, Zenon
<1>4. CASE j \notin Pending(d) BY <1>2, <1>4, Zenon
<1> QED BY <1>1, <1>3, <1>4

-----------------------------------------------------------------------------
(* The catalog. *)

(* A thread that creates a table is the only one that executes anything. *)
LEMMA CreatesByItself ==
  ASSUME TypeOK, Alone, NEW c \in Clients, thread[c].at \in Executing, Statement(c).kind = "create",
         NEW d \in Clients, d # c
  PROVE  thread[d].at \notin Executing
<1>1. thread[c].no \in Pending(c) BY PendingIs, Zenon DEF PendingAre
<1>2. thread[d].at \in Executing => thread[d].no \in Pending(d) BY PendingIs, Zenon DEF PendingAre
<1> QED BY <1>1, <1>2, Zenon DEF Alone, Statement

(* Steps that change nothing but that threads which create nothing rest. *)
LEMMA CatalogKept ==
  ASSUME Catalogued, UNCHANGED <<catalogVars, acknowledged>>,
         main # "down", main' # "down",
         \A d \in Clients : \/ thread'[d] = thread[d]
                            \/ /\ thread'[d].at \notin Executing
                               /\ thread[d].at \notin {"truncate", "write", "storage"}
  PROVE  Catalogued'
<1>1. UNCHANGED <<tables, next_table_id, file, opened, acknowledged>> BY DEF catalogVars
<1>2. ASSUME NEW d \in Clients PROVE Creation(d)'
  <2>1. CASE thread'[d] = thread[d]
    <3>1. Creation(d) BY DEF Catalogued
    <3> QED BY <1>1, <2>1, <3>1, Zenon DEF Creation, Statement
  <2>2. CASE thread'[d].at \notin Executing BY <2>2 DEF Creation, Executing, Creating
  <2> QED BY <2>1, <2>2
<1>3. Settled' => Settled BY DEF Settled
<1> QED BY <1>1, <1>2, <1>3 DEF Catalogued, Injective, Below, Holds

(* The map with one more table. *)
LEMMA ExtendedCatalog ==
  ASSUME NEW n, NEW id \in Nat, NEW f, IsMap(f), n \notin DOMAIN f, Below(f, id), Injective(f),
         NEW next \in Nat, id < next
  PROVE  LET g == put(f, n, id)
         IN /\ Injective(g) /\ Below(g, next) /\ Holds(g, <<n, id>>)
            /\ \A a : Holds(f, a) => Holds(g, a)
<1> DEFINE g == put(f, n, id)
<1>1. /\ DOMAIN g = DOMAIN f \cup {n} /\ g[n] = id /\ \A m \in DOMAIN f : m # n => g[m] = f[m]
  BY DEF put
<1>2. \A m \in DOMAIN f : f[m] \in Nat BY DEF IsMap
<1> HIDE DEF g
<1>3. Injective(g) BY <1>1, <1>2 DEF Injective, Below
<1>4. Below(g, next) BY <1>1, <1>2 DEF Below
<1>5. Holds(g, <<n, id>>) BY <1>1 DEF Holds
<1>6. \A a : Holds(f, a) => Holds(g, a) BY <1>1 DEF Holds
<1> QED BY <1>3, <1>4, <1>5, <1>6 DEF g

(* createTable, step by step. *)
LEMMA CreateCatalogued ==
  ASSUME TypeOK, Alone, Catalogued, main # "down", NEW c \in Clients, CreateTable(c)
  PROVE  Catalogued'
<1> DEFINE t == Statement(c).table
           id == thread[c].id
<1>1. /\ thread[c] \in Threads /\ id \in Nat /\ next_table_id \in Nat
      /\ IsMap(tables) /\ IsMap(file) /\ IsMap(opened)
  BY DEF TypeOK, Threads
<1>2. /\ thread[c].at \in Creating /\ thread'[c].at \in Executing
      /\ thread'[c].no = thread[c].no /\ thread'[c].ok = thread[c].ok
      /\ acknowledged' = acknowledged /\ main' # "down"
  BY Created DEF serverVars
<1>3. Creation(c) BY DEF Catalogued
<1>4. Statement(c).kind = "create" /\ thread[c].ok BY <1>2, <1>3 DEF Creation
<1>5. \A d \in Clients \ {c} : thread[d].at \notin Executing /\ thread'[d] = thread[d]
  <2>1. Serve(c) BY DEF Serve
  <2> QED BY <1>2, <1>4, <2>1, CreatesByItself, ServeOthers, Zenon DEF Executing
<1>6. \A d \in Clients \ {c} : Creation(d)'
  BY <1>5, Zenon DEF Creation, Executing, Creating
<1>7. Statement(c)' = Statement(c) BY <1>2 DEF Statement
<1>8. /\ Settled <=> thread[c].at \notin {"truncate", "write", "storage"}
      /\ Settled' <=> thread'[c].at \notin {"truncate", "write", "storage"}
  BY <1>5 DEF Settled, Executing, Creating
<1>9. \A a \in acknowledged : Holds(opened, a) BY DEF Catalogued
<1>10. CASE thread[c].at = "number"
  <2>1. /\ thread'[c].at = "enter" /\ thread'[c].id = next_table_id
        /\ UNCHANGED <<tables, next_table_id, file, opened>>
    BY <1>1, <1>10 DEF CreateTable, TypeOK, Threads, catalogVars
  <2>2. Creation(c)'
    BY <1>2, <1>3, <1>4, <1>7, <1>10, <2>1, Zenon DEF Creation, Creating
  <2> QED BY <1>2, <1>6, <1>8, <1>10, <2>1, <2>2 DEF Catalogued, Injective, Below, Holds
<1>11. CASE thread[c].at = "enter"
  <2>1. /\ thread'[c].at = "truncate" /\ thread'[c].id = id /\ next_table_id' = id + 1
        /\ tables' = put(tables, t, id) /\ UNCHANGED <<file, opened>>
    BY <1>1, <1>11 DEF CreateTable, enterTable, Goto, TypeOK, Threads
  <2>2. /\ t \notin DOMAIN tables /\ id = next_table_id /\ file = opened /\ tables = opened
    BY <1>3, <1>8, <1>11, Zenon DEF Creation, Catalogued
  <2>3. Below(opened, id) /\ Below(file, id) BY <2>2 DEF Catalogued
  <2>4. Below(opened, id + 1) /\ Below(file, id + 1) BY <1>1, <2>3 DEF Below, IsMap
  <2> HIDE DEF t, id
  <2>5. Creation(c)'
    <3>1. t = Statement(c)'.table BY <1>7 DEF t
    <3>2. id < id + 1 BY <1>1
    <3> QED BY <1>2, <1>4, <1>7, <2>1, <2>2, <2>3, <3>1, <3>2 DEF Creation, Below
  <2> QED BY <1>2, <1>6, <1>8, <1>9, <2>1, <2>4, <2>5, Zenon DEF Catalogued, Injective, Below, Holds
<1>12. CASE thread[c].at \in {"truncate", "write", "storage"}
  <2>1. /\ t \notin DOMAIN opened /\ Below(opened, id) /\ id < next_table_id
        /\ tables = put(opened, t, id)
        /\ thread[c].at = "truncate" => file = opened
        /\ thread[c].at = "storage" => file = tables
    BY <1>3, <1>12 DEF Creation
  <2>2. Injective(opened) BY DEF Catalogued
  <2>3. /\ Injective(tables) /\ Below(tables, next_table_id) /\ Holds(tables, <<t, id>>)
        /\ \A a : Holds(opened, a) => Holds(tables, a)
    <3> HIDE DEF t, id
    <3> QED BY <1>1, <2>1, <2>2, ExtendedCatalog
  <2>4. thread'[c].id = id BY <1>1, <1>12 DEF CreateTable, Goto, TypeOK, Threads
  <2>5. next_table_id' = next_table_id /\ tables' = tables
    BY <1>12 DEF CreateTable, truncateFile, writeFile, openTableStorage
  <2>6. t = Statement(c)'.table BY <1>7
  <2>7. CASE thread[c].at = "truncate"
    <3>1. thread'[c].at = "write" /\ file' = NoTables /\ opened' = opened
      BY <1>1, <2>7 DEF CreateTable, truncateFile, Goto, TypeOK, Threads
    <3>2. Injective(file') /\ Below(file', next_table_id)
      BY <3>1, NoTablesIsMap DEF Injective, Below
    <3>3. Creation(c)'
      BY <1>2, <1>4, <1>7, <2>1, <2>4, <2>5, <3>1 DEF Creation, Below
    <3> QED BY <1>2, <1>6, <1>8, <1>9, <2>5, <3>1, <3>2, <3>3 DEF Catalogued, Injective, Below, Holds
  <2>8. CASE thread[c].at = "write"
    <3>1. thread'[c].at = "storage" /\ file' = tables /\ opened' = opened
      BY <1>1, <2>8 DEF CreateTable, writeFile, Goto, TypeOK, Threads
    <3>2. Creation(c)'
      BY <1>2, <1>4, <1>7, <2>1, <2>4, <2>5, <3>1 DEF Creation, Below
    <3> QED BY <1>2, <1>6, <1>8, <1>9, <2>3, <2>5, <3>1, <3>2 DEF Catalogued, Injective, Below, Holds
  <2>9. CASE thread[c].at = "storage"
    <3>1. thread'[c].at = "send" /\ opened' = tables /\ file' = tables
      BY <1>1, <2>1, <2>9 DEF CreateTable, openTableStorage, Goto, TypeOK, Threads
    <3>2. Creation(c)'
      BY <2>3, <2>4, <2>6, <3>1, Zenon DEF Creation, Creating, Holds
    <3> QED BY <1>2, <1>6, <1>8, <1>9, <2>3, <2>5, <3>1, <3>2 DEF Catalogued, Injective, Below, Holds
  <2> QED BY <1>12, <2>7, <2>8, <2>9
<1> QED BY <1>2, <1>10, <1>11, <1>12 DEF Creating

(* The catalog, when a connection thread acts. *)
LEMMA ServeCatalogued ==
  ASSUME TypeOK, Threading, Alone, Catalogued, NEW c \in Clients, Serve(c)
  PROVE  Catalogued'
<1>1. main # "down" /\ main' = main /\ thread[c] \in Threads
  BY ServeOthers, Zenon DEF Threading, TypeOK, Serve, Receive, Extract, CreateTable, Send, serverVars
<1>2. \A d \in Clients \ {c} : thread'[d] = thread[d] BY ServeOthers
<1>3. CASE Receive(c)
  <2>1. /\ UNCHANGED <<catalogVars, acknowledged>> /\ thread[c].at = "read"
        /\ thread'[c] = thread[c] \/ thread'[c].at = "done"
    BY <1>1, <1>3 DEF Receive, Goto, TypeOK, Threads
  <2> QED BY <1>1, <1>2, <2>1, CatalogKept DEF Executing, Creating
<1>4. CASE Extract(c)
  <2> DEFINE n == Min(Lasts(c))
             no == buffer[c][n].no
             s == Script[c][no]
             new == IF s.kind = "create" /\ ~hasTable(s.table)
                    THEN [at |-> "number", no |-> no, id |-> 0, ok |-> TRUE]
                    ELSE [at |-> "send", no |-> no, id |-> 0,
                          ok |-> s.kind # "create" /\ s.table \in DOMAIN opened]
  <2>1. /\ thread[c].at = "read" /\ thread' = [thread EXCEPT ![c] = new]
        /\ UNCHANGED <<acknowledged, catalogVars>>
    BY <1>4, Zenon DEF Extract
  <2> HIDE DEF n
  <2>2. thread'[c] = new BY <2>1, Zenon DEF TypeOK
  <2>3. UNCHANGED <<tables, next_table_id, file, opened>> BY <2>1, Zenon DEF catalogVars
  <2>4. Statement(c)' = s
    <3>1. new.no = no OBVIOUS
    <3> QED BY <2>2, <3>1, Zenon DEF Statement
  <2>5. \/ new.at = "number" /\ new.ok /\ s.kind = "create" /\ s.table \notin DOMAIN tables
        \/ new.at = "send" /\ ~(s.kind = "create" /\ new.ok)
    BY Zenon DEF hasTable
  <2> HIDE DEF new, s
  <2>6. Creation(c)' BY <2>2, <2>3, <2>4, <2>5, Zenon DEF Creation, Creating
  <2>7. ASSUME NEW d \in Clients, d # c PROVE Creation(d)'
    <3>1. Creation(d) BY <1>1 DEF Catalogued
    <3> QED BY <1>2, <2>3, <2>7, <3>1, Zenon DEF Creation, Statement
  <2>8. Settled' => Settled BY <1>2, <2>1 DEF Settled
  <2> QED BY <1>1, <2>1, <2>3, <2>6, <2>7, <2>8 DEF Catalogued, Injective, Below, Holds
<1>5. CASE CreateTable(c) BY <1>1, <1>5, CreateCatalogued
<1>6. CASE Send(c)
  <2>1. /\ thread[c].at = "send" /\ thread'[c].at = "read"
        /\ UNCHANGED <<tables, next_table_id, file, opened>>
    BY <1>1, <1>6 DEF Send, Goto, TypeOK, Threads, catalogVars
  <2>2. \A a \in acknowledged' : Holds(opened, a)
    <3>1. Creation(c) /\ \A a \in acknowledged : Holds(opened, a) BY <1>1 DEF Catalogued
    <3>2. \/ acknowledged' = acknowledged
          \/ /\ Statement(c).kind = "create" /\ thread[c].ok
             /\ acknowledged' = acknowledged \cup {<<Statement(c).table, thread[c].id>>}
      BY <1>6, Zenon DEF Send
    <3>3. Statement(c).kind = "create" /\ thread[c].ok => Holds(opened, <<Statement(c).table, thread[c].id>>)
      BY <2>1, <3>1, Zenon DEF Creation
    <3> QED BY <3>1, <3>2, <3>3, Zenon
  <2>3. ASSUME NEW d \in Clients PROVE Creation(d)'
    <3>1. CASE d = c BY <2>1, <3>1, Zenon DEF Creation, Creating
    <3>2. CASE d # c
      <4>1. Creation(d) BY <1>1 DEF Catalogued
      <4> QED BY <1>2, <2>1, <3>2, <4>1, Zenon DEF Creation, Statement
    <3> QED BY <3>1, <3>2
  <2>4. Settled' => Settled BY <1>2, <2>1 DEF Settled
  <2> QED BY <1>1, <2>1, <2>2, <2>3, <2>4 DEF Catalogued, Injective, Below, Holds
<1> QED BY <1>3, <1>4, <1>5, <1>6 DEF Serve

(* A process that ends between two steps leaves a file with every table    *)
(* that was reported.                                                      *)
LEMMA EndCatalogued ==
  ASSUME TypeOK, Threading, Catalogued, Exit \/ Crash PROVE Catalogued'
<1>1. /\ main # "down" /\ main' = "down" /\ \A c \in Clients : thread[c].at # "write"
      /\ UNCHANGED <<tables, next_table_id, file, opened, acknowledged>>
  BY Zenon DEF Exit, Crash, End, Threading, Alive, catalogVars
<1>2. \A a \in acknowledged : Holds(opened, a) BY <1>1, Zenon DEF Catalogued
<1>3. ASSUME NEW a \in acknowledged PROVE Holds(file, a)
  <2>1. CASE Settled
    <3>1. file = opened BY <1>1, <2>1 DEF Catalogued
    <3> QED BY <1>2, <3>1
  <2>2. ASSUME NEW c \in Clients, thread[c].at = "truncate" PROVE Holds(file, a)
    <3>1. file = opened BY <1>1, <2>2, Zenon DEF Catalogued, Creation
    <3> QED BY <1>2, <3>1
  <2>3. ASSUME NEW c \in Clients, thread[c].at = "storage" PROVE Holds(file, a)
    <3> DEFINE t == Statement(c).table
               id == thread[c].id
    <3>1. /\ t \notin DOMAIN opened /\ Below(opened, id) /\ id < next_table_id
          /\ file = put(opened, t, id)
      BY <1>1, <2>3, Zenon DEF Catalogued, Creation
    <3>2. id \in Nat /\ IsMap(opened) /\ next_table_id \in Nat BY DEF TypeOK, Threads
    <3>3. Injective(opened) BY DEF Catalogued
    <3> HIDE DEF t, id
    <3>4. Holds(opened, a) => Holds(file, a) BY <3>1, <3>2, <3>3, ExtendedCatalog, Zenon
    <3> QED BY <1>2, <3>4
  <2> QED BY <1>1, <2>1, <2>2, <2>3 DEF Settled
<1> QED BY <1>1, <1>3 DEF Catalogued, Injective, Below, Holds

(* A start reads the tables back from the file. *)
LEMMA StartCatalogued ==
  ASSUME TypeOK, Threading, Catalogued, Start PROVE Catalogued'
<1>1. /\ main = "down" /\ main' = "up" /\ tables' = file /\ opened' = file /\ file' = file
      /\ next_table_id' = nextAfter(file) /\ thread' = thread /\ acknowledged' = acknowledged
  BY DEF Start, loadCatalog, connVars
<1>2. Below(file, nextAfter(file)) BY NextIsAfter DEF TypeOK
<1>3. \A c \in Clients : thread[c].at \notin Executing
  BY <1>1 DEF Threading, Alive, Executing, Creating
<1>4. \A c \in Clients : Creation(c)' BY <1>1, <1>3 DEF Creation, Executing, Creating
<1>5. Injective(file) /\ \A a \in acknowledged : Holds(file, a) BY <1>1 DEF Catalogued
<1> QED BY <1>1, <1>2, <1>4, <1>5 DEF Catalogued, Injective, Below, Holds

(* Every step keeps the catalog in order. *)
LEMMA CataloguedStep ==
  ASSUME TypeOK, Threading, Streams, Alone, Catalogued, [Next]_vars PROVE Catalogued'
<1>1. ASSUME UNCHANGED <<catalogVars, acknowledged, main, thread>> PROVE Catalogued'
  BY <1>1, Zenon DEF Catalogued, Creation, Settled, Statement, Holds, Injective, Below, catalogVars
<1>2. CASE UNCHANGED vars BY <1>1, <1>2 DEF vars, serverVars, connVars
<1>3. CASE \E c \in Clients : Connect(c) \/ ClientSend(c) \/ HangUp(c)
  BY <1>1, <1>3 DEF Connect, ClientSend, HangUp, serverVars, connVars
<1>4. CASE CheckRunning \/ Timeout BY <1>1, <1>4 DEF CheckRunning, Timeout, connVars
<1>5. CASE BeginStop \/ Stop
  BY <1>5, CatalogKept, Zenon DEF BeginStop, Stop, CloseListener, JoinConnections, connVars
<1>6. CASE Accept
  <2>1. main # "down" /\ main' = main /\ UNCHANGED <<catalogVars, acknowledged>>
    BY <1>6 DEF Accept, Threading
  <2>2. ASSUME NEW d \in Clients
        PROVE  thread'[d] = thread[d] \/ (thread'[d].at = "read" /\ thread[d].at = "none")
    <3>1. d \in Queued => thread[d].at = "none" BY DEF Streams, Stream, Queued
    <3>2. thread'[d] = thread[d] \/ (d \in Queued /\ thread'[d].at = "read")
      BY <1>6 DEF Accept, NoThread, TypeOK
    <3> QED BY <3>1, <3>2
  <2> QED BY <2>1, <2>2, CatalogKept DEF Executing, Creating
<1>7. CASE \E c \in Clients : Serve(c) BY <1>7, ServeCatalogued
<1> QED BY <1>2, <1>3, <1>4, <1>5, <1>6, <1>7, EndCatalogued, StartCatalogued DEF Next

(* While nothing else runs beside a CREATE TABLE, a table whose creation   *)
(* was reported keeps the files it got, and keeps them to itself, whatever *)
(* is created after it, after every crash between two steps and after      *)
(* every restart.                                                          *)
THEOREM TablesStay == ASSUME CreatesAlone PROVE Spec => []TablesKeepTheirFiles
<1> DEFINE I == /\ TypeOK /\ Threading /\ Streams /\ AnswersInOrder
                /\ Alone /\ Catalogued
<1>1. Init => I
  <2> SUFFICES ASSUME Init PROVE I OBVIOUS
  <2>1. /\ TypeOK /\ Streams /\ AnswersInOrder BY InitType, InitStreams
  <2>2. /\ main = "down" /\ acknowledged = {} /\ opened = NoTables /\ file = NoTables
        /\ \A c \in Clients : wire[c] = <<>> /\ buffer[c] = <<>> /\ thread[c].at = "none"
    BY DEF Init, CatalogInit, NoThread
  <2>3. Threading BY DEF Init, Threading, Alive, NoThread
  <2>4. \A c \in Clients : Pending(c) = {}
    <3>1. \A k : ~Ends(<<>>, k) BY DEF Ends
    <3> QED BY <2>1, <2>2, <3>1, PendingIs DEF PendingAre, Executing, Creating
  <2>5. Alone BY <2>4 DEF Alone
  <2>6. Catalogued BY <2>2, NoTablesIsMap DEF Catalogued, Injective, Below
  <2> QED BY <2>1, <2>3, <2>5, <2>6
<1>2. I /\ [Next]_vars => I'
  <2> SUFFICES ASSUME I, [Next]_vars PROVE I' OBVIOUS
  <2>1. TypeOK' BY Typing
  <2> QED BY <2>1, ThreadingStep, StreamsStep, AloneStep, CataloguedStep
<1>3. I => TablesKeepTheirFiles
  BY DEF Catalogued, TablesKeepTheirFiles, Holds, Injective
<1> QED BY <1>1, <1>2, <1>3, PTL DEF Spec
==============================================================================
