-------------------------- MODULE SqlServerAnswers ---------------------------
(***************************************************************************)
(* Proofs about the connections of SqlServer, for any clients, any scripts *)
(* and any number of starts: stop() leaves no thread behind, and responses *)
(* come in the order of the statements.                                    *)
(*                                                                         *)
(* The second needs to know which parts are where: Stream(c) says that the *)
(* buffer, then the wire, hold the parts after those that were answered or *)
(* are being answered, as long as the connection is open.                  *)
(***************************************************************************)
EXTENDS SqlServer, WellFoundedInduction, TLAPS

Creating == {"number", "enter", "truncate", "write", "storage"}
Executing == Creating \cup {"send"}

(* The k-th part that a client sends. *)
Part(k) == [no |-> ((k - 1) \div 2) + 1, last |-> (k - 1) % 2 = 1]
Parts == [no : Nat, last : BOOLEAN]
Threads == [at : Executing \cup {"none", "read", "done"}, no : Nat, id : Nat, ok : BOOLEAN]

(* A map of names to ids; it has finitely many names, so its ids a bound.  *)
Below(f, id) == \A n \in DOMAIN f : f[n] < id
IsMap(f) == f \in [DOMAIN f -> Nat] /\ \E id \in Nat : Below(f, id)

TypeOK ==
  /\ IsMap(tables) /\ IsMap(file) /\ IsMap(opened) /\ next_table_id \in Nat
  /\ main \in {"down", "up", "stopping", "closing", "stopped"}
  /\ accepting \in {"loop", "select", "exit"}
  /\ client \in [Clients -> {"away", "queued", "open", "gone", "left"}]
  /\ sent \in [Clients -> Nat]
  /\ wire \in [Clients -> Seq(Parts)] /\ buffer \in [Clients -> Seq(Parts)]
  /\ thread \in [Clients -> Threads]
  /\ answers \in [Clients -> Seq([no : Nat, ok : BOOLEAN])]

-----------------------------------------------------------------------------
(* The server's threads. *)
Threading ==
  /\ main \notin {"up", "stopping"} => accepting = "exit"
  /\ main \in {"stopped", "down"} => \A c \in Clients : ~Alive(c)

-----------------------------------------------------------------------------
(* b and w are the parts after the first k, in order. *)
Follow(k, b, w) ==
  /\ \A i \in DOMAIN b : b[i] = Part(k + i)
  /\ \A i \in DOMAIN w : w[i] = Part(k + Len(b) + i)

(* The parts that were taken out of the buffer. *)
Taken(c) == 2 * (Len(answers[c]) + IF thread[c].at \in Executing THEN 1 ELSE 0)

InStep(c) ==
  /\ sent[c] = Taken(c) + Len(buffer[c]) + Len(wire[c])
  /\ thread[c].at \in Executing => thread[c].no = Len(answers[c]) + 1
  /\ Follow(Taken(c), buffer[c], wire[c])

Stream(c) ==
  /\ client[c] = "away" => wire[c] = <<>> /\ buffer[c] = <<>>
  /\ client[c] \in {"away", "queued", "left"} => thread[c].at = "none"
  /\ client[c] \in {"away", "queued", "open"} => InStep(c)

Streams == \A c \in Clients : Stream(c)

-----------------------------------------------------------------------------
(* The maps of the catalog with one more table. *)
LEMMA Extended ==
  ASSUME NEW n, NEW id \in Nat, NEW f, IsMap(f)
  PROVE  LET g == put(f, n, id) IN
         /\ IsMap(g) /\ DOMAIN g = DOMAIN f \cup {n} /\ g[n] = id
         /\ \A m \in DOMAIN f : m # n => g[m] = f[m]
<1> DEFINE g == put(f, n, id)
<1>1. /\ g \in [DOMAIN g -> Nat] /\ DOMAIN g = DOMAIN f \cup {n} /\ g[n] = id
      /\ \A m \in DOMAIN f : m # n => g[m] = f[m]
  BY DEF IsMap, put
<1>2. PICK b \in Nat : Below(f, b) BY DEF IsMap
<1>3. b + id + 1 \in Nat /\ \A m \in DOMAIN g : g[m] < b + id + 1
  <2> HIDE DEF g
  <2> QED BY <1>1, <1>2 DEF Below, IsMap
<1> QED BY <1>1, <1>3 DEF IsMap, Below

(* The empty catalog is a map. *)
LEMMA NoTablesIsMap == IsMap(NoTables) /\ DOMAIN NoTables = {}
<1>1. Below(NoTables, 0) BY DEF Below, NoTables
<1> QED BY <1>1 DEF IsMap, NoTables

(* The principle of the least element. *)
LEMMA LeastNat ==
  ASSUME NEW S, S \subseteq Nat, S # {}
  PROVE  \E m \in S : \A k \in S : m <= k
<1> DEFINE R == OpToRel(<, Nat)
<1>1. IsWellFoundedOn(R, Nat) BY NatLessThanWellFounded, Zenon
<1>2. PICK x : x \in S OBVIOUS
<1> HIDE DEF R
<1>3. PICK m \in S : \A y \in S : ~(<<y, m>> \in R) BY <1>1, <1>2, WFMin, Zenon
<1>4. \A k \in S : ~(k < m) BY <1>3, Zenon DEF R, OpToRel
<1> QED BY <1>3, <1>4

(* loadCatalog finds an id above the ids of all lines. *)
LEMMA NextIsAfter ==
  ASSUME NEW f, IsMap(f)
  PROVE  nextAfter(f) \in Nat /\ Below(f, nextAfter(f))
<1>0. PICK b \in Nat : Below(f, b) BY DEF IsMap
<1>1. CASE DOMAIN f = {}
  <2>1. f = NoTables BY <1>1 DEF NoTables, IsMap
  <2> QED BY <1>1, <2>1 DEF nextAfter, Below
<1>2. CASE DOMAIN f # {}
  <2>1. f # NoTables BY <1>2, NoTablesIsMap
  <2>2. Range(f) \subseteq Nat /\ Range(f) # {} /\ \A v \in Range(f) : v < b
    BY <1>0, <1>2 DEF Range, IsMap, Below
  <2> DEFINE S == {k \in Nat : \A v \in Range(f) : v <= k}
  <2>3. b \in S BY <2>2
  <2>4. PICK m \in S : \A k \in S : m <= k BY <2>3, LeastNat, Zenon
  <2>5. m \in Range(f)
    <3>1. SUFFICES ASSUME m \notin Range(f) PROVE FALSE OBVIOUS
    <3>2. PICK v \in Range(f) : v <= m BY <2>2, <2>4
    <3>3. \A w \in Range(f) : w <= m - 1 BY <2>2, <2>4, <3>1
    <3>4. m - 1 \in S BY <2>2, <2>4, <3>1, <3>2, <3>3
    <3> QED BY <2>4, <3>4
  <2>6. Max(Range(f)) \in Range(f) /\ \A v \in Range(f) : v <= Max(Range(f))
    BY <2>4, <2>5, Zenon DEF Max
  <2> DEFINE M == Max(Range(f))
  <2>7. nextAfter(f) = M + 1 BY <2>1 DEF nextAfter
  <2>8. M \in Nat /\ \A v \in Range(f) : v <= M BY <2>2, <2>6
  <2> HIDE DEF M
  <2>9. \A n \in DOMAIN f : f[n] \in Range(f) BY DEF Range
  <2> QED BY <2>2, <2>7, <2>8, <2>9 DEF Below
<1> QED BY <1>1, <1>2, Zenon

(* A sequence in two. *)
LEMMA Cut ==
  ASSUME NEW T, NEW s \in Seq(T), NEW n \in 1 .. Len(s)
  PROVE  LET u == SubSeq(s, 1, n)
             v == SubSeq(s, n + 1, Len(s))
         IN /\ u \in Seq(T) /\ Len(u) = n /\ \A i \in 1 .. n : u[i] = s[i]
            /\ v \in Seq(T) /\ Len(v) = Len(s) - n
            /\ \A i \in 1 .. Len(v) : v[i] = s[n + i]
OBVIOUS

(* Two sequences one after the other. *)
LEMMA Joined ==
  ASSUME NEW T, NEW s \in Seq(T), NEW t \in Seq(T)
  PROVE  LET u == s \o t
         IN /\ u \in Seq(T) /\ Len(u) = Len(s) + Len(t) /\ DOMAIN u = 1 .. Len(s) + Len(t)
            /\ \A i \in 1 .. Len(s) : u[i] = s[i]
            /\ \A i \in 1 .. Len(t) : u[Len(s) + i] = t[i]
OBVIOUS

(* The statement taken out of the buffer is the first whose end is there. *)
LEMMA FirstLast ==
  ASSUME NEW c \in Clients, TypeOK, ~mustReceive(c)
  PROVE  /\ Min(Lasts(c)) \in DOMAIN buffer[c] /\ buffer[c][Min(Lasts(c))].last
         /\ \A i \in DOMAIN buffer[c] : i < Min(Lasts(c)) => ~buffer[c][i].last
<1>1. buffer[c] \in Seq(Parts) BY DEF TypeOK
<1>2. Lasts(c) \subseteq Nat /\ Lasts(c) # {} BY <1>1 DEF mustReceive, Lasts
<1>3. PICK m \in Lasts(c) : \A k \in Lasts(c) : m <= k BY <1>2, LeastNat
<1>4. Min(Lasts(c)) \in Lasts(c) /\ \A k \in Lasts(c) : Min(Lasts(c)) <= k BY <1>3 DEF Min
<1> DEFINE n == Min(Lasts(c))
<1>5. n \in Lasts(c) /\ \A k \in Lasts(c) : n <= k BY <1>4
<1> HIDE DEF n
<1>6. n \in DOMAIN buffer[c] /\ buffer[c][n].last BY <1>5 DEF Lasts
<1>7. ASSUME NEW i \in DOMAIN buffer[c], i < n PROVE ~buffer[c][i].last
  BY <1>1, <1>5, <1>6, <1>7 DEF Lasts
<1> QED BY <1>6, <1>7 DEF n

(* The parts of a client are cut up, moved and dropped. *)
LEMMA InitType == Init => TypeOK
<1> SUFFICES ASSUME Init PROVE TypeOK OBVIOUS
<1>1. NoThread \in Threads BY DEF NoThread, Threads
<1> QED BY <1>1, NoTablesIsMap DEF Init, CatalogInit, TypeOK

(* What clients do keeps the types. *)
LEMMA ClientType ==
  ASSUME TypeOK, NEW c \in Clients, Connect(c) \/ ClientSend(c) \/ HangUp(c) PROVE TypeOK'
<1>1. CASE Connect(c) BY <1>1 DEF Connect, TypeOK, catalogVars, serverVars, connVars
<1>2. CASE HangUp(c) BY <1>2 DEF HangUp, TypeOK, catalogVars, serverVars, connVars
<1>3. CASE ClientSend(c)
  <2> DEFINE p == [no |-> (sent[c] \div 2) + 1, last |-> sent[c] % 2 = 1]
  <2>1. sent[c] \in Nat /\ wire[c] \in Seq(Parts) BY DEF TypeOK
  <2>2. p \in Parts BY <2>1 DEF Parts
  <2>3. /\ sent' = [sent EXCEPT ![c] = sent[c] + 1] /\ wire' = [wire EXCEPT ![c] = Append(wire[c], p)]
        /\ UNCHANGED <<client, catalogVars, serverVars, connVars>>
    BY <1>3 DEF ClientSend
  <2> HIDE DEF p
  <2>4. Append(wire[c], p) \in Seq(Parts) BY <2>1, <2>2
  <2> QED BY <2>1, <2>3, <2>4 DEF TypeOK, catalogVars, serverVars, connVars
<1> QED BY <1>1, <1>2, <1>3

(* What a connection thread does keeps the types. *)
LEMMA ServeType ==
  ASSUME TypeOK, NEW c \in Clients, Serve(c) PROVE TypeOK'
<1>0. /\ wire[c] \in Seq(Parts) /\ buffer[c] \in Seq(Parts) /\ thread[c] \in Threads
      /\ answers[c] \in Seq([no : Nat, ok : BOOLEAN]) /\ next_table_id \in Nat
  BY DEF TypeOK
<1>1. ASSUME NEW at \in Executing \cup {"none", "read", "done"}, Goto(c, at)
      PROVE  thread' \in [Clients -> Threads]
  BY <1>0, <1>1, Zenon DEF Goto, TypeOK, Threads
<1>2. CASE Receive(c)
  <2>1. ASSUME NEW n \in 1 .. Len(wire[c])
        PROVE  /\ buffer[c] \o SubSeq(wire[c], 1, n) \in Seq(Parts)
               /\ SubSeq(wire[c], n + 1, Len(wire[c])) \in Seq(Parts)
    BY <1>0, Cut
  <2>2. /\ wire' \in [Clients -> Seq(Parts)] /\ buffer' \in [Clients -> Seq(Parts)]
        /\ thread' \in [Clients -> Threads]
    BY <1>1, <1>2, <2>1, Zenon DEF Receive, TypeOK
  <2> QED BY <1>2, <2>2 DEF Receive, TypeOK, catalogVars, serverVars
<1>3. CASE Extract(c)
  <2> DEFINE n == Min(Lasts(c))
  <2>1. n \in DOMAIN buffer[c] BY <1>3, FirstLast, Zenon DEF Extract
  <2>2. n \in Nat /\ buffer[c][n].no \in Nat /\ erase(buffer[c], n) \in Seq(Parts)
    <3> HIDE DEF n
    <3>1. n \in 1 .. Len(buffer[c]) /\ buffer[c][n] \in Parts BY <1>0, <2>1
    <3>2. SubSeq(buffer[c], n + 1, Len(buffer[c])) \in Seq(Parts) BY <1>0, <3>1, Cut
    <3> QED BY <3>1, <3>2 DEF erase, Parts
  <2>3. /\ buffer' = [buffer EXCEPT ![c] = erase(buffer[c], n)]
        /\ \E ok \in BOOLEAN, at \in Executing :
              thread' = [thread EXCEPT ![c] = [at |-> at, no |-> buffer[c][n].no, id |-> 0, ok |-> ok]]
        /\ UNCHANGED <<answers, acknowledged, clientVars, catalogVars, serverVars>>
    BY <1>3, Zenon DEF Extract, Executing, Creating
  <2> HIDE DEF n
  <2>4. thread' \in [Clients -> Threads] BY <2>2, <2>3 DEF TypeOK, Threads
  <2> QED BY <2>2, <2>3, <2>4 DEF TypeOK, clientVars, catalogVars, serverVars
<1>4. CASE CreateTable(c)
  <2>1. thread[c].id \in Nat BY <1>0 DEF Threads
  <2>2. UNCHANGED <<buffer, answers, acknowledged, clientVars, serverVars>>
    BY <1>4 DEF CreateTable
  <2>3. thread' \in [Clients -> Threads]
    <3>1. CASE thread' = [thread EXCEPT ![c].at = "enter", ![c].id = next_table_id]
      BY <1>0, <3>1, Zenon DEF TypeOK, Threads, Executing, Creating
    <3> QED BY <1>1, <1>4, <3>1 DEF CreateTable, Executing, Creating
  <2>4. IsMap(tables') /\ IsMap(file') /\ IsMap(opened') /\ next_table_id' \in Nat
    <3>1. ASSUME NEW f, IsMap(f) PROVE IsMap(put(f, Statement(c).table, thread[c].id))
      BY <2>1, <3>1, Extended, Zenon
    <3> QED
      BY <1>4, <2>1, <3>1, NoTablesIsMap
      DEF TypeOK, CreateTable, catalogVars, enterTable, truncateFile, writeFile, openTableStorage
  <2> QED BY <2>2, <2>3, <2>4 DEF TypeOK, clientVars, serverVars
<1>5. CASE Send(c)
  <2>1. thread' \in [Clients -> Threads] BY <1>1, <1>5 DEF Send
  <2>2. answers' \in [Clients -> Seq([no : Nat, ok : BOOLEAN])]
    <3> DEFINE a == [no |-> thread[c].no, ok |-> thread[c].ok]
    <3>1. a \in [no : Nat, ok : BOOLEAN] BY <1>0 DEF Threads
    <3>2. \/ answers' = [answers EXCEPT ![c] = Append(answers[c], a)]
          \/ answers' = answers
      BY <1>5 DEF Send
    <3> HIDE DEF a
    <3>3. Append(answers[c], a) \in Seq([no : Nat, ok : BOOLEAN]) BY <1>0, <3>1
    <3> QED BY <3>2, <3>3, Zenon DEF TypeOK
  <2> QED BY <1>5, <2>1, <2>2 DEF Send, TypeOK, clientVars, catalogVars, serverVars
<1> QED BY <1>2, <1>3, <1>4, <1>5 DEF Serve

(* The process as a whole. *)
LEMMA ProcessType ==
  ASSUME TypeOK,
         CheckRunning \/ Timeout \/ Accept \/ BeginStop \/ Stop \/ Exit \/ Crash \/ Start
  PROVE  TypeOK'
<1>1. CASE Accept
  <2>1. [NoThread EXCEPT !.at = "read"] \in Threads BY Zenon DEF NoThread, Threads
  <2>2. thread' \in [Clients -> Threads] BY <1>1, <2>1, Zenon DEF Accept, TypeOK
  <2>3. client' \in [Clients -> {"away", "queued", "open", "gone", "left"}]
    BY <1>1, Zenon DEF Accept, TypeOK
  <2> QED BY <1>1, <2>2, <2>3 DEF Accept, TypeOK, catalogVars
<1>2. CASE End
  <2>1. NoThread \in Threads BY DEF NoThread, Threads
  <2> QED BY <1>2, <2>1 DEF End, TypeOK, catalogVars
<1>3. CASE Start
  <2>1. nextAfter(file) \in Nat BY NextIsAfter DEF TypeOK
  <2> QED BY <1>3, <2>1 DEF Start, loadCatalog, TypeOK, clientVars, connVars
<1>4. CASE CheckRunning \/ Timeout \/ BeginStop \/ Stop
  BY <1>4 DEF CheckRunning, Timeout, BeginStop, Stop, CloseListener, JoinConnections,
              TypeOK, clientVars, connVars, catalogVars
<1> QED BY <1>1, <1>2, <1>3, <1>4 DEF Exit, Crash

(* Every step keeps the types. *)
LEMMA Typing == ASSUME TypeOK, [Next]_vars PROVE TypeOK'
<1>1. CASE UNCHANGED vars
  BY <1>1 DEF TypeOK, vars, catalogVars, serverVars, clientVars, connVars
<1> QED BY <1>1, ClientType, ServeType, ProcessType DEF Next

-----------------------------------------------------------------------------
(* The threads. *)

(* Every step keeps what is known of the server's threads. *)
LEMMA ThreadingStep == ASSUME TypeOK, Threading, [Next]_vars PROVE Threading'
<1>1. CASE UNCHANGED vars
  BY <1>1 DEF Threading, Alive, vars, serverVars, connVars
<1>2. CASE \E c \in Clients : Connect(c) \/ ClientSend(c) \/ HangUp(c)
  BY <1>2 DEF Connect, ClientSend, HangUp, Threading, Alive, serverVars, connVars
<1>3. ASSUME NEW c \in Clients, Serve(c) PROVE Threading'
  <2>1. Alive(c) /\ UNCHANGED <<main, accepting>>
    BY <1>3, Zenon DEF Serve, Receive, Extract, CreateTable, Send, Alive, serverVars
  <2> QED BY <2>1, Zenon DEF Threading
<1>4. CASE CheckRunning \/ Timeout \/ BeginStop \/ Stop
  BY <1>4 DEF CheckRunning, Timeout, BeginStop, Stop, CloseListener, acceptJoined,
              JoinConnections, TypeOK, Threading, Alive, connVars
<1>5. CASE Accept
  BY <1>5 DEF Accept, TypeOK, Threading
<1>6. CASE Exit \/ Crash
  BY <1>6 DEF Exit, Crash, End, Threading, Alive, NoThread
<1>7. CASE Start
  BY <1>7 DEF Start, Threading
<1> QED BY <1>1, <1>2, <1>3, <1>4, <1>5, <1>6, <1>7 DEF Next

(* When stop() has returned, whatever the clients sent and whenever it was *)
(* called, neither the accept thread nor a connection thread is left.      *)
THEOREM StopJoinsAll == Spec => []StopLeavesNothing
<1>1. Init => TypeOK /\ Threading
  BY InitType DEF Init, Threading, Alive, NoThread
<1>2. TypeOK /\ Threading /\ [Next]_vars => TypeOK' /\ Threading'
  BY Typing, ThreadingStep
<1>3. Threading => StopLeavesNothing BY DEF Threading, StopLeavesNothing
<1> QED BY <1>1, <1>2, <1>3, PTL DEF Spec

-----------------------------------------------------------------------------
(* The parts of a connection. *)

(* A connection that a step leaves alone stays in step. *)
LEMMA Unmoved ==
  ASSUME NEW c \in Clients,
         sent'[c] = sent[c], wire'[c] = wire[c], buffer'[c] = buffer[c], answers'[c] = answers[c],
         \/ thread'[c] = thread[c]
         \/ thread'[c].at \notin Executing /\ thread[c].at \notin Executing
         \/ thread'[c].at \in Executing /\ thread[c].at \in Executing /\ thread'[c].no = thread[c].no,
         InStep(c)
  PROVE  InStep(c)'
BY Zenon DEF InStep, Taken

(* The number of parts taken from a connection is a number. *)
LEMMA TakenType == ASSUME TypeOK, NEW c \in Clients PROVE Taken(c) \in Nat
<1>1. Len(answers[c]) \in Nat BY DEF TypeOK
<1>2. CASE thread[c].at \in Executing BY <1>1, <1>2 DEF Taken
<1>3. CASE thread[c].at \notin Executing BY <1>1, <1>3 DEF Taken
<1> QED BY <1>2, <1>3

(* One more part on its way, with the number that follows. *)
LEMMA FollowSend ==
  ASSUME NEW T, NEW b \in Seq(T), NEW w \in Seq(T), NEW k \in Nat, NEW p, Follow(k, b, w),
         p = Part(k + Len(b) + Len(w) + 1)
  PROVE  Follow(k, b, Append(w, p)) /\ Len(Append(w, p)) = Len(w) + 1
<1> DEFINE x == Append(w, p)
<1>1. /\ DOMAIN x = 1 .. Len(w) + 1 /\ Len(x) = Len(w) + 1 /\ x[Len(w) + 1] = p
      /\ \A i \in 1 .. Len(w) : x[i] = w[i]
  OBVIOUS
<1>2. k + Len(b) + Len(w) + 1 = k + Len(b) + (Len(w) + 1) OBVIOUS
<1> HIDE DEF x
<1>3. ASSUME NEW i \in DOMAIN x PROVE x[i] = Part(k + Len(b) + i)
  <2>1. CASE i = Len(w) + 1 BY <1>1, <1>2, <2>1
  <2>2. CASE i # Len(w) + 1
    <3>1. i \in 1 .. Len(w) /\ i \in DOMAIN w BY <1>1, <2>2
    <3> QED BY <1>1, <3>1 DEF Follow
  <2> QED BY <2>1, <2>2
<1>4. Follow(k, b, x) BY <1>3 DEF Follow
<1> QED BY <1>1, <1>4 DEF x

(* Some of what is on its way gets into the buffer. *)
LEMMA FollowReceive ==
  ASSUME NEW T, NEW b \in Seq(T), NEW w \in Seq(T), NEW k \in Nat, Follow(k, b, w),
         NEW n \in 1 .. Len(w)
  PROVE  LET x == b \o SubSeq(w, 1, n)
             y == SubSeq(w, n + 1, Len(w))
         IN Follow(k, x, y) /\ Len(x) + Len(y) = Len(b) + Len(w)
<1> DEFINE u == SubSeq(w, 1, n)
           x == b \o u
           y == SubSeq(w, n + 1, Len(w))
<1>1. /\ u \in Seq(T) /\ Len(u) = n /\ \A i \in 1 .. n : u[i] = w[i]
      /\ y \in Seq(T) /\ Len(y) = Len(w) - n
      /\ \A i \in 1 .. Len(y) : y[i] = w[n + i]
  BY Cut
<1> HIDE DEF u, y
<1>2. /\ Len(x) = Len(b) + n /\ DOMAIN x = 1 .. Len(b) + n
      /\ \A i \in 1 .. Len(b) : x[i] = b[i]
      /\ \A i \in 1 .. n : x[Len(b) + i] = u[i]
  <2>1. u \in Seq(T) BY <1>1
  <2>2. /\ Len(x) = Len(b) + Len(u) /\ DOMAIN x = 1 .. Len(b) + Len(u)
        /\ \A i \in 1 .. Len(b) : x[i] = b[i]
        /\ \A i \in 1 .. Len(u) : x[Len(b) + i] = u[i]
    BY <2>1, Joined
  <2>3. Len(u) = n BY <1>1
  <2> HIDE DEF x
  <2> QED BY <2>2, <2>3
<1> HIDE DEF x
<1>3. ASSUME NEW i \in DOMAIN x PROVE x[i] = Part(k + i)
  <2>1. CASE i <= Len(b)
    <3>1. i \in 1 .. Len(b) /\ i \in DOMAIN b BY <1>2, <2>1
    <3> QED BY <1>2, <3>1 DEF Follow
  <2>2. CASE i > Len(b)
    <3> DEFINE j == i - Len(b)
    <3>1. j \in 1 .. n /\ j \in DOMAIN w /\ i = Len(b) + j /\ k + Len(b) + j = k + i BY <1>2, <2>2
    <3>2. w[j] = Part(k + Len(b) + j) BY <3>1 DEF Follow
    <3>3. x[i] = w[j] BY <1>1, <1>2, <2>2, <3>1
    <3> QED BY <3>1, <3>2, <3>3
  <2> QED BY <1>2, <2>1, <2>2
<1>4. ASSUME NEW i \in DOMAIN y PROVE y[i] = Part(k + Len(x) + i)
  <2>1. i \in 1 .. Len(y) /\ n + i \in DOMAIN w BY <1>1
  <2>2. k + Len(b) + (n + i) = k + Len(x) + i BY <1>2, <2>1
  <2>3. w[n + i] = Part(k + Len(b) + (n + i)) BY <2>1 DEF Follow
  <2> QED BY <1>1, <2>1, <2>2, <2>3, Zenon
<1>5. Follow(k, x, y) BY <1>3, <1>4 DEF Follow
<1>6. Len(x) + Len(y) = Len(b) + Len(w) BY <1>1, <1>2
<1> QED BY <1>5, <1>6, Zenon DEF x, y, u

(* The first statement in the buffer is the one after those answered. *)
LEMMA FollowExtract ==
  ASSUME NEW T, NEW b \in Seq(T), NEW w \in Seq(T), NEW a \in Nat, Follow(2 * a, b, w),
         NEW n \in DOMAIN b, b[n].last, \A i \in DOMAIN b : i < n => ~b[i].last
  PROVE  LET x == SubSeq(b, n + 1, Len(b))
         IN /\ b[n].no = a + 1
            /\ Len(x) + 2 = Len(b) /\ Follow(2 * (a + 1), x, w)
<1> DEFINE x == SubSeq(b, n + 1, Len(b))
<1>1. ~Part(2 * a + 1).last /\ Part(2 * a + 2).last /\ Part(2 * a + 2).no = a + 1
  <2>1. ~(((2 * a + 1) - 1) % 2 = 1) OBVIOUS
  <2>2. /\ (2 * a + 2) - 1 = 2 * a + 1 /\ (2 * a + 1) % 2 = 1 /\ (2 * a + 1) \div 2 = a
    OBVIOUS
  <2>3. ~Part(2 * a + 1).last BY <2>1, Zenon DEF Part
  <2>4. Part(2 * a + 2).last BY <2>2, Zenon DEF Part
  <2>5. Part(2 * a + 2).no = ((2 * a + 1) \div 2) + 1 BY <2>2 DEF Part
  <2> QED BY <2>2, <2>3, <2>4, <2>5
<1>2. \A i \in DOMAIN b : b[i] = Part(2 * a + i) BY DEF Follow
<1>3. n = 2
  <2>1. n # 1 BY <1>1, <1>2
  <2>2. n > 2 => 2 \in DOMAIN b /\ 2 < n OBVIOUS
  <2>3. ~(n > 2) BY <1>1, <1>2, <2>2
  <2> QED BY <2>1, <2>3
<1>4. /\ x \in Seq(T) /\ Len(x) = Len(b) - 2
      /\ \A i \in 1 .. Len(x) : x[i] = b[2 + i]
  <2>1. n \in 1 .. Len(b) OBVIOUS
  <2>2. x \in Seq(T) /\ Len(x) = Len(b) - n /\ \A i \in 1 .. Len(x) : x[i] = b[n + i]
    BY <2>1, Cut
  <2> HIDE DEF x
  <2> QED BY <1>3, <2>2
<1>5. b[n].no = a + 1 BY <1>1, <1>2, <1>3
<1> HIDE DEF x
<1>6. Len(x) + 2 = Len(b) BY <1>4
<1>7. ASSUME NEW i \in DOMAIN x PROVE x[i] = Part(2 * (a + 1) + i)
  <2>1. i \in 1 .. Len(x) /\ 2 + i \in DOMAIN b BY <1>4
  <2>2. 2 * a + (2 + i) = 2 * (a + 1) + i BY <2>1
  <2>3. b[2 + i] = Part(2 * a + (2 + i)) BY <1>2, <2>1
  <2> QED BY <1>4, <2>1, <2>2, <2>3
<1>8. ASSUME NEW i \in DOMAIN w PROVE w[i] = Part(2 * (a + 1) + Len(x) + i)
  <2>1. 2 * a + Len(b) + i = 2 * (a + 1) + Len(x) + i BY <1>4
  <2>2. w[i] = Part(2 * a + Len(b) + i) BY DEF Follow
  <2> QED BY <2>1, <2>2
<1>9. Follow(2 * (a + 1), x, w) BY <1>7, <1>8 DEF Follow
<1> QED BY <1>5, <1>6, <1>9 DEF x

(* A part that is sent follows those on the wire. *)
LEMMA SendInStep ==
  ASSUME TypeOK, NEW c \in Clients, ClientSend(c), InStep(c) PROVE InStep(c)'
<1>1. sent[c] \in Nat /\ wire[c] \in Seq(Parts) /\ buffer[c] \in Seq(Parts) /\ Taken(c) \in Nat
  BY TakenType DEF TypeOK
<1> DEFINE p == [no |-> (sent[c] \div 2) + 1, last |-> sent[c] % 2 = 1]
<1>2. p = Part(sent[c] + 1) BY <1>1 DEF Part
<1>3. /\ sent'[c] = sent[c] + 1 /\ wire'[c] = Append(wire[c], p)
      /\ buffer' = buffer /\ answers' = answers /\ thread' = thread
  BY DEF ClientSend, TypeOK, connVars
<1> HIDE DEF p
<1>4. sent[c] = Taken(c) + Len(buffer[c]) + Len(wire[c]) /\ Follow(Taken(c), buffer[c], wire[c])
  BY DEF InStep
<1>5. p = Part(Taken(c) + Len(buffer[c]) + Len(wire[c]) + 1) BY <1>2, <1>4
<1>6. Follow(Taken(c), buffer[c], wire'[c]) /\ Len(wire'[c]) = Len(wire[c]) + 1
  <2>1. /\ Follow(Taken(c), buffer[c], Append(wire[c], p))
        /\ Len(Append(wire[c], p)) = Len(wire[c]) + 1
    BY <1>1, <1>4, <1>5, FollowSend
  <2> QED BY <1>3, <2>1, Zenon
<1>7. Taken(c)' = Taken(c) BY <1>3 DEF Taken
<1>8. sent'[c] = Taken(c) + Len(buffer[c]) + Len(wire'[c])
  <2>1. Len(buffer[c]) \in Nat /\ Len(wire[c]) \in Nat /\ Taken(c) \in Nat BY <1>1
  <2>2. sent'[c] = Taken(c) + Len(buffer[c]) + Len(wire[c]) + 1 BY <1>3, <1>4
  <2>3. Len(wire'[c]) = Len(wire[c]) + 1 BY <1>6
  <2> QED BY <2>1, <2>2, <2>3
<1> QED BY <1>3, <1>6, <1>7, <1>8 DEF InStep

(* recv() moves parts from the wire to the end of the buffer. *)
LEMMA ReceiveInStep ==
  ASSUME TypeOK, NEW c \in Clients, Receive(c), client[c] # "gone", InStep(c) PROVE InStep(c)'
<1>1. wire[c] \in Seq(Parts) /\ buffer[c] \in Seq(Parts) /\ Taken(c) \in Nat
  BY TakenType DEF TypeOK
<1>2. PICK n \in 1 .. Len(wire[c]) :
        /\ buffer' = [buffer EXCEPT ![c] = buffer[c] \o SubSeq(wire[c], 1, n)]
        /\ wire' = [wire EXCEPT ![c] = SubSeq(wire[c], n + 1, Len(wire[c]))]
        /\ thread' = thread /\ sent' = sent /\ answers' = answers
  BY Zenon DEF Receive
<1>3. /\ buffer'[c] = buffer[c] \o SubSeq(wire[c], 1, n)
      /\ wire'[c] = SubSeq(wire[c], n + 1, Len(wire[c]))
  BY <1>2 DEF TypeOK
<1>4. Follow(Taken(c), buffer[c], wire[c]) BY DEF InStep
<1>5. /\ Follow(Taken(c), buffer'[c], wire'[c])
      /\ Len(buffer'[c]) + Len(wire'[c]) = Len(buffer[c]) + Len(wire[c])
  BY <1>1, <1>3, <1>4, FollowReceive, Zenon
<1>6. buffer'[c] \in Seq(Parts) /\ wire'[c] \in Seq(Parts) BY <1>1, <1>3, Cut, Joined
<1>7. Taken(c)' = Taken(c) BY <1>2 DEF Taken
<1>8. sent[c] = Taken(c) + Len(buffer'[c]) + Len(wire'[c])
  <2> DEFINE k == Taken(c)
             b == Len(buffer[c])
             w == Len(wire[c])
             x == Len(buffer'[c])
             y == Len(wire'[c])
  <2>1. k \in Nat /\ b \in Nat /\ w \in Nat /\ x \in Nat /\ y \in Nat BY <1>1, <1>6
  <2>2. sent[c] = k + b + w BY DEF InStep
  <2>3. x + y = b + w BY <1>5, Zenon
  <2> HIDE DEF k, b, w, x, y
  <2>4. sent[c] = k + x + y BY <2>1, <2>2, <2>3
  <2> QED BY <2>4, Zenon DEF k, x, y
<1> QED BY <1>2, <1>5, <1>7, <1>8 DEF InStep

(* What taking a statement out of the buffer does to its thread. *)
LEMMA Extracted ==
  ASSUME TypeOK, NEW c \in Clients, Extract(c)
  PROVE  \E n \in DOMAIN buffer[c] :
           /\ buffer[c][n].last /\ \A i \in DOMAIN buffer[c] : i < n => ~buffer[c][i].last
           /\ buffer' = [buffer EXCEPT ![c] = SubSeq(buffer[c], n + 1, Len(buffer[c]))]
           /\ thread[c].at = "read"
           /\ thread'[c].at \in Executing /\ thread'[c].no = buffer[c][n].no
           /\ \A d \in Clients \ {c} : thread'[d] = thread[d]
           /\ UNCHANGED <<answers, acknowledged, clientVars, catalogVars, serverVars>>
<1> DEFINE n == Min(Lasts(c))
           no == buffer[c][n].no
           new == IF Script[c][no].kind = "create" /\ ~hasTable(Script[c][no].table)
                  THEN [at |-> "number", no |-> no, id |-> 0, ok |-> TRUE]
                  ELSE [at |-> "send", no |-> no, id |-> 0,
                        ok |-> Script[c][no].kind # "create" /\ Script[c][no].table \in DOMAIN opened]
<1>1. /\ n \in DOMAIN buffer[c] /\ buffer[c][n].last
      /\ \A i \in DOMAIN buffer[c] : i < n => ~buffer[c][i].last
  BY FirstLast, Zenon DEF Extract
<1>2. /\ buffer' = [buffer EXCEPT ![c] = SubSeq(buffer[c], n + 1, Len(buffer[c]))]
      /\ thread[c].at = "read" /\ thread' = [thread EXCEPT ![c] = new]
      /\ UNCHANGED <<answers, acknowledged, clientVars, catalogVars, serverVars>>
  BY Zenon DEF Extract, erase
<1> HIDE DEF n
<1>3. new.at \in Executing /\ new.no = no BY DEF Executing, Creating
<1> HIDE DEF new
<1>4. /\ thread'[c].at \in Executing /\ thread'[c].no = buffer[c][n].no
      /\ \A d \in Clients \ {c} : thread'[d] = thread[d]
  BY <1>2, <1>3 DEF TypeOK
<1> QED BY <1>1, <1>2, <1>4, Zenon

(* A statement is taken from the front of the buffer. *)
LEMMA ExtractInStep ==
  ASSUME TypeOK, NEW c \in Clients, Extract(c), InStep(c) PROVE InStep(c)'
<1> DEFINE a == Len(answers[c])
<1>1. wire[c] \in Seq(Parts) /\ buffer[c] \in Seq(Parts) /\ a \in Nat BY DEF TypeOK
<1>2. PICK n \in DOMAIN buffer[c] :
        /\ buffer[c][n].last /\ \A i \in DOMAIN buffer[c] : i < n => ~buffer[c][i].last
        /\ buffer' = [buffer EXCEPT ![c] = SubSeq(buffer[c], n + 1, Len(buffer[c]))]
        /\ thread[c].at = "read"
        /\ thread'[c].at \in Executing /\ thread'[c].no = buffer[c][n].no
        /\ sent' = sent /\ wire' = wire /\ answers' = answers
  BY Extracted, Zenon DEF clientVars
<1>3. buffer'[c] = SubSeq(buffer[c], n + 1, Len(buffer[c])) BY <1>2 DEF TypeOK
<1>4. Taken(c) = 2 * a BY <1>1, <1>2 DEF Taken, Executing, Creating
<1>5. Taken(c)' = 2 * (a + 1) BY <1>1, <1>2 DEF Taken
<1>6. Follow(2 * a, buffer[c], wire[c]) /\ sent[c] = 2 * a + Len(buffer[c]) + Len(wire[c])
  BY <1>4 DEF InStep
<1> HIDE DEF a
<1>7. /\ buffer[c][n].no = a + 1
      /\ Len(buffer'[c]) + 2 = Len(buffer[c]) /\ Follow(2 * (a + 1), buffer'[c], wire[c])
  <2> DEFINE b == buffer[c]
             w == wire[c]
             x == SubSeq(b, n + 1, Len(b))
  <2>1. b \in Seq(Parts) /\ w \in Seq(Parts) /\ a \in Nat /\ Follow(2 * a, b, w) BY <1>1, <1>6
  <2>2. n \in DOMAIN b /\ b[n].last /\ \A i \in DOMAIN b : i < n => ~b[i].last BY <1>2
  <2> HIDE DEF b, w
  <2>3. b[n].no = a + 1 /\ Len(x) + 2 = Len(b) /\ Follow(2 * (a + 1), x, w)
    BY <2>1, <2>2, FollowExtract, SMTT(20)
  <2> QED BY <1>3, <2>3, Zenon DEF b, w
<1>8. sent[c] = 2 * (a + 1) + Len(buffer'[c]) + Len(wire[c])
  <2> DEFINE b == Len(buffer[c])
             w == Len(wire[c])
             x == Len(buffer'[c])
  <2>1. a \in Nat /\ b \in Nat /\ w \in Nat /\ x \in Nat BY <1>1, <1>2, <1>3, Cut
  <2>2. sent[c] = 2 * a + b + w BY <1>6
  <2>3. x + 2 = b BY <1>7
  <2> HIDE DEF b, w, x
  <2>4. sent[c] = 2 * (a + 1) + x + w BY <2>1, <2>2, <2>3
  <2> QED BY <2>4, Zenon DEF x, w
<1> QED BY <1>2, <1>5, <1>7, <1>8 DEF InStep, a

(* A response that is sent is the one after those sent. *)
LEMMA AnswerInStep ==
  ASSUME TypeOK, NEW c \in Clients, Send(c), client[c] = "open", InStep(c)
  PROVE  /\ InStep(c)'
         /\ Len(answers'[c]) = Len(answers[c]) + 1
         /\ answers'[c][Len(answers[c]) + 1].no = Len(answers[c]) + 1
         /\ \A i \in DOMAIN answers[c] : answers'[c][i] = answers[c][i]
         /\ \A d \in Clients \ {c} : answers'[d] = answers[d]
<1> DEFINE p == [no |-> thread[c].no, ok |-> thread[c].ok]
           a == Len(answers[c])
<1>1. answers[c] \in Seq([no : Nat, ok : BOOLEAN]) /\ a \in Nat /\ thread[c] \in Threads
  BY DEF TypeOK
<1>2. /\ answers' = [answers EXCEPT ![c] = Append(answers[c], p)]
      /\ thread[c].at = "send" /\ thread'[c].at = "read"
      /\ sent' = sent /\ wire' = wire /\ buffer' = buffer
  BY <1>1 DEF Send, Goto, TypeOK, Threads, clientVars
<1>3. p.no = a + 1 BY <1>2 DEF InStep, Executing
<1> HIDE DEF p
<1>4. answers'[c] = Append(answers[c], p) /\ \A d \in Clients \ {c} : answers'[d] = answers[d]
  BY <1>2 DEF TypeOK
<1>5. /\ Len(answers'[c]) = a + 1 /\ answers'[c][a + 1] = p
      /\ \A i \in DOMAIN answers[c] : answers'[c][i] = answers[c][i]
  BY <1>1, <1>4
<1>6. Taken(c) = 2 * (a + 1) BY <1>2 DEF Taken, Executing
<1>7. Taken(c)' = 2 * (a + 1) BY <1>1, <1>2, <1>5 DEF Taken, Executing, Creating
<1>8. thread'[c].at \notin Executing BY <1>2 DEF Executing, Creating
<1>9. InStep(c)' BY <1>2, <1>6, <1>7, <1>8, Zenon DEF InStep
<1> QED BY <1>3, <1>4, <1>5, <1>9

(* A step that leaves a connection alone leaves its stream alone. *)
LEMMA Kept ==
  ASSUME NEW c \in Clients, Stream(c), client'[c] = client[c],
         sent'[c] = sent[c], wire'[c] = wire[c], buffer'[c] = buffer[c], answers'[c] = answers[c],
         thread'[c] = thread[c]
  PROVE  Stream(c)'
BY Unmoved DEF Stream

(* The streams, when a client acts. *)
LEMMA ClientStream ==
  ASSUME TypeOK, Streams, NEW c \in Clients, Connect(c) \/ ClientSend(c) \/ HangUp(c)
  PROVE  Streams' /\ answers' = answers
<1>0. Stream(c) BY DEF Streams
<1>1. /\ \A d \in Clients \ {c} : client'[d] = client[d] /\ sent'[d] = sent[d] /\ wire'[d] = wire[d]
      /\ buffer' = buffer /\ answers' = answers /\ thread' = thread
  BY DEF Connect, ClientSend, HangUp, TypeOK, connVars
<1>2. \A d \in Clients \ {c} : Stream(d)' BY <1>1, Kept DEF Streams
<1>3. Stream(c)'
  <2>1. CASE ClientSend(c)
    <3>1. client' = client /\ client[c] \in {"queued", "open"} /\ thread' = thread
      BY <2>1, Zenon DEF ClientSend, connVars
    <3>2. InStep(c)' BY <1>0, <2>1, <3>1, SendInStep DEF Stream
    <3> QED BY <1>0, <3>1, <3>2 DEF Stream
  <2>2. CASE Connect(c) \/ HangUp(c)
    <3>1. sent' = sent /\ wire' = wire BY <2>2 DEF Connect, HangUp
    <3>2. InStep(c) => InStep(c)' BY <1>1, <3>1, Unmoved
    <3>3. \/ client[c] = "away" /\ client'[c] = "queued"
          \/ client[c] = "queued" /\ client'[c] = "left"
          \/ client[c] = "open" /\ client'[c] = "gone"
      BY <2>2 DEF Connect, HangUp, TypeOK
    <3> QED BY <1>0, <1>1, <3>2, <3>3 DEF Stream
  <2> QED BY <2>1, <2>2
<1> QED BY <1>1, <1>2, <1>3 DEF Streams

(* The other connections while one is served. *)
LEMMA ServeOthers ==
  ASSUME TypeOK, NEW c \in Clients, Serve(c)
  PROVE  /\ client' = client /\ sent' = sent /\ Alive(c)
         /\ \A d \in Clients \ {c} : /\ wire'[d] = wire[d] /\ buffer'[d] = buffer[d]
                                     /\ answers'[d] = answers[d] /\ thread'[d] = thread[d]
<1>1. CASE Receive(c) BY <1>1 DEF Receive, Goto, Alive, TypeOK
<1>2. CASE Extract(c) BY <1>2, Extracted DEF Alive, TypeOK, clientVars
<1>3. CASE CreateTable(c) BY <1>3 DEF CreateTable, Goto, Alive, TypeOK, clientVars
<1>4. CASE Send(c) BY <1>4 DEF Send, Goto, Alive, TypeOK, clientVars
<1> QED BY <1>1, <1>2, <1>3, <1>4 DEF Serve

(* The thread of a statement that creates a table. *)
LEMMA Created ==
  ASSUME TypeOK, NEW c \in Clients, CreateTable(c)
  PROVE  /\ thread[c].at \in Creating /\ thread'[c].at \in Executing
         /\ thread'[c].no = thread[c].no /\ thread'[c].ok = thread[c].ok
         /\ wire' = wire /\ buffer' = buffer /\ answers' = answers /\ acknowledged' = acknowledged
         /\ serverVars' = serverVars
<1>1. thread[c] \in Threads BY DEF TypeOK
<1>2. /\ thread[c].at \in Creating
      /\ wire' = wire /\ buffer' = buffer /\ answers' = answers /\ acknowledged' = acknowledged
      /\ serverVars' = serverVars
  BY DEF CreateTable, Creating, clientVars
<1>3. \/ thread' = [thread EXCEPT ![c].at = "enter", ![c].id = next_table_id]
      \/ \E at \in Executing : thread' = [thread EXCEPT ![c].at = at]
  BY DEF CreateTable, Goto, Executing, Creating
<1> QED BY <1>1, <1>2, <1>3 DEF TypeOK, Threads, Executing, Creating

(* The streams, when a connection thread acts. *)
LEMMA ServeStream ==
  ASSUME TypeOK, Streams, AnswersInOrder, NEW c \in Clients, Serve(c)
  PROVE  Streams' /\ AnswersInOrder'
<1>0. Stream(c) /\ client[c] \in {"open", "gone"}
  BY ServeOthers DEF Streams, Stream, Alive, TypeOK
<1>1. /\ client' = client /\ sent' = sent
      /\ \A d \in Clients \ {c} : /\ wire'[d] = wire[d] /\ buffer'[d] = buffer[d]
                                  /\ answers'[d] = answers[d] /\ thread'[d] = thread[d]
  BY ServeOthers
<1>2. \A d \in Clients \ {c} : Stream(d)' BY <1>1, Kept DEF Streams
<1>3. CASE client[c] = "gone"
  <2>1. answers' = answers
    BY <1>3, Extracted, Created DEF Serve, Receive, Send
  <2>2. Stream(c)' BY <1>1, <1>3 DEF Stream
  <2> QED BY <1>2, <2>1, <2>2 DEF Streams, AnswersInOrder
<1>4. CASE client[c] = "open" /\ ~Send(c)
  <2>1. InStep(c) BY <1>0, <1>4 DEF Stream
  <2>2. InStep(c)' /\ answers' = answers
    <3>1. CASE Receive(c) BY <1>4, <2>1, <3>1, ReceiveInStep DEF Receive
    <3>2. CASE Extract(c)
      <4>1. answers' = answers BY <3>2, Zenon DEF Extract
      <4> QED BY <2>1, <3>2, <4>1, ExtractInStep
    <3>3. CASE CreateTable(c)
      BY <1>1, <2>1, <3>3, Created, Unmoved DEF Executing
    <3> QED BY <1>4, <3>1, <3>2, <3>3 DEF Serve
  <2>3. Stream(c)' BY <1>1, <1>4, <2>2 DEF Stream
  <2> QED BY <1>2, <2>2, <2>3 DEF Streams, AnswersInOrder
<1>5. CASE client[c] = "open" /\ Send(c)
  <2>1. InStep(c) BY <1>0, <1>5 DEF Stream
  <2>2. /\ InStep(c)' /\ Len(answers'[c]) = Len(answers[c]) + 1
        /\ answers'[c][Len(answers[c]) + 1].no = Len(answers[c]) + 1
        /\ \A i \in DOMAIN answers[c] : answers'[c][i] = answers[c][i]
    BY <1>5, <2>1, AnswerInStep
  <2>3. Stream(c)' BY <1>1, <1>5, <2>2 DEF Stream
  <2>4. ASSUME NEW i \in DOMAIN answers'[c] PROVE answers'[c][i].no = i
    <3>1. /\ answers[c] \in Seq([no : Nat, ok : BOOLEAN])
          /\ answers'[c] \in Seq([no : Nat, ok : BOOLEAN])
      BY ServeType DEF TypeOK
    <3>2. i \in DOMAIN answers[c] \/ i = Len(answers[c]) + 1 BY <2>2, <3>1
    <3> QED BY <2>2, <3>2 DEF AnswersInOrder
  <2> QED BY <1>1, <1>2, <2>3, <2>4 DEF Streams, AnswersInOrder
<1> QED BY <1>0, <1>3, <1>4, <1>5

(* The streams, when the main or the accepting thread acts. *)
LEMMA ProcessStream ==
  ASSUME TypeOK, Streams,
         CheckRunning \/ Timeout \/ Accept \/ BeginStop \/ Stop \/ Exit \/ Crash \/ Start
  PROVE  Streams' /\ answers' = answers
<1>1. CASE CheckRunning \/ Timeout \/ BeginStop \/ JoinConnections \/ Start
  <2>1. UNCHANGED <<client, sent, wire, buffer, thread, answers>>
    BY <1>1 DEF CheckRunning, Timeout, BeginStop, JoinConnections, Start, clientVars, connVars
  <2> QED BY <2>1, Kept DEF Streams
<1>2. CASE Accept
  <2>1. PICK c \in Queued :
          /\ client' = [client EXCEPT ![c] = IF client[c] = "queued" THEN "open" ELSE "gone"]
          /\ thread' = [thread EXCEPT ![c] = [NoThread EXCEPT !.at = "read"]]
          /\ UNCHANGED <<sent, wire, buffer, answers>>
    BY <1>2, Zenon DEF Accept
  <2>2. c \in Clients /\ client[c] \in {"queued", "left"} BY <2>1 DEF Queued
  <2>3. thread'[c].at = "read" BY <2>1, <2>2 DEF NoThread, TypeOK
  <2>4. \A d \in Clients \ {c} : Stream(d)' BY <2>1, Kept DEF Streams, TypeOK
  <2>5. Stream(c) BY <2>2 DEF Streams
  <2>6. /\ client[c] = "queued" => client'[c] = "open"
        /\ client[c] = "left" => client'[c] = "gone"
    BY <2>1, <2>2 DEF TypeOK
  <2>7. InStep(c) => InStep(c)'
    BY <2>1, <2>2, <2>3, <2>5, Unmoved DEF Stream, Executing, Creating
  <2>8. Stream(c)' BY <2>2, <2>5, <2>6, <2>7 DEF Stream
  <2> QED BY <2>1, <2>4, <2>8 DEF Streams
<1>3. CASE CloseListener
  <2>1. /\ UNCHANGED <<sent, wire, buffer, thread, answers>>
        /\ \A c \in Clients : client'[c] = client[c] \/ client'[c] = "gone"
    BY <1>3 DEF CloseListener, connVars
  <2>2. ASSUME NEW c \in Clients PROVE Stream(c)'
    <3>1. CASE client'[c] = client[c] BY <2>1, <3>1, Kept DEF Streams
    <3>2. CASE client'[c] = "gone" BY <3>2 DEF Stream
    <3> QED BY <2>1, <3>1, <3>2
  <2> QED BY <2>1, <2>2 DEF Streams
<1>4. CASE End
  <2>1. sent' = sent /\ answers' = answers BY <1>4 DEF End
  <2>2. ASSUME NEW c \in Clients PROVE Stream(c)'
    <3>1. /\ wire'[c] = <<>> /\ buffer'[c] = <<>> /\ thread'[c].at = "none"
          /\ client'[c] = IF client[c] = "away" THEN "away" ELSE "gone"
      BY <1>4 DEF End, NoThread
    <3>2. CASE client[c] = "away"
      <4>1. Stream(c) /\ wire[c] = <<>> /\ buffer[c] = <<>> /\ thread[c].at = "none" /\ InStep(c)
        BY <3>2 DEF Streams, Stream
      <4>2. InStep(c)' BY <2>1, <3>1, <4>1, Unmoved DEF Executing, Creating
      <4> QED BY <3>1, <3>2, <4>2 DEF Stream
    <3>3. CASE client[c] # "away" BY <3>1, <3>3 DEF Stream
    <3> QED BY <3>2, <3>3
  <2> QED BY <2>1, <2>2 DEF Streams
<1> QED BY <1>1, <1>2, <1>3, <1>4 DEF Stop, Exit, Crash

(* At first every connection is empty. *)
LEMMA InitStreams == Init => Streams /\ AnswersInOrder
<1> SUFFICES ASSUME Init PROVE Streams /\ AnswersInOrder OBVIOUS
<1>1. ASSUME NEW c \in Clients PROVE Stream(c) /\ DOMAIN answers[c] = {}
  <2>1. /\ sent[c] = 0 /\ wire[c] = <<>> /\ buffer[c] = <<>> /\ answers[c] = <<>>
        /\ thread[c].at = "none"
    BY DEF Init, NoThread
  <2>2. Taken(c) = 0 BY <2>1 DEF Taken, Executing, Creating
  <2>3. Follow(0, <<>>, <<>>) BY DEF Follow
  <2>4. InStep(c) BY <2>1, <2>2, <2>3 DEF InStep, Executing, Creating
  <2> QED BY <2>1, <2>4 DEF Stream
<1> QED BY <1>1 DEF Streams, AnswersInOrder

(* Every step keeps the streams and the order of the answers. *)
LEMMA StreamsStep ==
  ASSUME TypeOK, Streams, AnswersInOrder, [Next]_vars PROVE Streams' /\ AnswersInOrder'
<1>1. CASE UNCHANGED vars
  <2>1. UNCHANGED <<client, sent, wire, buffer, thread, answers>>
    BY <1>1 DEF vars, clientVars, connVars
  <2> QED BY <2>1, Kept DEF Streams, AnswersInOrder
<1>2. CASE \E c \in Clients : Serve(c) BY <1>2, ServeStream
<1>3. CASE Next /\ ~ \E c \in Clients : Serve(c)
  <2>1. Streams' /\ answers' = answers BY <1>3, ClientStream, ProcessStream DEF Next
  <2> QED BY <2>1 DEF AnswersInOrder
<1> QED BY <1>1, <1>2, <1>3

(* Whatever the clients send, in however many pieces and with however many *)
(* statements on their way at once, the i-th response on a connection is   *)
(* the response to its i-th statement.                                     *)
THEOREM AnswersFollowStatements == Spec => []AnswersInOrder
<1>1. Init => TypeOK /\ Streams /\ AnswersInOrder BY InitType, InitStreams
<1>2. TypeOK /\ Streams /\ AnswersInOrder /\ [Next]_vars => (TypeOK /\ Streams /\ AnswersInOrder)'
  BY Typing, StreamsStep
<1> QED BY <1>1, <1>2, PTL DEF Spec
==============================================================================
