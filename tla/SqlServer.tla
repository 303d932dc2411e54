------------------------------ MODULE SqlServer ------------------------------
(***************************************************************************)
(* SqlServer (src/src/sqlserver.cpp) with its accept thread, its thread    *)
(* per connection and stop(), the clients at the other end, and the        *)
(* process that main() runs.                                               *)
(*                                                                         *)
(* A statement travels in two parts, the second of which has the `;'.      *)
(* What a statement does to rows is the subject of Table: here it creates  *)
(* a table, in the steps of Database::createTable, or uses one.            *)
(***************************************************************************)
EXTENDS Catalog, Sequences

CONSTANTS
    Clients,
    Script,          \* the statements of each client: [kind, table]
    MaxStarts,       \* how often the process is started
    CreatesAlone     \* nothing else runs while a table is created

ASSUME ServerAssumption == MaxStarts \in Nat \ {0} /\ CreatesAlone \in BOOLEAN

VARIABLES
    main,            \* where the process is: "down", "up", or inside stop()
    starts,          \* how often it was started
    running,
    accepting,       \* the accept thread: "loop", "select" or "exit"
    client,          \* "away", "queued", "open", "gone", or "left": gone while queued
    sent,            \* the parts each client has sent
    wire,            \* the parts on their way
    buffer,          \* the parts received
    thread,          \* the connection thread: [at, no, id, ok]
    answers,         \* the responses to each client: [no, ok]
    acknowledged     \* the tables whose creation was reported: <<name, id>>

serverVars == <<main, starts, running, accepting>>
clientVars == <<client, sent, wire>>
connVars == <<buffer, thread, answers, acknowledged>>
vars == <<catalogVars, serverVars, clientVars, connVars>>

NoThread == [at |-> "none", no |-> 0, id |-> 0, ok |-> TRUE]

Statement(c) == Script[c][thread[c].no]
Alive(c) == thread[c].at \notin {"none", "done"}

(* The statements of a client that are complete and on their way, in the   *)
(* buffer, or being executed.                                              *)
Pending(c) ==
    {p.no : p \in {q \in Range(wire[c] \o buffer[c]) : q.last}}
    \cup (IF thread[c].at \in {"none", "read", "done"} THEN {} ELSE {thread[c].no})

Init ==
    /\ CatalogInit
    /\ main = "down" /\ starts = 0 /\ running = FALSE /\ accepting = "exit"
    /\ client = [c \in Clients |-> "away"]
    /\ sent = [c \in Clients |-> 0]
    /\ wire = [c \in Clients |-> <<>>]
    /\ buffer = [c \in Clients |-> <<>>]
    /\ thread = [c \in Clients |-> NoThread]
    /\ answers = [c \in Clients |-> <<>>]
    /\ acknowledged = {}

-----------------------------------------------------------------------------
(* Clients.                                                                *)

(* The listening socket queues connections until it is closed.             *)
Connect(c) ==
    /\ client[c] = "away" /\ main \in {"up", "stopping"}
    /\ client' = [client EXCEPT ![c] = "queued"]
    /\ UNCHANGED <<sent, wire, catalogVars, serverVars, connVars>>

(* The next part of the script; several may be on their way at once.       *)
ClientSend(c) ==
    LET no == (sent[c] \div 2) + 1
    IN /\ client[c] \in {"queued", "open"}
       /\ no <= Len(Script[c])
       /\ CreatesAlone /\ sent[c] % 2 = 1 =>
             \A d \in Clients \ {c} : \A k \in Pending(d) :
                 Script[c][no].kind # "create" /\ Script[d][k].kind # "create"
       /\ sent' = [sent EXCEPT ![c] = @ + 1]
       /\ wire' = [wire EXCEPT ![c] = Append(@, [no |-> no, last |-> sent[c] % 2 = 1])]
       /\ UNCHANGED <<client, catalogVars, serverVars, connVars>>

HangUp(c) ==
    /\ client[c] \in {"queued", "open"}
    /\ client' = [client EXCEPT ![c] = IF @ = "queued" THEN "left" ELSE "gone"]
    /\ UNCHANGED <<sent, wire, catalogVars, serverVars, connVars>>

-----------------------------------------------------------------------------
(* handleConnection(), after the test for a complete statement.            *)

Lasts(c) == {i \in DOMAIN buffer[c] : buffer[c][i].last}

Goto(c, at) == thread' = [thread EXCEPT ![c].at = at]

(* Mutant: a statement is noticed only at the end of the buffer. *)
mustReceiveMore(c) == Lasts(c) \cap {Len(buffer[c])} = {}

mustReceive(c) == Lasts(c) = {}

(* recv(): some of what has arrived, or nothing once the client has gone.  *)
Receive(c) ==
    /\ thread[c].at = "read" /\ mustReceive(c)
    /\ \/ \E n \in 1 .. Len(wire[c]) :
             /\ buffer' = [buffer EXCEPT ![c] = @ \o SubSeq(wire[c], 1, n)]
             /\ wire' = [wire EXCEPT ![c] = SubSeq(@, n + 1, Len(@))]
             /\ UNCHANGED thread
       \/ /\ client[c] = "gone"
          /\ Goto(c, "done")
          /\ UNCHANGED <<buffer, wire>>
    /\ UNCHANGED <<client, sent, answers, acknowledged, catalogVars, serverVars>>

(* Mutant: the `;' stays in the buffer. *)
eraseUpTo(b, n) == SubSeq(b, n, Len(b))

erase(b, n) == SubSeq(b, n + 1, Len(b))

(* The first statement in the buffer is taken out and looked at.           *)
Extract(c) ==
    LET n == Min(Lasts(c))
    IN /\ thread[c].at = "read" /\ ~mustReceive(c)
       /\ buffer' = [buffer EXCEPT ![c] = erase(@, n)]
       /\ LET no == buffer[c][n].no
              t == Script[c][no].table
              kind == Script[c][no].kind
          IN thread' = [thread EXCEPT ![c] =
                IF kind = "create" /\ ~hasTable(t)
                THEN [at |-> "number", no |-> no, id |-> 0, ok |-> TRUE]
                ELSE [at |-> "send", no |-> no, id |-> 0,
                      ok |-> kind # "create" /\ t \in DOMAIN opened]]
       /\ UNCHANGED <<answers, acknowledged, clientVars, catalogVars, serverVars>>

(* Database::createTable after the check: the id is read, the map and the  *)
(* counter change, the file is truncated and written, storage is opened.   *)
CreateTable(c) ==
    LET t == Statement(c).table
        id == thread[c].id
    IN /\ \/ /\ thread[c].at = "number"
             /\ thread' = [thread EXCEPT ![c].at = "enter", ![c].id = next_table_id]
             /\ UNCHANGED catalogVars
          \/ thread[c].at = "enter" /\ enterTable(t, id) /\ Goto(c, "truncate")
          \/ thread[c].at = "truncate" /\ truncateFile /\ Goto(c, "write")
          \/ thread[c].at = "write" /\ writeFile /\ Goto(c, "storage")
          \/ thread[c].at = "storage" /\ openTableStorage(t, id) /\ Goto(c, "send")
       /\ UNCHANGED <<buffer, answers, acknowledged, clientVars, serverVars>>

(* send(); a response to a client that has gone is dropped.                *)
Send(c) ==
    /\ thread[c].at = "send"
    /\ IF client[c] = "open"
       THEN /\ answers' = [answers EXCEPT ![c] = Append(@, [no |-> thread[c].no, ok |-> thread[c].ok])]
            /\ acknowledged' = IF Statement(c).kind = "create" /\ thread[c].ok
                               THEN acknowledged \cup {<<Statement(c).table, thread[c].id>>}
                               ELSE acknowledged
       ELSE UNCHANGED <<answers, acknowledged>>
    /\ Goto(c, "read")
    /\ UNCHANGED <<buffer, clientVars, catalogVars, serverVars>>

Serve(c) == Receive(c) \/ Extract(c) \/ CreateTable(c) \/ Send(c)

-----------------------------------------------------------------------------
(* acceptLoop() and stop().                                                *)

CheckRunning ==
    /\ accepting = "loop"
    /\ accepting' = IF running THEN "select" ELSE "exit"
    /\ UNCHANGED <<main, starts, running, clientVars, connVars, catalogVars>>

(* A connection stays in the queue although its client has gone.           *)
Queued == {c \in Clients : client[c] \in {"queued", "left"}}

(* Mutant: the loop blocks in accept() until somebody connects. *)
TimeoutNever == FALSE /\ UNCHANGED vars

(* select() gives up after 200 ms.                                         *)
Timeout ==
    /\ accepting = "select" /\ Queued = {}
    /\ accepting' = "loop"
    /\ UNCHANGED <<main, starts, running, clientVars, connVars, catalogVars>>

Accept ==
    /\ accepting = "select"
    /\ \E c \in Queued :
          /\ client' = [client EXCEPT ![c] = IF @ = "queued" THEN "open" ELSE "gone"]
          /\ thread' = [thread EXCEPT ![c] = [NoThread EXCEPT !.at = "read"]]
    /\ accepting' = "loop"
    /\ UNCHANGED <<main, starts, running, sent, wire, buffer, answers, acknowledged, catalogVars>>

BeginStop ==
    /\ main = "up"
    /\ main' = "stopping" /\ running' = FALSE
    /\ UNCHANGED <<starts, accepting, clientVars, connVars, catalogVars>>

(* Mutant: the accept thread is not waited for. *)
acceptJoinedAnyway == TRUE

acceptJoined == accepting = "exit"

(* The accept thread is joined and the listening socket closed, and with   *)
(* it the connections nobody has accepted.                                 *)
CloseListener ==
    /\ main = "stopping" /\ acceptJoined
    /\ main' = "closing"
    /\ client' = [c \in Clients |-> IF c \in Queued THEN "gone" ELSE client[c]]
    /\ UNCHANGED <<starts, running, accepting, sent, wire, connVars, catalogVars>>

JoinConnections ==
    /\ main = "closing" /\ \A c \in Clients : ~Alive(c)
    /\ main' = "stopped"
    /\ UNCHANGED <<starts, running, accepting, clientVars, connVars, catalogVars>>

Stop == CloseListener \/ JoinConnections

-----------------------------------------------------------------------------
(* The process.  What ends takes its threads and connections along.        *)

End ==
    /\ main' = "down" /\ running' = FALSE /\ accepting' = "exit"
    /\ client' = [c \in Clients |-> IF client[c] = "away" THEN "away" ELSE "gone"]
    /\ wire' = [c \in Clients |-> <<>>]
    /\ buffer' = [c \in Clients |-> <<>>]
    /\ thread' = [c \in Clients |-> NoThread]
    /\ UNCHANGED <<starts, sent, answers, acknowledged, catalogVars>>

Exit == main = "stopped" /\ End

(* A crash, or a signal from a send() to a client that has gone, at any    *)
(* moment but the one in which catalog.db is empty.                        *)
Crash ==
    /\ main # "down" /\ starts < MaxStarts
    /\ \A c \in Clients : thread[c].at # "write"
    /\ End

Start ==
    /\ main = "down" /\ starts < MaxStarts
    /\ main' = "up" /\ running' = TRUE /\ accepting' = "loop"
    /\ starts' = starts + 1
    /\ loadCatalog
    /\ UNCHANGED <<clientVars, connVars>>

Next ==
    \/ \E c \in Clients : Connect(c) \/ ClientSend(c) \/ HangUp(c) \/ Serve(c)
    \/ CheckRunning \/ Timeout \/ Accept
    \/ BeginStop \/ Stop
    \/ Exit \/ Crash \/ Start

(* Threads are scheduled; while the server stops, clients hang up, as      *)
(* stop()'s comment asks of them.                                          *)
Spec ==
    /\ Init /\ [][Next]_vars
    /\ \A c \in Clients : WF_vars(Serve(c))
    /\ WF_vars(CheckRunning) /\ WF_vars(Timeout \/ Accept)
    /\ WF_vars(Stop)
    /\ \A c \in Clients : WF_vars(main # "up" /\ HangUp(c))

-----------------------------------------------------------------------------
(* Properties.                                                             *)

(* Each statement of a connection gets one response, in order, however     *)
(* statements were cut up and bunched on the way.                          *)
AnswersInOrder ==
    \A c \in Clients : \A i \in DOMAIN answers[c] : answers[c][i].no = i

(* ... and gets it without anything more being sent.                       *)
StatementsAreAnswered ==
    \A c \in Clients : \A k \in DOMAIN Script[c] :
        (client[c] = "open" /\ sent[c] >= 2 * k) ~> (client[c] = "gone" \/ Len(answers[c]) >= k)

(* When stop() has returned no thread of the server is left, so that the   *)
(* database may be destroyed.                                              *)
StopLeavesNothing ==
    main = "stopped" => accepting = "exit" /\ \A c \in Clients : ~Alive(c)

(* stop() returns once the clients hang up, though nobody connects to wake *)
(* the accept thread and whatever the connections are in the middle of.    *)
StopReturns == main = "stopping" ~> main \in {"stopped", "down"}

(* A table whose creation was reported stays, with the id and so the files *)
(* it got, alone, whatever is created after it and after every restart.    *)
TablesKeepTheirFiles ==
    main # "down" =>
        \A t \in acknowledged :
            /\ t[1] \in DOMAIN opened /\ opened[t[1]] = t[2]
            /\ \A n \in DOMAIN opened : opened[n] = t[2] => n = t[1]

=============================================================================
