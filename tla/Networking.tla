----------------------------- MODULE Networking -----------------------------
(***************************************************************************)
(* The TCP server and client: ClientSession and DatabaseConnectorImpl on    *)
(* one side, Acceptor, ServerSession, ServerBase and DatabaseServerImpl on  *)
(* the other.  Every request has a connection of its own, so a client       *)
(* session stands for its connection too.                                   *)
(*                                                                         *)
(* A step is one handler of the io_service, with the asynchronous operation *)
(* it starts: asio tries a send or a write at once, so the bytes that the   *)
(* socket takes leave in the same step.  The database behind the server is  *)
(* the map KVStore that the storage engine implements, with what an open of *)
(* it needs to know of log and segments, for every start opens it again.    *)
(* Its directory is new, and no client uses key 0, the one that the replay  *)
(* of an empty log makes up.                                                *)
(*                                                                         *)
(* Sizes are in units: one for the content length, one for the fixed part   *)
(* of the content, Size[v] for the value.                                   *)
(***************************************************************************)
EXTENDS Integers, FiniteSets

CONSTANTS
  Clients,       \* calls of DatabaseConnector::execute
  Keys, Values,
  Missing,       \* no value is stored
  Empty,         \* the empty string of requests and responses without a value
  Garbage,       \* bytes nobody meant to send
  Size,          \* units of a value
  Requests,      \* bound: the requests that each client may send
  ClientBuffer,  \* units that the socket of a client takes at once
  ServerBuffer,  \* units that the socket of a server session takes at once
  NumThreads,    \* threads that start makes to run the io_service of the server
  MaxFaults,     \* bound: failures of the network and of start
  MaxStops       \* bound: calls of stop by the user

RequestTypes == {"Get", "Put", "Delete", "Other"}
Statuses     == {"Ok", "NotFound", "InvalidRequestType", "UnknownError"}

Request  == [type : RequestTypes, key : Keys, value : Values \cup {Empty}]
Response == [status : Statuses, value : Values \cup {Empty, Garbage}]

ASSUME NetworkAssumption ==
  /\ Keys # {}
  /\ Size \in [Values \cup {Empty} -> Nat]
  /\ Requests \in [Clients -> SUBSET Request]
  /\ ClientBuffer \in Nat /\ ClientBuffer >= 2
  /\ ServerBuffer \in Nat /\ ServerBuffer >= 2
  /\ NumThreads \in Nat \ {0}
  /\ MaxFaults \in Nat /\ MaxStops \in Nat

VARIABLES
  store,      \* the database: what its memtable and segments hold for each key
  writes,     \* its puts and removes
  saved,      \* what its segments alone may hold
  logged,     \* the keys with a row in its log
  opens,      \* calls of Database::open
  connector,  \* the DatabaseConnector: "up" or "gone"
  client,     \* each client session: its handler to come, its request, units to read
  promise,    \* m_promise of each client session
  link,       \* the connection
  toServer,   \* units sent and not read yet, in either direction
  toClient,
  session,    \* the server session of each connection
  server,     \* where start, stop and the destructor are
  threads,    \* m_threads: "none", "joinable" or "joined"
  waiter,     \* a thread of the user is in wait
  serviceStopped, \* m_service.stop was called
  accepting,  \* an async_accept is pending
  isStopped,  \* m_isStopped
  destroying, \* the destructor, and not the user, called stop
  faults,     \* number of failures
  stops,      \* number of calls of stop by the user
  \* history
  seen,       \* the values that the key of a request had since execute
  applied,    \* how often a request changed the database
  kv          \* the value of each key after the writes

dbVars     == <<store, writes, saved, logged, opens>>
clientVars == <<connector, client, promise>>
wireVars   == <<link, toServer, toClient>>
lifeVars   == <<server, threads, waiter, serviceStopped, isStopped, destroying, stops>>
serverVars == <<lifeVars, accepting>>
history    == <<seen, applied, kv>>

vars == <<dbVars, clientVars, wireVars, session, serverVars, faults, history>>

DB == INSTANCE KVStore

-----------------------------------------------------------------------------

Least(a, b) == IF a < b THEN a ELSE b

ContentLength(message) == 1 + (IF message.value = Garbage THEN 0 ELSE Size[message.value])

NoRequest  == [type |-> "Other", key |-> CHOOSE k \in Keys : TRUE, value |-> Empty]
NoResponse == [status |-> "UnknownError", value |-> Empty]

Unset == [kind |-> "unset", response |-> NoResponse]
Failed(kind) == [kind |-> kind, response |-> NoResponse]

ClientPhases  == {"new", "resolve", "connect", "send", "length", "body", "end"}
SessionPhases == {"none", "queued", "length", "body", "handle", "write", "end"}
ServerPhases  == {"constructed", "failed", "running", "stopping", "joining", "stopped", "gone", "crashed"}

ClientSession == [pc : ClientPhases, req : Request, need : Nat]

ServerSession ==
  [pc : SessionPhases, need : Nat, left : Nat, inWait : BOOLEAN, response : Response, spoiled : BOOLEAN]

Outcome == [kind : {"unset", "answer", "error", "broken", "terminate"}, response : Response]

LinkStates == {"none", "open", "clientClosed", "serverClosed", "reset"}

Waiting == {"resolve", "connect", "send", "length", "body"}

NewSession == [pc |-> "none", need |-> 0, left |-> 0, inWait |-> FALSE,
               response |-> NoResponse, spoiled |-> FALSE]

\* A length and a message on the wire.
Units(message) == 1 + ContentLength(message)

\* A promise can be set once: setting it again throws in a handler, which ends
\* the client's process.
SetPromise(c, outcome) ==
  promise' = [promise EXCEPT ![c] = IF @ = Unset THEN outcome ELSE Failed("terminate")]

-----------------------------------------------------------------------------
(* The client                                                              *)

\* execute and ClientSession::run.
Execute(c) ==
  /\ connector = "up"
  /\ client[c].pc = "new"
  /\ \E req \in Requests[c] :
       /\ client' = [client EXCEPT ![c] = [pc |-> "resolve", req |-> req, need |-> 0]]
       /\ seen' = [seen EXCEPT ![c] = {store[req.key]}]
  /\ UNCHANGED <<dbVars, connector, promise, wireVars, session, serverVars, faults, applied, kv>>

OnResolve(c) ==
  /\ client[c].pc = "resolve"
  /\ client' = [client EXCEPT ![c].pc = "connect"]
  /\ UNCHANGED <<dbVars, connector, promise, wireVars, session, serverVars, faults, history>>

\* Mutant of OnConnect: the request is sent twice.
OnConnectTwice(c) ==
  /\ client[c].pc = "connect"
  /\ server \notin {"gone", "crashed"}
  /\ client' = [client EXCEPT ![c].pc = "send"]
  /\ link' = [link EXCEPT ![c] = "open"]
  /\ session' = [session EXCEPT ![c].pc = "queued"]
  /\ toServer' = [toServer EXCEPT ![c] = 2 * Units(client[c].req)]
  /\ UNCHANGED <<dbVars, connector, promise, toClient, serverVars, faults, history>>

\* The listening socket exists until the server is destroyed; the kernel accepts
\* the connection before the server does.  async_send sends what the socket takes.
OnConnect(c) ==
  /\ client[c].pc = "connect"
  /\ server \notin {"gone", "crashed"}
  /\ client' = [client EXCEPT ![c].pc = "send"]
  /\ link' = [link EXCEPT ![c] = "open"]
  /\ session' = [session EXCEPT ![c].pc = "queued"]
  /\ toServer' = [toServer EXCEPT ![c] = Least(Units(client[c].req), ClientBuffer)]
  /\ UNCHANGED <<dbVars, connector, promise, toClient, serverVars, faults, history>>

\* onSend does not look at the number of bytes that were sent.
OnSend(c) ==
  /\ client[c].pc = "send"
  /\ link[c] # "reset"
  /\ client' = [client EXCEPT ![c].pc = "length", ![c].need = 1]
  /\ UNCHANGED <<dbVars, connector, promise, wireVars, session, serverVars, faults, history>>

\* The session ends and its socket is closed.
ClientEnds(c, outcome) ==
  /\ client' = [client EXCEPT ![c].pc = "end", ![c].need = 0]
  /\ SetPromise(c, outcome)
  /\ link' = [link EXCEPT ![c] = IF @ = "open" THEN "clientClosed" ELSE @]

\* The response as deserialize finds it in the bytes that came.
Received(c) ==
  IF session[c].spoiled THEN [session[c].response EXCEPT !.value = Garbage] ELSE session[c].response

\* One turn of async_read; the last one runs onContentLengthReceive or onReceive.
ClientReceive(c) ==
  LET n == Least(client[c].need, toClient[c]) IN
  /\ client[c].pc \in {"length", "body"}
  /\ link[c] # "reset"
  /\ n > 0
  /\ toClient' = [toClient EXCEPT ![c] = @ - n]
  /\ IF n < client[c].need
     THEN /\ client' = [client EXCEPT ![c].need = @ - n]
          /\ UNCHANGED <<promise, link>>
     ELSE IF client[c].pc = "length"
     THEN /\ client' = [client EXCEPT ![c].pc = "body", ![c].need = ContentLength(session[c].response)]
          /\ UNCHANGED <<promise, link>>
     ELSE ClientEnds(c, [kind |-> "answer", response |-> Received(c)])
  /\ UNCHANGED <<dbVars, connector, toServer, session, serverVars, faults, history>>

\* Mutant of OnError: the handler goes on after onError.
OnErrorGoesOn(c) ==
  /\ client[c].pc \in {"resolve", "connect"} /\ faults < MaxFaults
  /\ faults' = faults + 1
  /\ SetPromise(c, Failed("error"))
  /\ client' = [client EXCEPT ![c].pc = "connect"]
  /\ UNCHANGED <<dbVars, connector, wireVars, session, serverVars, history>>

\* Mutant of OnError: the end of the stream is no error.
OnErrorButEof(c) ==
  /\ client[c].pc \in {"connect", "send", "length", "body"}
  /\ server \in {"gone", "crashed"} /\ link[c] \in {"none", "reset"}
  /\ ClientEnds(c, Failed("error"))
  /\ UNCHANGED <<dbVars, connector, toServer, toClient, session, serverVars, faults, history>>

\* A handler is called with an error: the name is not resolved or the connection
\* not made, by a fault or because nobody listens; the connection is reset, or
\* closed before all is read.
OnError(c) ==
  /\ \/ /\ client[c].pc \in {"resolve", "connect"}
        /\ faults < MaxFaults
        /\ faults' = faults + 1
     \/ /\ client[c].pc = "connect"
        /\ server \in {"gone", "crashed"}
        /\ UNCHANGED faults
     \/ /\ client[c].pc \in {"send", "length", "body"}
        /\ link[c] = "reset" \/ (link[c] = "serverClosed" /\ client[c].pc # "send" /\ toClient[c] = 0)
        /\ UNCHANGED faults
  /\ ClientEnds(c, Failed("error"))
  /\ UNCHANGED <<dbVars, connector, toServer, toClient, session, serverVars, history>>

\* ~DatabaseConnectorImpl: the io_service stops and its pending handlers are
\* destroyed with their sessions, which breaks the promises not kept yet.
DestroyConnector ==
  /\ connector = "up"
  /\ connector' = "gone"
  /\ client' = [c \in Clients |-> IF client[c].pc \in Waiting
                                  THEN [client[c] EXCEPT !.pc = "end", !.need = 0] ELSE client[c]]
  /\ promise' = [c \in Clients |-> IF client[c].pc \in Waiting THEN Failed("broken") ELSE promise[c]]
  /\ link' = [c \in Clients |-> IF client[c].pc \in Waiting /\ link[c] = "open"
                                THEN "clientClosed" ELSE link[c]]
  /\ UNCHANGED <<dbVars, toServer, toClient, session, serverVars, faults, history>>

-----------------------------------------------------------------------------
(* Server sessions                                                         *)

\* Calls of StorageEngine::handle, by the threads of start or by the one in wait.
Busy(byWaiter) == {c \in Clients : session[c].pc = "handle" /\ session[c].inWait = byWaiter}

\* A thread of either kind is there to run a handler.
FreeThread(byWaiter) ==
  /\ ~serviceStopped
  /\ IF byWaiter THEN waiter /\ Busy(TRUE) = {}
     ELSE threads = "joinable" /\ Cardinality(Busy(FALSE)) < NumThreads

ThreadFree == \E byWaiter \in BOOLEAN : FreeThread(byWaiter)

\* Acceptor::onAccept: a new session, and the next accept.  (An accept that fails
\* is repeated and changes nothing.)
OnAccept(c) ==
  /\ ThreadFree
  /\ accepting
  /\ session[c].pc = "queued"
  /\ session' = [session EXCEPT ![c].pc = "length", ![c].need = 1]
  /\ accepting' = ~isStopped
  /\ UNCHANGED <<dbVars, clientVars, wireVars, lifeVars, faults, history>>

\* One turn of async_read; the last one runs onContentLengthReceived, or
\* onRequestReceived up to the call of handle.
ServerReceive(c) ==
  LET n == Least(session[c].need, toServer[c]) IN
  /\ ThreadFree
  /\ session[c].pc \in {"length", "body"}
  /\ link[c] # "reset"
  /\ n > 0
  /\ toServer' = [toServer EXCEPT ![c] = @ - n]
  /\ IF n < session[c].need THEN session' = [session EXCEPT ![c].need = @ - n]
     ELSE IF session[c].pc = "length"
     THEN session' = [session EXCEPT ![c].pc = "body", ![c].need = ContentLength(client[c].req)]
     ELSE \E byWaiter \in BOOLEAN :
            /\ FreeThread(byWaiter)
            /\ session' = [session EXCEPT ![c].pc = "handle", ![c].need = 0, ![c].inWait = byWaiter]
  /\ UNCHANGED <<dbVars, clientVars, link, toClient, serverVars, faults, history>>

\* The rest of onRequestReceived: async_write sends what the socket takes.
Respond(c, response) ==
  LET n == Least(Units(response), ServerBuffer) IN
  /\ session' = [session EXCEPT ![c].pc = "write", ![c].inWait = FALSE, ![c].response = response,
                                ![c].left = Units(response) - n]
  /\ toClient' = [toClient EXCEPT ![c] = n]
  /\ UNCHANGED <<clientVars, link, toServer, serverVars, faults>>

\* The log and the history after a write of key k.
Changed(c, k, x) ==
  /\ logged' = logged \cup {k}
  /\ UNCHANGED opens
  /\ kv' = [kv EXCEPT ![k] = x]
  /\ seen' = [d \in Clients |-> IF client[d].pc \in Waiting /\ client[d].req.key = k
                                THEN seen[d] \cup {x} ELSE seen[d]]
  /\ applied' = [applied EXCEPT ![c] = @ + 1]

HandleGet(c) ==
  LET x == store[client[c].req.key] IN
  /\ session[c].pc = "handle"
  /\ client[c].req.type = "Get"
  /\ Respond(c, IF x = Missing THEN [status |-> "NotFound", value |-> Empty]
                ELSE [status |-> "Ok", value |-> x])
  /\ UNCHANGED <<dbVars, history>>

\* Mutant of HandlePut: the request is answered and not executed.
HandlePutLost(c) ==
  /\ session[c].pc = "handle"
  /\ client[c].req.type = "Put"
  /\ Respond(c, [status |-> "Ok", value |-> Empty])
  /\ UNCHANGED <<dbVars, history>>

\* StorageEngine::put, which may take a snapshot: it saves the newest row of every key.
\* Which puts took one stays open until the segments are read.
StorePut(c) ==
  LET req == client[c].req IN
  /\ DB!Put(req.key, req.value)
  /\ saved' = saved \cup {store'}
  /\ Changed(c, req.key, req.value)

HandlePut(c) ==
  /\ session[c].pc = "handle"
  /\ client[c].req.type = "Put"
  /\ StorePut(c)
  /\ Respond(c, [status |-> "Ok", value |-> Empty])

HandleDelete(c) ==
  LET req == client[c].req IN
  /\ session[c].pc = "handle"
  /\ req.type = "Delete"
  /\ DB!Remove(req.key)
  /\ UNCHANGED saved
  /\ Changed(c, req.key, Missing)
  /\ Respond(c, [status |-> "Ok", value |-> Empty])

HandleOther(c) ==
  /\ session[c].pc = "handle"
  /\ client[c].req.type = "Other"
  /\ Respond(c, [status |-> "InvalidRequestType", value |-> Empty])
  /\ UNCHANGED <<dbVars, history>>

\* The engine throws: get before anything is found, put before or after the row
\* was inserted.
HandleThrows(c) ==
  LET req == client[c].req IN
  /\ session[c].pc = "handle"
  /\ req.type \in {"Get", "Put"}
  /\ Respond(c, [status |-> "UnknownError", value |-> Empty])
  /\ \/ UNCHANGED <<dbVars, history>>
     \/ req.type = "Put" /\ StorePut(c)

Handle(c) == HandleGet(c) \/ HandlePut(c) \/ HandleDelete(c) \/ HandleOther(c) \/ HandleThrows(c)

\* The rest of a response that the socket did not take at once is written from a
\* string that is gone by now.  When all is written the session ends.
ServerWrite(c) ==
  LET n == Least(session[c].left, ServerBuffer - toClient[c]) IN
  /\ ThreadFree
  /\ session[c].pc = "write"
  /\ link[c] = "open"
  /\ IF session[c].left = 0
     THEN /\ session' = [session EXCEPT ![c].pc = "end"]
          /\ link' = [link EXCEPT ![c] = "serverClosed"]
          /\ UNCHANGED toClient
     ELSE /\ n > 0
          /\ \E spoiled \in {session[c].spoiled, TRUE} :
               session' = [session EXCEPT ![c].left = @ - n, ![c].spoiled = spoiled]
          /\ toClient' = [toClient EXCEPT ![c] = @ + n]
          /\ UNCHANGED link
  /\ UNCHANGED <<dbVars, clientVars, toServer, serverVars, faults, history>>

\* Mutant of OnSessionError: an error of a read is not noticed.
OnSessionErrorWriting(c) ==
  /\ ThreadFree
  /\ session[c].pc = "write" /\ link[c] \in {"reset", "clientClosed"}
  /\ session' = [session EXCEPT ![c].pc = "end"]
  /\ UNCHANGED <<dbVars, clientVars, wireVars, serverVars, faults, history>>

\* ServerSession::onError: the connection is reset, or closed before all is read
\* or written.
OnSessionError(c) ==
  /\ ThreadFree
  /\ \/ session[c].pc \in {"length", "body"} /\ link[c] = "clientClosed" /\ toServer[c] = 0
     \/ session[c].pc \in {"length", "body"} /\ link[c] = "reset"
     \/ session[c].pc = "write" /\ link[c] \in {"reset", "clientClosed"}
  /\ session' = [session EXCEPT ![c].pc = "end"]
  /\ UNCHANGED <<dbVars, clientVars, wireVars, serverVars, faults, history>>

-----------------------------------------------------------------------------
(* Start, wait, stop and destruction of the server                          *)

\* The database after an open that found `segments' in its segments and `rows' in its log.
OpenWith(segments, rows) ==
  /\ store' = [k \in Keys |-> IF k \in rows THEN store[k] ELSE segments[k]]
  /\ saved' = {segments}
  /\ logged' = {}
  /\ opens' = opens + 1
  /\ seen' = [c \in Clients |-> IF client[c].pc \in Waiting
                                THEN seen[c] \cup {store'[client[c].req.key]} ELSE seen[c]]
  /\ UNCHANGED <<writes, applied, kv>>

\* Mutant of Reopen: the log is truncated before it is read.
ReopenTruncating == \E segments \in saved : OpenWith(segments, {})

\* Database::open on the object that may be open already: the old memtable is destroyed,
\* which flushes its log; the new one is what the log gives, and the log is truncated;
\* the index is loaded anew.  m_segmentId goes on.
Reopen == \E segments \in saved : OpenWith(segments, logged)

\* Database::open that throws before it has truncated the log.
OpenNothing ==
  /\ opens' = opens + 1
  /\ UNCHANGED <<store, writes, saved, logged, history>>

\* ServerBase::start, of a server that has no running threads, with
\* DatabaseServerImpl::init.  It opens the database, whether it was open or not.  A
\* service that was stopped stays so: the threads find nothing to run.  A thread in wait
\* is in no handler: open takes no lock.
Start ==
  /\ server \in {"constructed", "failed", "stopped"}
  /\ server = "stopped" => ~destroying
  /\ Busy(TRUE) = {}
  /\ Reopen
  /\ server' = "running"
  /\ threads' = "joinable"
  /\ accepting' = TRUE
  /\ UNCHANGED <<clientVars, wireVars, session, waiter, serviceStopped, isStopped,
                 destroying, faults, stops>>

\* Database::open throws in init, before it has truncated the log or after: the accept was
\* started, the threads are not.
StartFails ==
  /\ server \in {"constructed", "failed", "stopped"}
  /\ server = "stopped" => ~destroying
  /\ Busy(TRUE) = {}
  /\ faults < MaxFaults
  /\ faults' = faults + 1
  /\ OpenNothing \/ Reopen
  /\ server' = "failed"
  /\ accepting' = TRUE
  /\ UNCHANGED <<clientVars, wireVars, session, threads, waiter, serviceStopped,
                 isStopped, destroying, stops>>

\* wait, by the thread that started the server: it runs handlers too.
Wait ==
  /\ server = "running"
  /\ ~serviceStopped
  /\ ~waiter
  /\ waiter' = TRUE
  /\ UNCHANGED <<dbVars, clientVars, wireVars, session, server, threads, serviceStopped, accepting,
                 isStopped, destroying, faults, stops, history>>

WaitReturns ==
  /\ waiter
  /\ serviceStopped
  /\ Busy(TRUE) = {}
  /\ waiter' = FALSE
  /\ UNCHANGED <<dbVars, clientVars, wireVars, session, server, threads, serviceStopped, accepting,
                 isStopped, destroying, faults, stops, history>>

\* stop, in any state of the server: Acceptor::stop comes first.
BeginStop ==
  /\ server \in {"constructed", "failed", "running", "stopped"}
  /\ ~destroying
  /\ server' = "stopping"
  /\ isStopped' = FALSE
  /\ UNCHANGED <<dbVars, clientVars, wireVars, session, threads, waiter, serviceStopped, accepting,
                 faults, history>>

Stop ==
  /\ stops < MaxStops
  /\ BeginStop
  /\ stops' = stops + 1
  /\ UNCHANGED destroying

\* The destructor begins with stop.  Its caller has to leave wait before, or is
\* told to by a stop of another thread.
BeginDestroy ==
  /\ ~waiter
  /\ BeginStop
  /\ destroying' = TRUE
  /\ UNCHANGED stops

\* m_service.stop(): no further handler begins.
StopService ==
  /\ server = "stopping"
  /\ server' = "joining"
  /\ serviceStopped' = TRUE
  /\ UNCHANGED <<dbVars, clientVars, wireVars, session, threads, waiter, accepting, isStopped,
                 destroying, faults, stops, history>>

\* Mutant of Join: the threads are detached.
JoinNobody ==
  /\ server = "joining"
  /\ server' = "stopped"
  /\ threads' = IF threads = "joinable" THEN "joined" ELSE threads
  /\ UNCHANGED <<dbVars, clientVars, wireVars, session, waiter, serviceStopped, accepting,
                 isStopped, destroying, faults, stops, history>>

\* Every thread of start has finished its handler.  Without threads there is
\* nothing to wait for; to join threads once more throws in the user's stop.
Join ==
  /\ server = "joining"
  /\ threads = "joinable" => Busy(FALSE) = {}
  /\ threads = "joined" => ~destroying
  /\ server' = "stopped"
  /\ threads' = IF threads = "joinable" THEN "joined" ELSE threads
  /\ UNCHANGED <<dbVars, clientVars, wireVars, session, waiter, serviceStopped, accepting,
                 isStopped, destroying, faults, stops, history>>

\* Every socket is closed.  One with unread data is closed by a reset.
CloseSockets ==
  /\ accepting' = FALSE
  /\ link' = [c \in Clients |-> IF link[c] # "open" THEN link[c]
                                ELSE IF session[c].pc = "queued" \/ toServer[c] > 0 THEN "reset"
                                ELSE "serverClosed"]
  /\ session' = [c \in Clients |-> IF session[c].pc = "none" THEN session[c]
                                   ELSE [session[c] EXCEPT !.pc = "end"]]

\* The destructor after its stop.
Destroy ==
  /\ server = "stopped"
  /\ destroying
  /\ server' = "gone"
  /\ CloseSockets
  /\ UNCHANGED <<dbVars, clientVars, toServer, toClient, threads, waiter, serviceStopped,
                 isStopped, destroying, faults, stops, history>>

\* The destructor joins threads that a stop of the user has joined: the exception
\* ends the process.
JoinThrows ==
  /\ server = "joining"
  /\ threads = "joined"
  /\ destroying
  /\ server' = "crashed"
  /\ CloseSockets
  /\ UNCHANGED <<dbVars, clientVars, toServer, toClient, threads, waiter, serviceStopped,
                 isStopped, destroying, faults, stops, history>>

\* The network drops a connection.
LinkFails(c) ==
  /\ link[c] = "open"
  /\ faults < MaxFaults
  /\ faults' = faults + 1
  /\ link' = [link EXCEPT ![c] = "reset"]
  /\ UNCHANGED <<dbVars, clientVars, toServer, toClient, session, serverVars, history>>

-----------------------------------------------------------------------------

Init ==
  /\ DB!Init
  /\ saved = {store}
  /\ logged = {}
  /\ opens = 0
  /\ connector = "up"
  /\ client = [c \in Clients |-> [pc |-> "new", req |-> NoRequest, need |-> 0]]
  /\ promise = [c \in Clients |-> Unset]
  /\ link = [c \in Clients |-> "none"]
  /\ toServer = [c \in Clients |-> 0]
  /\ toClient = [c \in Clients |-> 0]
  /\ session = [c \in Clients |-> NewSession]
  /\ server = "constructed"
  /\ threads = "none"
  /\ waiter = FALSE
  /\ serviceStopped = FALSE
  /\ accepting = FALSE
  /\ isStopped = FALSE
  /\ destroying = FALSE
  /\ faults = 0
  /\ stops = 0
  /\ seen = [c \in Clients |-> {}]
  /\ applied = [c \in Clients |-> 0]
  /\ kv = store

ClientStep(c) == OnResolve(c) \/ OnConnect(c) \/ OnSend(c) \/ ClientReceive(c) \/ OnError(c)

ServerStep(c) == OnAccept(c) \/ ServerReceive(c) \/ Handle(c) \/ ServerWrite(c) \/ OnSessionError(c)

Lifecycle ==
  \/ Start
  \/ (server = "failed" \/ serviceStopped) /\ BeginDestroy
  \/ StopService \/ Join \/ JoinThrows \/ WaitReturns \/ Destroy

Next ==
  \/ \E c \in Clients : Execute(c) \/ ClientStep(c) \/ ServerStep(c) \/ LinkFails(c)
  \/ Start \/ StartFails
  \/ Wait \/ WaitReturns
  \/ Stop \/ StopService \/ Join
  \/ BeginDestroy \/ JoinThrows \/ Destroy
  \/ DestroyConnector

\* The threads of both io_services run what is ready; a server that was built is
\* started; stop and wait go on when they can; and a server that failed to start or
\* was stopped is destroyed in the end, started anew or not.
Fairness ==
  /\ \A c \in Clients : WF_vars(ClientStep(c)) /\ WF_vars(ServerStep(c))
  /\ WF_vars(Lifecycle)

Spec == Init /\ [][Next]_vars /\ Fairness

-----------------------------------------------------------------------------
(* Properties                                                              *)

Contents == [Keys -> Values \cup {Empty, Missing}]

DbTypes ==
  /\ store \in Contents /\ saved \in SUBSET Contents
  /\ logged \in SUBSET Keys
  /\ writes \in Nat /\ opens \in Nat

ClientTypes ==
  /\ connector \in {"up", "gone"}
  /\ client \in [Clients -> ClientSession]
  /\ promise \in [Clients -> Outcome]

WireTypes ==
  /\ link \in [Clients -> LinkStates]
  /\ toServer \in [Clients -> 0 .. ClientBuffer]
  /\ toClient \in [Clients -> 0 .. ServerBuffer]

SessionTypes == session \in [Clients -> ServerSession]

LifeTypes ==
  /\ server \in ServerPhases
  /\ threads \in {"none", "joinable", "joined"}
  /\ waiter \in BOOLEAN
  /\ serviceStopped \in BOOLEAN
  /\ isStopped \in BOOLEAN
  /\ destroying \in BOOLEAN
  /\ stops \in Nat

HistoryTypes ==
  /\ seen \in [Clients -> SUBSET (Values \cup {Empty, Missing})]
  /\ applied \in [Clients -> Nat]
  /\ kv \in Contents

\* Every variable has its type.
TypeOK ==
  /\ DbTypes
  /\ ClientTypes
  /\ WireTypes
  /\ SessionTypes
  /\ LifeTypes
  /\ accepting \in BOOLEAN
  /\ faults \in Nat
  /\ HistoryTypes

\* Response r answers request req, which was applied n times, given the values that
\* its key had meanwhile.
Fits(req, r, n, values) ==
  \/ r.status = "UnknownError" /\ req.type \in {"Get", "Put"} /\ n <= 1
  \/ r.status = "InvalidRequestType" /\ req.type = "Other" /\ n = 0
  \/ r.status = "Ok" /\ req.type \in {"Put", "Delete"} /\ n = 1
  \/ r.status = "Ok" /\ req.type = "Get" /\ r.value \in values
  \/ r.status = "NotFound" /\ req.type = "Get" /\ Missing \in values

\* The answer that execute's future delivers is the one to its own request: a
\* value the key had meanwhile, or a change that was made once, whatever the
\* other clients, the network, stop and the destructors did in between.
AnswerCorrect ==
  \A c \in Clients :
    promise[c].kind = "answer" => Fits(client[c].req, promise[c].response, applied[c], seen[c])

\* No handler of a client session sets a promise that is set already.
PromiseSetOnce == \A c \in Clients : promise[c].kind # "terminate"

\* Once stop has returned, or thrown, no request changes the database any more, unless by
\* the handler that a thread in wait is running: stop does not join that one.  Only a
\* start may change it, which opens it again.
StopIsFinal ==
  [][(serviceStopped /\ server \notin {"stopping", "joining"} /\ Busy(TRUE) = {}) =>
       UNCHANGED <<writes, kv>> /\ (opens' = opens => UNCHANGED dbVars)]_vars

\* A start after a stop opens the database a second time, and loses no write by it: what
\* no snapshot saved is in the log, until then.
FirstReopenKeeps == opens <= 2 => store = kv

\* A request is applied and answered at most once, by a session of its own, and
\* nothing can be read from a connection before.
ServedOnce(c) ==
  /\ client[c].pc \in {"new", "resolve", "connect"} => session[c].pc = "none"
  /\ session[c].pc \in {"none", "queued", "length", "body", "handle"} =>
       applied[c] = 0 /\ toClient[c] = 0 /\ client[c].pc # "body" /\ promise[c].kind # "answer"

\* What a client can read is an answer to its request.
AnswerFits(c) ==
  /\ client[c].pc \in Waiting => store[client[c].req.key] \in seen[c]
  /\ client[c].pc \in Waiting /\ (toClient[c] > 0 \/ client[c].pc = "body") =>
       Fits(client[c].req, session[c].response, applied[c], seen[c])
  /\ promise[c].kind = "answer" => Fits(client[c].req, promise[c].response, applied[c], seen[c])

\* A promise is not set before the session ends.
PromisePending(c) ==
  /\ client[c].pc \in Waiting \cup {"new"} => promise[c] = Unset
  /\ promise[c].kind # "terminate"

\* No answer is left to be sent from a string that is gone.
SentWhole(c) == session[c].left = 0 /\ ~session[c].spoiled

\* No thread of start is in a handler before there are threads, after they were
\* joined, or in a server that was stopped and started anew.
PoolIdle ==
  threads # "joinable" \/ (serviceStopped /\ server \notin {"stopping", "joining"}) => Busy(FALSE) = {}

\* Why AnswerCorrect, PromiseSetOnce and StopIsFinal hold, as long as the socket takes
\* every answer at once.
NetworkInv ==
  /\ PoolIdle
  /\ \A c \in Clients : ServedOnce(c) /\ AnswerFits(c) /\ PromisePending(c) /\ SentWhole(c)

\* The future of every request becomes ready: with an answer or an exception.
FutureReady == \A c \in Clients : client[c].pc # "new" ~> promise[c] # Unset

\* Every connection that reached the server is closed in the end, the ones that
\* clients abandoned included: from some moment on none is open.
SessionEnds == <>[](\A c \in Clients : session[c].pc \in {"none", "end"})
=============================================================================
