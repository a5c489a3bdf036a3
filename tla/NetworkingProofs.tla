--------------------------- MODULE NetworkingProofs ---------------------------
(***************************************************************************)
(* Safety of client and server for any number of clients, keys, values,     *)
(* threads, failures and stops.                                             *)
(***************************************************************************)
EXTENDS Networking, TLAPS

-----------------------------------------------------------------------------
(* Helpers                                                                 *)

\* Least takes one of its arguments and exceeds neither.
LEMMA LeastFact ==
  ASSUME NEW a \in Nat, NEW b \in Nat
  PROVE  Least(a, b) \in Nat /\ Least(a, b) <= a /\ Least(a, b) <= b
BY DEF Least

\* The length of a message is a number of units.
LEMMA LengthType ==
  ASSUME NEW message, message.value \in Values \cup {Empty, Garbage}
  PROVE  ContentLength(message) \in Nat \ {0}
<1>1. CASE message.value = Garbage
  BY <1>1 DEF ContentLength
<1>2. CASE message.value # Garbage
  <2>1. Size[message.value] \in Nat
    BY <1>2, NetworkAssumption
  <2> QED
    BY <1>2, <2>1 DEF ContentLength
<1> QED
  BY <1>1, <1>2

\* What a socket takes of a length and a message.
LEMMA TakenAtOnce ==
  ASSUME NEW message, message.value \in Values \cup {Empty, Garbage}, NEW buffer \in Nat
  PROVE  /\ Least(Units(message), buffer) \in 0 .. buffer
         /\ Units(message) - Least(Units(message), buffer) \in Nat
<1>1. Units(message) \in Nat
  BY LengthType DEF Units
<1> QED
  BY <1>1, LeastFact

\* What stands for the message that is not there has the type of one.
LEMMA NoMessages ==
  /\ NoRequest \in Request
  /\ NoResponse \in Response
  /\ Unset \in Outcome
  /\ \A kind \in {"error", "broken", "terminate"} : Failed(kind) \in Outcome
<1>1. (CHOOSE k \in Keys : TRUE) \in Keys
  BY NetworkAssumption
<1> QED
  BY <1>1 DEF NoRequest, NoResponse, Unset, Failed, Request, RequestTypes, Response, Statuses, Outcome

-----------------------------------------------------------------------------
(* Types                                                                   *)

\* The initial state has the right types.
LEMMA TypeInit == Init => TypeOK
<1> SUFFICES ASSUME Init PROVE TypeOK
  OBVIOUS
<1>1. DbTypes
  BY DEF Init, DB!Init, DbTypes, Contents
<1>2. ClientTypes
  BY NoMessages DEF Init, ClientTypes, ClientSession, ClientPhases
<1>3. WireTypes
  BY NetworkAssumption DEF Init, WireTypes, LinkStates
<1>4. SessionTypes
  BY NoMessages DEF Init, SessionTypes, ServerSession, SessionPhases, NewSession
<1>5. LifeTypes
  BY DEF Init, LifeTypes, ServerPhases
<1>6. HistoryTypes /\ accepting \in BOOLEAN /\ faults \in Nat
  BY <1>1 DEF Init, DbTypes, HistoryTypes
<1> QED
  BY <1>1, <1>2, <1>3, <1>4, <1>5, <1>6 DEF TypeOK

\* What a step leaves alone keeps its types.
LEMMA SameTypes ==
  /\ DbTypes /\ UNCHANGED dbVars => DbTypes'
  /\ ClientTypes /\ UNCHANGED clientVars => ClientTypes'
  /\ WireTypes /\ UNCHANGED wireVars => WireTypes'
  /\ SessionTypes /\ UNCHANGED session => SessionTypes'
  /\ LifeTypes /\ UNCHANGED lifeVars => LifeTypes'
  /\ HistoryTypes /\ UNCHANGED history => HistoryTypes'
<1>1. DbTypes /\ UNCHANGED dbVars => DbTypes'
  BY DEF DbTypes, dbVars
<1>2. ClientTypes /\ UNCHANGED clientVars => ClientTypes'
  BY DEF ClientTypes, clientVars
<1>3. WireTypes /\ UNCHANGED wireVars => WireTypes'
  BY DEF WireTypes, wireVars
<1>4. SessionTypes /\ UNCHANGED session => SessionTypes'
  BY DEF SessionTypes
<1>5. LifeTypes /\ UNCHANGED lifeVars => LifeTypes'
  BY DEF LifeTypes, lifeVars
<1>6. HistoryTypes /\ UNCHANGED history => HistoryTypes'
  BY DEF HistoryTypes, history
<1> QED
  BY <1>1, <1>2, <1>3, <1>4, <1>5, <1>6

\* A client session with another phase and another number of units to read.
LEMMA ClientSet ==
  ASSUME ClientTypes, NEW c \in Clients, NEW p \in ClientPhases, NEW n \in Nat
  PROVE  /\ [client EXCEPT ![c].pc = p] \in [Clients -> ClientSession]
         /\ [client EXCEPT ![c].need = n] \in [Clients -> ClientSession]
         /\ [client EXCEPT ![c].pc = p, ![c].need = n] \in [Clients -> ClientSession]
BY DEF ClientTypes, ClientSession

\* The end of a client session keeps the types.
LEMMA ClientEndsTypes ==
  ASSUME ClientTypes, link \in [Clients -> LinkStates], NEW c \in Clients, NEW outcome \in Outcome,
         ClientEnds(c, outcome), UNCHANGED connector
  PROVE  ClientTypes' /\ link' \in [Clients -> LinkStates]
<1>1. client' \in [Clients -> ClientSession]
  <2>1. "end" \in ClientPhases /\ 0 \in Nat
    BY DEF ClientPhases
  <2> QED
    BY <2>1, ClientSet DEF ClientEnds
<1>2. promise' \in [Clients -> Outcome]
  BY NoMessages DEF ClientTypes, ClientEnds, SetPromise
<1>3. link' \in [Clients -> LinkStates]
  BY DEF ClientEnds, LinkStates
<1> QED
  BY <1>1, <1>2, <1>3 DEF ClientTypes

\* The steps of a client session, and failures of its connection, keep the types.
LEMMA TypeClient ==
  ASSUME TypeOK, NEW c \in Clients, Execute(c) \/ ClientStep(c) \/ LinkFails(c)
  PROVE  TypeOK'
<1>0. DbTypes /\ ClientTypes /\ WireTypes /\ SessionTypes /\ LifeTypes /\ HistoryTypes
  BY DEF TypeOK
<1>p. {"resolve", "connect", "send", "length", "body"} \subseteq ClientPhases
  BY DEF ClientPhases
<1>1. CASE Execute(c)
  <2>1. PICK req \in Requests[c] :
          /\ client' = [client EXCEPT ![c] = [pc |-> "resolve", req |-> req, need |-> 0]]
          /\ seen' = [seen EXCEPT ![c] = {store[req.key]}]
    BY <1>1 DEF Execute
  <2>2. req \in Request
    BY NetworkAssumption
  <2>3. ClientTypes'
    <3>1. [pc |-> "resolve", req |-> req, need |-> 0] \in ClientSession
      BY <1>p, <2>2 DEF ClientSession
    <3> QED
      BY <1>0, <1>1, <2>1, <3>1 DEF Execute, ClientTypes
  <2>4. HistoryTypes'
    <3>1. store[req.key] \in Values \cup {Empty, Missing}
      BY <1>0, <2>2 DEF DbTypes, Contents, Request
    <3> QED
      BY <1>0, <1>1, <2>1, <3>1 DEF Execute, HistoryTypes
  <2> QED
    BY <1>1, <2>3, <2>4, SameTypes DEF Execute, TypeOK, serverVars
<1>2. CASE OnResolve(c)
  <2>1. ClientTypes'
    BY <1>0, <1>2, <1>p, ClientSet DEF OnResolve, ClientTypes
  <2> QED
    BY <1>2, <2>1, SameTypes DEF OnResolve, TypeOK, serverVars
<1>3. CASE OnConnect(c)
  <2>1. Least(Units(client[c].req), ClientBuffer) \in 0 .. ClientBuffer
    <3>1. client[c].req.value \in Values \cup {Empty, Garbage}
      BY <1>0 DEF ClientTypes, ClientSession, Request
    <3> QED
      BY <3>1, TakenAtOnce, NetworkAssumption
  <2>2. ClientTypes'
    BY <1>0, <1>3, <1>p, ClientSet DEF OnConnect, ClientTypes
  <2>3. WireTypes'
    BY <1>0, <1>3, <2>1 DEF OnConnect, WireTypes, LinkStates
  <2>4. SessionTypes'
    BY <1>0, <1>3 DEF OnConnect, SessionTypes, ServerSession, SessionPhases
  <2> QED
    BY <1>3, <2>2, <2>3, <2>4, SameTypes DEF OnConnect, TypeOK, serverVars
<1>4. CASE OnSend(c)
  <2>1. ClientTypes'
    BY <1>0, <1>4, <1>p, ClientSet DEF OnSend, ClientTypes
  <2> QED
    BY <1>4, <2>1, SameTypes DEF OnSend, TypeOK, serverVars
<1>5. CASE ClientReceive(c)
  <2> DEFINE n == Least(client[c].need, toClient[c])
  <2>1. n \in Nat /\ n <= client[c].need /\ n <= toClient[c] /\ client[c].need \in Nat
    <3>1. client[c].need \in Nat /\ toClient[c] \in Nat
      BY <1>0, NetworkAssumption DEF ClientTypes, ClientSession, WireTypes
    <3> QED
      BY <3>1, LeastFact
  <2>2. toClient' \in [Clients -> 0 .. ServerBuffer]
    <3>1. toClient[c] - n \in 0 .. ServerBuffer
      BY <1>0, <2>1, NetworkAssumption DEF WireTypes
    <3> HIDE DEF n
    <3>2. toClient' = [toClient EXCEPT ![c] = toClient[c] - n]
      BY <1>5 DEF ClientReceive, n
    <3> QED
      BY <1>0, <3>1, <3>2 DEF WireTypes
  <2>3. ClientTypes' /\ link' \in [Clients -> LinkStates]
    <3>1. CASE n < client[c].need
      <4>1. client[c].need - n \in Nat
        BY <2>1, <3>1
      <4> HIDE DEF n
      <4>2. /\ client' = [client EXCEPT ![c].need = client[c].need - n]
            /\ UNCHANGED <<promise, link, connector>>
        <5>1. client' = [client EXCEPT ![c].need = @ - n] /\ UNCHANGED <<promise, link, connector>>
          BY <1>5, <3>1 DEF ClientReceive, n
        <5> QED
          BY <5>1
      <4>3. client' \in [Clients -> ClientSession]
        <5> DEFINE m == client[c].need - n
        <5>1. [client EXCEPT ![c].need = m] \in [Clients -> ClientSession]
          <6>1. m \in Nat
            BY <4>1
          <6> HIDE DEF m
          <6> QED
            BY <1>0, <1>p, <6>1, ClientSet
        <5> QED
          BY <4>2, <5>1
      <4> QED
        BY <1>0, <4>2, <4>3 DEF ClientTypes, WireTypes
    <3>2. CASE ~(n < client[c].need) /\ client[c].pc = "length"
      <4>1. ContentLength(session[c].response) \in Nat
        BY <1>0, LengthType DEF SessionTypes, ServerSession, Response
      <4>2. /\ client' = [client EXCEPT ![c].pc = "body", ![c].need = ContentLength(session[c].response)]
            /\ UNCHANGED <<promise, link, connector>>
        BY <1>5, <3>2 DEF ClientReceive
      <4> QED
        BY <1>0, <1>p, <4>1, <4>2, ClientSet DEF ClientTypes, WireTypes
    <3>3. CASE ~(n < client[c].need) /\ client[c].pc # "length"
      <4>1. [kind |-> "answer", response |-> Received(c)] \in Outcome
        BY <1>0 DEF Received, SessionTypes, ServerSession, Response, Outcome
      <4>2. ClientEnds(c, [kind |-> "answer", response |-> Received(c)]) /\ UNCHANGED connector
        BY <1>5, <3>3 DEF ClientReceive
      <4> QED
        BY <1>0, <4>1, <4>2, ClientEndsTypes DEF WireTypes
    <3> QED
      BY <3>1, <3>2, <3>3
  <2>4. WireTypes'
    BY <1>0, <1>5, <2>2, <2>3 DEF ClientReceive, WireTypes
  <2> QED
    BY <1>5, <2>3, <2>4, SameTypes DEF ClientReceive, TypeOK, serverVars
<1>6. CASE OnError(c)
  <2>1. ClientEnds(c, Failed("error")) /\ UNCHANGED <<connector, toServer, toClient>>
    BY <1>6 DEF OnError
  <2>2. ClientTypes' /\ WireTypes'
    BY <1>0, <2>1, NoMessages, ClientEndsTypes DEF WireTypes
  <2>3. faults' \in Nat
    BY <1>6 DEF OnError, TypeOK
  <2> QED
    BY <1>6, <2>2, <2>3, SameTypes DEF OnError, TypeOK, serverVars
<1>7. CASE LinkFails(c)
  <2>1. WireTypes' /\ faults' \in Nat
    BY <1>7 DEF LinkFails, TypeOK, WireTypes, LinkStates
  <2> QED
    BY <1>7, <2>1, SameTypes DEF LinkFails, TypeOK, serverVars
<1> QED
  BY <1>1, <1>2, <1>3, <1>4, <1>5, <1>6, <1>7 DEF ClientStep

\* An answer that a handler sends keeps the types.
LEMMA RespondTypes ==
  ASSUME SessionTypes, WireTypes, NEW c \in Clients, NEW response \in Response, Respond(c, response)
  PROVE  SessionTypes' /\ WireTypes'
<1> DEFINE n == Least(Units(response), ServerBuffer)
<1>1. n \in 0 .. ServerBuffer /\ Units(response) - n \in Nat
  <2>1. response.value \in Values \cup {Empty, Garbage}
    BY DEF Response
  <2> QED
    BY <2>1, TakenAtOnce, NetworkAssumption
<1> HIDE DEF n
<1>2. /\ session' = [session EXCEPT ![c].pc = "write", ![c].inWait = FALSE, ![c].response = response,
                                   ![c].left = Units(response) - n]
      /\ toClient' = [toClient EXCEPT ![c] = n]
      /\ UNCHANGED <<link, toServer>>
  BY DEF Respond, n, wireVars
<1>3. SessionTypes'
  <2> DEFINE m == Units(response) - n
  <2>1. m \in Nat /\ session' = [session EXCEPT ![c].pc = "write", ![c].inWait = FALSE,
                                              ![c].response = response, ![c].left = m]
    BY <1>1, <1>2
  <2> HIDE DEF m
  <2> DEFINE f == [session EXCEPT ![c].pc = "write", ![c].inWait = FALSE]
             g == [f EXCEPT ![c].response = response]
  <2>2. f \in [Clients -> ServerSession]
    BY DEF SessionTypes, ServerSession, SessionPhases
  <2>3. g \in [Clients -> ServerSession]
    <3> HIDE DEF f
    <3> QED
      BY <2>2 DEF ServerSession
  <2>4. session' = [g EXCEPT ![c].left = m]
    BY <2>1
  <2>5. [g EXCEPT ![c].left = m] \in [Clients -> ServerSession]
    <3> HIDE DEF g
    <3> QED
      BY <2>1, <2>3 DEF ServerSession
  <2> QED
    BY <2>4, <2>5 DEF SessionTypes
<1> QED
  BY <1>1, <1>2, <1>3 DEF WireTypes

\* The answer of a handler is one that can be sent.
LEMMA HandleResponds ==
  ASSUME TypeOK, NEW c \in Clients, Handle(c)
  PROVE  /\ session[c].pc = "handle"
         /\ UNCHANGED <<clientVars, link, toServer, serverVars, faults>>
         /\ \E response \in Response : Respond(c, response)
<1>1. client[c].req \in Request /\ store[client[c].req.key] \in Values \cup {Empty, Missing}
  BY DEF TypeOK, ClientTypes, ClientSession, DbTypes, Contents, Request
<1>2. CASE HandleGet(c)
  <2>1. [status |-> "NotFound", value |-> Empty] \in Response
    BY DEF Response, Statuses
  <2>2. ASSUME store[client[c].req.key] # Missing
        PROVE  [status |-> "Ok", value |-> store[client[c].req.key]] \in Response
    BY <1>1, <2>2 DEF Response, Statuses
  <2> QED
    BY <1>2, <2>1, <2>2 DEF HandleGet, Respond
<1>3. CASE HandlePut(c)
  BY <1>3 DEF HandlePut, Response, Statuses, Respond
<1>4. CASE HandleDelete(c)
  BY <1>4 DEF HandleDelete, Response, Statuses, Respond
<1>5. CASE HandleOther(c)
  BY <1>5 DEF HandleOther, Response, Statuses, Respond
<1>6. CASE HandleThrows(c)
  BY <1>6 DEF HandleThrows, Response, Statuses, Respond
<1> QED
  BY <1>2, <1>3, <1>4, <1>5, <1>6 DEF Handle

\* A handler gives the key of its request the value x, and saves it or not.
HandleWrites(c, x) ==
  /\ store' = [store EXCEPT ![client[c].req.key] = x]
  /\ writes' = writes + 1
  /\ saved' \in {saved, saved \cup {store'}}
  /\ Changed(c, client[c].req.key, x)

\* A handler leaves the database alone or changes one key.
LEMMA HandleChanges ==
  ASSUME TypeOK, NEW c \in Clients, Handle(c)
  PROVE  \/ UNCHANGED <<dbVars, history>>
         \/ \E x \in Values \cup {Empty, Missing} : HandleWrites(c, x)
<1> DEFINE req == client[c].req
<1>1. req.value \in Values \cup {Empty}
  BY DEF TypeOK, ClientTypes, ClientSession, Request
<1>2. CASE StorePut(c)
  <2>1. HandleWrites(c, req.value)
    BY <1>2 DEF StorePut, DB!Put, HandleWrites
  <2> QED
    BY <1>1, <2>1
<1>3. CASE HandleDelete(c)
  <2>1. HandleWrites(c, Missing)
    BY <1>3 DEF HandleDelete, DB!Remove, HandleWrites
  <2> QED
    BY <2>1
<1>4. CASE UNCHANGED <<dbVars, history>>
  BY <1>4
<1> QED
  BY <1>2, <1>3, <1>4 DEF Handle, HandleGet, HandlePut, HandleOther, HandleThrows

\* What a handler writes keeps the types.
LEMMA HandleWritesTypes ==
  ASSUME DbTypes, HistoryTypes, NEW c \in Clients, client[c].req.key \in Keys,
         NEW x \in Values \cup {Empty, Missing}, HandleWrites(c, x)
  PROVE  DbTypes' /\ HistoryTypes'
<1>1. store' \in Contents /\ kv' \in Contents
  BY DEF DbTypes, HistoryTypes, Contents, HandleWrites, Changed
<1>2. saved' \in SUBSET Contents
  BY <1>1 DEF DbTypes, HandleWrites
<1>3. logged' \in SUBSET Keys /\ writes' \in Nat /\ opens' \in Nat
  BY DEF DbTypes, HandleWrites, Changed
<1>4. seen' \in [Clients -> SUBSET (Values \cup {Empty, Missing})] /\ applied' \in [Clients -> Nat]
  BY DEF HistoryTypes, HandleWrites, Changed
<1> QED
  BY <1>1, <1>2, <1>3, <1>4 DEF DbTypes, HistoryTypes

\* The steps of a server session keep the types.
LEMMA TypeServer ==
  ASSUME TypeOK, NEW c \in Clients, ServerStep(c)
  PROVE  TypeOK'
<1> DEFINE req == client[c].req
<1>0. DbTypes /\ ClientTypes /\ WireTypes /\ SessionTypes /\ LifeTypes /\ HistoryTypes
  BY DEF TypeOK
<1>r. /\ req \in Request /\ req.key \in Keys /\ req.value \in Values \cup {Empty}
      /\ session[c] \in ServerSession
      /\ toServer[c] \in 0 .. ClientBuffer /\ toClient[c] \in 0 .. ServerBuffer
  BY <1>0 DEF ClientTypes, ClientSession, SessionTypes, WireTypes, Request
<1>1. CASE OnAccept(c)
  <2>1. SessionTypes'
    <3>1. session' = [session EXCEPT ![c] = [session[c] EXCEPT !.pc = "length", !.need = 1]]
      BY <1>0, <1>1 DEF OnAccept, SessionTypes
    <3>2. [session[c] EXCEPT !.pc = "length", !.need = 1] \in ServerSession
      BY ONLY <1>r DEF ServerSession, SessionPhases
    <3> QED
      BY ONLY <1>0, <3>1, <3>2 DEF SessionTypes
  <2>2. accepting' \in BOOLEAN
    BY <1>0, <1>1 DEF OnAccept, LifeTypes
  <2> QED
    BY <1>1, <2>1, <2>2, SameTypes DEF OnAccept, TypeOK
<1>2. CASE ServerReceive(c)
  <2> DEFINE n == Least(session[c].need, toServer[c])
  <2>1. n \in Nat /\ n <= session[c].need /\ n <= toServer[c] /\ session[c].need \in Nat
    <3>1. session[c].need \in Nat /\ toServer[c] \in Nat
      BY <1>r, NetworkAssumption DEF ServerSession
    <3> QED
      BY <3>1, LeastFact
  <2>2. toServer[c] - n \in 0 .. ClientBuffer
    BY <1>r, <2>1, NetworkAssumption
  <2>3. ContentLength(req) \in Nat
    BY <1>r, LengthType
  <2> HIDE DEF n
  <2>4. WireTypes'
    <3>1. toServer' = [toServer EXCEPT ![c] = toServer[c] - n] /\ UNCHANGED <<link, toClient>>
      BY <1>2 DEF ServerReceive, n
    <3> QED
      BY <1>0, <2>2, <3>1 DEF WireTypes
  <2>5. SessionTypes'
    <3>1. CASE n < session[c].need
      <4>1. session' = [session EXCEPT ![c].need = session[c].need - n]
        BY <1>2, <3>1 DEF ServerReceive, n
      <4>2. session[c].need - n \in Nat
        BY <2>1, <3>1
      <4> QED
        BY <1>0, <4>1, <4>2 DEF SessionTypes, ServerSession
    <3>2. CASE ~(n < session[c].need) /\ session[c].pc = "length"
      <4>1. session' = [session EXCEPT ![c].pc = "body", ![c].need = ContentLength(req)]
        BY <1>2, <3>2 DEF ServerReceive, n
      <4> QED
        BY <1>0, <2>3, <4>1 DEF SessionTypes, ServerSession, SessionPhases
    <3>3. CASE ~(n < session[c].need) /\ session[c].pc # "length"
      <4>1. PICK byWaiter \in BOOLEAN :
              session' = [session EXCEPT ![c].pc = "handle", ![c].need = 0, ![c].inWait = byWaiter]
        BY <1>2, <3>3 DEF ServerReceive, n
      <4> DEFINE s == [session[c] EXCEPT !.pc = "handle", !.need = 0, !.inWait = byWaiter]
      <4>2. s \in ServerSession
        BY ONLY <1>r, byWaiter \in BOOLEAN DEF ServerSession, SessionPhases
      <4>3. session' = [session EXCEPT ![c] = s]
        BY <1>0, <4>1 DEF SessionTypes
      <4> HIDE DEF s
      <4> QED
        BY ONLY <1>0, <4>2, <4>3 DEF SessionTypes
    <3> QED
      BY <3>1, <3>2, <3>3
  <2> QED
    BY <1>2, <2>4, <2>5, SameTypes DEF ServerReceive, TypeOK, serverVars
<1>3. CASE Handle(c)
  <2>1. SessionTypes' /\ WireTypes'
    BY <1>0, <1>3, HandleResponds, RespondTypes
  <2>2. DbTypes' /\ HistoryTypes'
    <3>1. CASE UNCHANGED <<dbVars, history>>
      BY <1>0, <3>1, SameTypes
    <3>2. CASE \E x \in Values \cup {Empty, Missing} : HandleWrites(c, x)
      BY <1>0, <1>r, <3>2, HandleWritesTypes
    <3> QED
      BY <1>3, <3>1, <3>2, HandleChanges
  <2>3. UNCHANGED <<clientVars, serverVars, faults>>
    BY <1>3, HandleResponds
  <2> QED
    BY <2>1, <2>2, <2>3, SameTypes DEF TypeOK, serverVars
<1>4. CASE ServerWrite(c)
  <2> DEFINE n == Least(session[c].left, ServerBuffer - toClient[c])
  <2>1. /\ session[c].left \in Nat
        /\ n \in Nat /\ n <= session[c].left /\ n <= ServerBuffer - toClient[c]
    <3>1. session[c].left \in Nat /\ ServerBuffer - toClient[c] \in Nat
      BY <1>r, NetworkAssumption DEF ServerSession
    <3> QED
      BY <3>1, LeastFact
  <2>2. toClient[c] + n \in 0 .. ServerBuffer /\ session[c].left - n \in Nat
    BY <1>r, <2>1, NetworkAssumption
  <2> HIDE DEF n
  <2>3. CASE session[c].left = 0
    <3>1. /\ session' = [session EXCEPT ![c].pc = "end"]
          /\ link' = [link EXCEPT ![c] = "serverClosed"]
          /\ UNCHANGED <<toServer, toClient>>
      BY <1>4, <2>3 DEF ServerWrite
    <3>2. SessionTypes' /\ WireTypes'
      BY <1>0, <3>1 DEF SessionTypes, ServerSession, SessionPhases, WireTypes, LinkStates
    <3> QED
      BY <1>4, <3>2, SameTypes DEF ServerWrite, TypeOK, serverVars
  <2>4. CASE session[c].left # 0
    <3>1. PICK spoiled \in {session[c].spoiled, TRUE} :
            session' = [session EXCEPT ![c].left = session[c].left - n, ![c].spoiled = spoiled]
      BY <1>4, <2>4 DEF ServerWrite, n
    <3>2. toClient' = [toClient EXCEPT ![c] = toClient[c] + n] /\ UNCHANGED <<link, toServer>>
      BY <1>4, <2>4 DEF ServerWrite, n
    <3>3. SessionTypes'
      <4>1. spoiled \in BOOLEAN
        BY <1>r DEF ServerSession
      <4> QED
        BY <1>0, <2>2, <3>1, <4>1 DEF SessionTypes, ServerSession
    <3>4. WireTypes'
      BY <1>0, <2>2, <3>2 DEF WireTypes
    <3> QED
      BY <1>4, <3>3, <3>4, SameTypes DEF ServerWrite, TypeOK, serverVars
  <2> QED
    BY <2>3, <2>4
<1>5. CASE OnSessionError(c)
  <2>1. SessionTypes'
    BY <1>0, <1>5 DEF OnSessionError, SessionTypes, ServerSession, SessionPhases
  <2> QED
    BY <1>5, <2>1, SameTypes DEF OnSessionError, TypeOK, serverVars
<1> QED
  BY <1>1, <1>2, <1>3, <1>4, <1>5 DEF ServerStep

\* Closing every socket keeps the types.
LEMMA CloseSocketsTypes ==
  ASSUME SessionTypes, WireTypes, CloseSockets, UNCHANGED <<toServer, toClient>>
  PROVE  SessionTypes' /\ WireTypes'
<1>1. SessionTypes'
  BY DEF CloseSockets, SessionTypes, ServerSession, SessionPhases
<1> QED
  BY <1>1 DEF CloseSockets, WireTypes, LinkStates

\* What happens to the server as a whole.
ServerLife ==
  \/ Start \/ StartFails \/ Wait \/ WaitReturns \/ Stop \/ StopService \/ Join
  \/ BeginDestroy \/ JoinThrows \/ Destroy

\* Opening the database keeps the types, and what a client waits for is seen.
LEMMA OpenTypes ==
  ASSUME DbTypes, ClientTypes, HistoryTypes, Reopen \/ OpenNothing
  PROVE  DbTypes' /\ HistoryTypes'
<1>1. CASE Reopen
  <2>1. PICK segments \in saved : OpenWith(segments, logged)
    BY <1>1 DEF Reopen
  <2>2. segments \in Contents
    BY DEF DbTypes
  <2>3. store' \in Contents
    BY <2>1, <2>2 DEF OpenWith, DbTypes, Contents
  <2>4. saved' \in SUBSET Contents /\ logged' \in SUBSET Keys /\ writes' \in Nat /\ opens' \in Nat
    BY <2>1, <2>2 DEF OpenWith, DbTypes
  <2>5. seen' \in [Clients -> SUBSET (Values \cup {Empty, Missing})]
    <3>1. \A c \in Clients : store'[client[c].req.key] \in Values \cup {Empty, Missing}
      BY <2>3 DEF ClientTypes, ClientSession, Request, Contents
    <3>2. seen' = [c \in Clients |-> IF client[c].pc \in Waiting
                                      THEN seen[c] \cup {store'[client[c].req.key]} ELSE seen[c]]
      BY <2>1 DEF OpenWith
    <3> QED
      BY <3>1, <3>2 DEF HistoryTypes
  <2> QED
    BY <2>1, <2>3, <2>4, <2>5 DEF OpenWith, DbTypes, HistoryTypes
<1>2. CASE OpenNothing
  BY <1>2 DEF OpenNothing, DbTypes, HistoryTypes, history
<1> QED
  BY <1>1, <1>2

\* It keeps the types.
LEMMA TypeLife ==
  ASSUME TypeOK, ServerLife
  PROVE  TypeOK'
<1>1. CASE Start \/ StartFails
  <2>1. LifeTypes' /\ accepting' \in BOOLEAN
    BY <1>1 DEF Start, StartFails, TypeOK, LifeTypes, ServerPhases
  <2>2. faults' \in Nat
    <3>1. faults \in Nat
      BY DEF TypeOK
    <3>2. faults' = faults \/ faults' = faults + 1
      BY <1>1 DEF Start, StartFails
    <3> QED
      BY <3>1, <3>2
  <2>3. DbTypes' /\ HistoryTypes'
    <3>1. Reopen \/ OpenNothing
      BY <1>1 DEF Start, StartFails
    <3> QED
      BY <3>1, OpenTypes DEF TypeOK
  <2> QED
    BY <1>1, <2>1, <2>2, <2>3, SameTypes DEF Start, StartFails, TypeOK
<1>2. CASE Wait \/ WaitReturns
  <2>1. LifeTypes'
    BY <1>2 DEF Wait, WaitReturns, TypeOK, LifeTypes
  <2> QED
    BY <1>2, <2>1, SameTypes DEF Wait, WaitReturns, TypeOK
<1>3. CASE Stop \/ BeginDestroy
  <2>1. stops' \in Nat
    BY <1>3 DEF Stop, BeginDestroy, TypeOK, LifeTypes
  <2>2. destroying' \in BOOLEAN
    BY <1>3 DEF Stop, BeginDestroy, TypeOK, LifeTypes
  <2>3. LifeTypes'
    BY <1>3, <2>1, <2>2 DEF Stop, BeginDestroy, BeginStop, TypeOK, LifeTypes, ServerPhases
  <2> QED
    BY <1>3, <2>3, SameTypes DEF Stop, BeginDestroy, BeginStop, TypeOK
<1>4. CASE StopService \/ Join
  <2>1. LifeTypes'
    BY <1>4 DEF StopService, Join, TypeOK, LifeTypes, ServerPhases
  <2> QED
    BY <1>4, <2>1, SameTypes DEF StopService, Join, TypeOK
<1>5. CASE JoinThrows \/ Destroy
  <2>1. LifeTypes'
    BY <1>5 DEF JoinThrows, Destroy, TypeOK, LifeTypes, ServerPhases
  <2>2. SessionTypes' /\ WireTypes' /\ accepting' \in BOOLEAN
    BY <1>5, CloseSocketsTypes DEF JoinThrows, Destroy, TypeOK, CloseSockets
  <2> QED
    BY <1>5, <2>1, <2>2, SameTypes DEF JoinThrows, Destroy, TypeOK
<1> QED
  BY <1>1, <1>2, <1>3, <1>4, <1>5 DEF ServerLife

\* So does the destruction of the connector.
LEMMA TypeConnector ==
  ASSUME TypeOK, DestroyConnector
  PROVE  TypeOK'
<1>1. ClientTypes'
  <2>1. client' \in [Clients -> ClientSession]
    BY DEF DestroyConnector, TypeOK, ClientTypes, ClientSession, ClientPhases
  <2>2. promise' \in [Clients -> Outcome]
    BY NoMessages DEF DestroyConnector, TypeOK, ClientTypes
  <2> QED
    BY <2>1, <2>2 DEF DestroyConnector, ClientTypes
<1>2. WireTypes'
  BY DEF DestroyConnector, TypeOK, WireTypes, LinkStates
<1> QED
  BY <1>1, <1>2, SameTypes DEF DestroyConnector, TypeOK, serverVars

\* Every step keeps the types.
LEMMA TypeStep == TypeOK /\ [Next]_vars => TypeOK'
<1> SUFFICES ASSUME TypeOK, [Next]_vars PROVE TypeOK'
  OBVIOUS
<1>1. CASE UNCHANGED vars
  BY <1>1, SameTypes DEF TypeOK, vars, serverVars
<1>2. CASE Next
  BY <1>2, TypeClient, TypeServer, TypeLife, TypeConnector DEF Next, ServerLife
<1> QED
  BY <1>1, <1>2

\* Every variable keeps its type, whatever clients, server and network do.
THEOREM NetworkTypes == Spec => []TypeOK
BY TypeInit, TypeStep, PTL DEF Spec

-----------------------------------------------------------------------------
(* Answers                                                                 *)

\* An answer that fits goes on to fit when more values are seen.
LEMMA FitsGrows ==
  ASSUME NEW req, NEW r, NEW n, NEW S, NEW T, S \subseteq T, Fits(req, r, n, S)
  PROVE  Fits(req, r, n, T)
BY DEF Fits

ClientInv(c) == ServedOnce(c) /\ AnswerFits(c) /\ PromisePending(c) /\ SentWhole(c)

\* A step that leaves a client's request, connection and answer alone, and records
\* what becomes of its key.
LEMMA Bystander ==
  ASSUME NEW d \in Clients, ClientInv(d),
         client'[d] = client[d], promise'[d] = promise[d], toClient'[d] = toClient[d],
         session'[d] = session[d], applied'[d] = applied[d], seen[d] \subseteq seen'[d],
         client[d].pc \in Waiting => store'[client[d].req.key] \in seen'[d]
  PROVE  ClientInv(d)'
<1>1. ServedOnce(d)' /\ PromisePending(d)' /\ SentWhole(d)'
  BY DEF ClientInv, ServedOnce, PromisePending, SentWhole
<1>2. AnswerFits(d)'
  BY FitsGrows DEF ClientInv, AnswerFits
<1> QED
  BY <1>1, <1>2 DEF ClientInv

\* The same for a step that leaves the database alone.
LEMMA Unconcerned ==
  ASSUME NEW d \in Clients, ClientInv(d), UNCHANGED <<dbVars, history>>,
         client'[d] = client[d], promise'[d] = promise[d], toClient'[d] = toClient[d],
         session'[d] = session[d]
  PROVE  ClientInv(d)'
<1>1. client[d].pc \in Waiting => store'[client[d].req.key] \in seen'[d]
  BY DEF ClientInv, AnswerFits, dbVars, history
<1>2. applied'[d] = applied[d] /\ seen[d] \subseteq seen'[d]
  BY DEF history
<1> QED
  BY <1>1, <1>2, Bystander

\* A session in a later phase that has not answered yet, or ends.
LEMMA SessionMoves ==
  ASSUME NEW d \in Clients, ClientInv(d), UNCHANGED <<dbVars, history>>,
         client'[d] = client[d], promise'[d] = promise[d], toClient'[d] = toClient[d],
         session'[d].response = session[d].response, session'[d].left = session[d].left,
         session'[d].spoiled = session[d].spoiled,
         session[d].pc # "none",
         session'[d].pc = "end" \/ session[d].pc \in {"queued", "length", "body"}
  PROVE  ClientInv(d)'
<1>1. ServedOnce(d)' /\ PromisePending(d)' /\ SentWhole(d)'
  BY DEF ClientInv, ServedOnce, PromisePending, SentWhole, history
<1>2. AnswerFits(d)'
  BY DEF ClientInv, AnswerFits, dbVars, history
<1> QED
  BY <1>1, <1>2 DEF ClientInv

\* A client session in a later phase, before its answer is read.
LEMMA ClientMoves ==
  ASSUME NEW d \in Clients, ClientInv(d), UNCHANGED <<dbVars, history>>,
         client'[d].req = client[d].req, promise'[d] = promise[d], toClient'[d] = toClient[d],
         session'[d] = session[d],
         client[d].pc \in Waiting, client'[d].pc \in Waiting,
         client'[d].pc \in {"resolve", "connect"} => client[d].pc \in {"resolve", "connect"},
         client'[d].pc = "body" => client[d].pc = "body"
  PROVE  ClientInv(d)'
<1>1. ServedOnce(d)' /\ PromisePending(d)' /\ SentWhole(d)'
  BY DEF ClientInv, ServedOnce, PromisePending, SentWhole, history, Waiting
<1>2. AnswerFits(d)'
  BY DEF ClientInv, AnswerFits, dbVars, history
<1> QED
  BY <1>1, <1>2 DEF ClientInv

\* A client session ends, with the answer that it read or without one.
LEMMA ClientStops ==
  ASSUME TypeOK, NEW d \in Clients, ClientInv(d), UNCHANGED <<dbVars, history>>,
         client[d].pc \in Waiting, client'[d].pc = "end", client'[d].req = client[d].req,
         session'[d] = session[d], toClient'[d] = toClient[d] \/ toClient'[d] = 0 \/ client[d].pc = "body",
         promise'[d].kind \in {"error", "broken"} \/
           (/\ promise'[d].kind = "answer"
            /\ client[d].pc = "body"
            /\ promise'[d].response = session[d].response)
  PROVE  ClientInv(d)'
<1>1. ServedOnce(d)'
  <2>1. client[d].pc = "body" => session[d].pc \notin {"none", "queued", "length", "body", "handle"}
    BY DEF ClientInv, ServedOnce
  <2> QED
    BY <2>1 DEF ClientInv, ServedOnce, history
<1>2. PromisePending(d)' /\ SentWhole(d)'
  BY DEF ClientInv, PromisePending, SentWhole, Waiting
<1>3. AnswerFits(d)'
  <2>1. client'[d].pc \notin Waiting
    BY DEF Waiting
  <2>2. promise'[d].kind = "answer" =>
          Fits(client'[d].req, promise'[d].response, applied'[d], seen'[d])
    BY DEF ClientInv, AnswerFits, history
  <2> QED
    BY <2>1, <2>2 DEF AnswerFits
<1> QED
  BY <1>1, <1>2, <1>3 DEF ClientInv

\* Client sessions keep the invariant.
LEMMA InvClient ==
  ASSUME TypeOK, \A d \in Clients : ClientInv(d), NEW c \in Clients,
         Execute(c) \/ ClientStep(c) \/ LinkFails(c)
  PROVE  \A d \in Clients : ClientInv(d)'
<1>0. /\ client \in [Clients -> ClientSession] /\ promise \in [Clients -> Outcome]
      /\ session \in [Clients -> ServerSession]
      /\ toClient \in [Clients -> 0 .. ServerBuffer]
      /\ seen \in [Clients -> SUBSET (Values \cup {Empty, Missing})]
  BY DEF TypeOK, ClientTypes, SessionTypes, WireTypes, HistoryTypes
<1>f. client[c] \in ClientSession /\ ClientInv(c)
  BY <1>0
<1>1. CASE Execute(c)
  <2>1. PICK req \in Requests[c] :
          /\ client' = [client EXCEPT ![c] = [pc |-> "resolve", req |-> req, need |-> 0]]
          /\ seen' = [seen EXCEPT ![c] = {store[req.key]}]
    BY <1>1 DEF Execute
  <2>2. UNCHANGED <<dbVars, promise, toClient, session, applied>> /\ client[c].pc = "new"
    BY <1>1 DEF Execute, wireVars
  <2>3. ASSUME NEW d \in Clients, d # c PROVE ClientInv(d)'
    <3>1. client'[d] = client[d] /\ seen'[d] = seen[d]
      BY <1>0, <2>1, <2>3
    <3>2. client[d].pc \in Waiting => store'[client[d].req.key] \in seen'[d]
      BY <2>2, <3>1 DEF ClientInv, AnswerFits, dbVars
    <3> QED
      BY <2>2, <3>1, <3>2, Bystander
  <2>4. ClientInv(c)'
    <3>1. client'[c] = [pc |-> "resolve", req |-> req, need |-> 0] /\ seen'[c] = {store[req.key]}
      BY <1>0, <2>1
    <3>2. ServedOnce(c)' /\ SentWhole(c)'
      BY <1>f, <2>2, <3>1 DEF ClientInv, ServedOnce, SentWhole
    <3>3. PromisePending(c)'
      BY <1>f, <2>2, <3>1 DEF ClientInv, PromisePending
    <3>4. AnswerFits(c)'
      <4>1. promise[c].kind # "answer" /\ toClient[c] = 0
        BY <1>f, <2>2 DEF ClientInv, ServedOnce
      <4> QED
        BY <2>2, <3>1, <4>1 DEF AnswerFits, dbVars
    <3> QED
      BY <3>2, <3>3, <3>4 DEF ClientInv
  <2> QED
    BY <2>3, <2>4
<1>2. CASE OnResolve(c) \/ OnSend(c) \/ OnConnect(c) \/ LinkFails(c)
  <2>1. UNCHANGED <<dbVars, history, promise, toClient>>
    BY <1>2 DEF OnResolve, OnSend, OnConnect, LinkFails, wireVars, clientVars
  <2>2. ASSUME NEW d \in Clients, d # c PROVE ClientInv(d)'
    <3>1. client'[d] = client[d] /\ session'[d] = session[d]
      BY <1>0, <1>2, <2>2 DEF OnResolve, OnSend, OnConnect, LinkFails, clientVars
    <3> QED
      BY <2>1, <3>1, Unconcerned
  <2>3. ClientInv(c)'
    <3>1. CASE LinkFails(c)
      BY <1>f, <2>1, <3>1, Unconcerned DEF LinkFails, clientVars
    <3>2. CASE OnResolve(c)
      <4>1. /\ client'[c].req = client[c].req /\ session' = session
            /\ client[c].pc = "resolve" /\ client'[c].pc = "connect"
        BY <1>0, <1>f, <3>2 DEF OnResolve, ClientSession
      <4> QED
        BY <1>f, <2>1, <4>1, ClientMoves DEF Waiting
    <3>3. CASE OnSend(c)
      <4>1. /\ client'[c].req = client[c].req /\ session' = session
            /\ client[c].pc = "send" /\ client'[c].pc = "length"
        BY <1>0, <1>f, <3>3 DEF OnSend, ClientSession
      <4> QED
        BY <1>f, <2>1, <4>1, ClientMoves DEF Waiting
    <3>4. CASE OnConnect(c)
      <4>1. /\ client[c].pc = "connect" /\ client'[c].pc = "send" /\ client'[c].req = client[c].req
            /\ session'[c].pc = "queued" /\ session'[c].left = session[c].left
            /\ session'[c].spoiled = session[c].spoiled /\ session'[c].response = session[c].response
        BY <1>0, <1>f, <3>4 DEF OnConnect, ClientSession, ServerSession
      <4>2. ServedOnce(c)' /\ SentWhole(c)' /\ PromisePending(c)'
        BY <1>f, <2>1, <4>1 DEF ClientInv, ServedOnce, SentWhole, PromisePending, Waiting, history
      <4>3. AnswerFits(c)'
        BY <1>f, <2>1, <4>1 DEF ClientInv, AnswerFits, ServedOnce, Waiting, history, dbVars
      <4> QED
        BY <4>2, <4>3 DEF ClientInv
    <3> QED
      BY <1>2, <3>1, <3>2, <3>3, <3>4
  <2> QED
    BY <2>2, <2>3
<1>3. CASE ClientReceive(c)
  <2> DEFINE n == Least(client[c].need, toClient[c])
  <2>1. /\ UNCHANGED <<dbVars, history, session>>
        /\ client[c].pc \in {"length", "body"}
        /\ toClient' = [toClient EXCEPT ![c] = @ - n]
        /\ n > 0
    BY <1>3 DEF ClientReceive
  <2>2. /\ toClient[c] > 0
        /\ \A d \in Clients \ {c} : toClient'[d] = toClient[d]
    <3>1. client[c].need \in Nat /\ toClient[c] \in Nat
      BY <1>0, NetworkAssumption DEF ClientSession
    <3>2. n <= toClient[c]
      BY <3>1, LeastFact
    <3>3. toClient[c] > 0
      <4>1. n \in Nat /\ n > 0
        BY <2>1, <3>1, LeastFact
      <4> HIDE DEF n
      <4> QED
        BY <3>1, <3>2, <4>1
    <3>4. \A d \in Clients \ {c} : toClient'[d] = toClient[d]
      BY <1>0, <2>1
    <3> QED
      BY <3>3, <3>4
  <2>3. \A d \in Clients \ {c} : client'[d] = client[d] /\ promise'[d] = promise[d]
    BY <1>0, <1>3 DEF ClientReceive, ClientEnds, SetPromise
  <2>4. ASSUME NEW d \in Clients, d # c PROVE ClientInv(d)'
    BY <2>1, <2>2, <2>3, <2>4, Unconcerned
  <2>5. /\ session[c].pc \notin {"none", "queued", "length", "body", "handle"}
        /\ Fits(client[c].req, session[c].response, applied[c], seen[c])
        /\ promise[c] = Unset
        /\ session[c].left = 0 /\ ~session[c].spoiled
    BY <1>f, <2>1, <2>2 DEF ClientInv, ServedOnce, AnswerFits, PromisePending, SentWhole, Waiting
  <2>6. /\ client'[c].req = client[c].req
        /\ \/ client'[c].pc \in {"length", "body"} /\ promise'[c] = promise[c]
           \/ /\ client'[c].pc = "end" /\ promise'[c].kind = "answer"
              /\ promise'[c].response = session[c].response
    <3>1. CASE n < client[c].need
      <4>1. client' = [client EXCEPT ![c].need = @ - n] /\ promise' = promise
        BY <1>3, <3>1 DEF ClientReceive
      <4> QED
        BY <1>0, <1>f, <2>1, <4>1 DEF ClientSession
    <3>2. CASE ~(n < client[c].need) /\ client[c].pc = "length"
      <4>1. client' = [client EXCEPT ![c].pc = "body", ![c].need = ContentLength(session[c].response)]
            /\ promise' = promise
        BY <1>3, <3>2 DEF ClientReceive
      <4> QED
        BY <1>0, <1>f, <4>1 DEF ClientSession
    <3>3. CASE ~(n < client[c].need) /\ client[c].pc # "length"
      <4>1. ClientEnds(c, [kind |-> "answer", response |-> Received(c)])
        BY <1>3, <3>3 DEF ClientReceive
      <4>2. Received(c) = session[c].response
        BY <2>5 DEF Received
      <4>3. promise'[c] = [kind |-> "answer", response |-> session[c].response]
        BY <1>0, <2>5, <4>1, <4>2 DEF ClientEnds, SetPromise
      <4>4. client'[c].pc = "end" /\ client'[c].req = client[c].req
        BY <1>0, <1>f, <4>1 DEF ClientEnds, ClientSession
      <4> QED
        BY <4>3, <4>4
    <3> QED
      BY <3>1, <3>2, <3>3
  <2>7. ServedOnce(c)' /\ SentWhole(c)' /\ PromisePending(c)'
    BY <2>1, <2>5, <2>6 DEF ServedOnce, SentWhole, PromisePending, Waiting, Unset
  <2>8. AnswerFits(c)'
    <3>1. client'[c].pc \in Waiting => store'[client'[c].req.key] \in seen'[c]
      BY <1>f, <2>1, <2>6 DEF ClientInv, AnswerFits, Waiting, dbVars, history
    <3>2. applied' = applied /\ seen' = seen /\ session' = session
      BY <2>1 DEF history
    <3>3. promise'[c].kind = "answer" => promise'[c].response = session[c].response
      BY <2>5, <2>6 DEF Unset
    <3> QED
      BY <2>5, <2>6, <3>1, <3>2, <3>3 DEF AnswerFits
  <2>9. ClientInv(c)'
    BY <2>7, <2>8 DEF ClientInv
  <2> QED
    BY <2>4, <2>9
<1>4. CASE OnError(c)
  <2>1. /\ UNCHANGED <<dbVars, history, session, toClient>>
        /\ client[c].pc \in Waiting
        /\ ClientEnds(c, Failed("error"))
    BY <1>4 DEF OnError, Waiting
  <2>2. ASSUME NEW d \in Clients, d # c PROVE ClientInv(d)'
    <3>1. client'[d] = client[d] /\ promise'[d] = promise[d]
      BY <1>0, <2>1, <2>2 DEF ClientEnds, SetPromise
    <3> QED
      BY <2>1, <3>1, Unconcerned
  <2>3. ClientInv(c)'
    <3>1. promise[c] = Unset
      BY <1>f, <2>1 DEF ClientInv, PromisePending
    <3>2. /\ client'[c].pc = "end" /\ client'[c].req = client[c].req
          /\ promise'[c].kind = "error"
      BY <1>0, <1>f, <2>1, <3>1 DEF ClientEnds, SetPromise, Failed, ClientSession
    <3> QED
      BY <1>f, <2>1, <3>2, ClientStops
  <2> QED
    BY <2>2, <2>3
<1> QED
  BY <1>1, <1>2, <1>3, <1>4 DEF ClientStep

\* Every answer fits into the buffer of a socket, so that it is sent at once.
AnswersFit == \A r \in Response : Units(r) <= ServerBuffer

\* What a handler records of the database, for any client.
LEMMA HandleRecords ==
  ASSUME TypeOK, NEW c \in Clients, Handle(c), NEW d \in Clients
  PROVE  /\ seen[d] \subseteq seen'[d]
         /\ d # c => applied'[d] = applied[d]
         /\ client[d].pc \in Waiting /\ store[client[d].req.key] \in seen[d] =>
              store'[client[d].req.key] \in seen'[d]
<1> DEFINE req == client[c].req
<1>0. /\ store \in [Keys -> Values \cup {Empty, Missing}] /\ req.key \in Keys
      /\ seen \in [Clients -> SUBSET (Values \cup {Empty, Missing})]
      /\ applied \in [Clients -> Nat]
  BY DEF TypeOK, DbTypes, Contents, ClientTypes, ClientSession, Request, HistoryTypes
<1>1. CASE UNCHANGED <<dbVars, history>>
  BY <1>1 DEF dbVars, history
<1>2. CASE \E x \in Values \cup {Empty, Missing} : HandleWrites(c, x)
  <2>1. PICK x : store' = [store EXCEPT ![req.key] = x] /\ Changed(c, req.key, x)
    BY <1>2 DEF HandleWrites
  <2>2. /\ seen'[d] = IF client[d].pc \in Waiting /\ client[d].req.key = req.key
                      THEN seen[d] \cup {x} ELSE seen[d]
        /\ d # c => applied'[d] = applied[d]
    BY <1>0, <2>1 DEF Changed
  <2>3. \A k \in Keys : k # req.key => store'[k] = store[k]
    BY <1>0, <2>1
  <2>4. store'[req.key] = x
    BY <1>0, <2>1
  <2>5. client[d].req.key \in Keys
    BY DEF TypeOK, ClientTypes, ClientSession, Request
  <2> QED
    BY <2>2, <2>3, <2>4, <2>5
<1> QED
  BY <1>1, <1>2, HandleChanges

\* The answer of a handler fits the request, if its client still waits for it.
LEMMA HandleFits ==
  ASSUME TypeOK, NEW c \in Clients, Handle(c), ClientInv(c)
  PROVE  \E response \in Response :
           /\ Respond(c, response)
           /\ client[c].pc \in Waiting => Fits(client[c].req, response, applied'[c], seen'[c])
<1> DEFINE req == client[c].req
<1>0. /\ applied[c] = 0
      /\ client[c].pc \in Waiting => store[req.key] \in seen[c]
  BY HandleResponds DEF ClientInv, ServedOnce, AnswerFits
<1>1. store[req.key] \in Values \cup {Empty, Missing}
  BY DEF TypeOK, DbTypes, Contents, ClientTypes, ClientSession, Request
<1>2. \A k, x : Changed(c, k, x) => applied'[c] = 1
  BY <1>0 DEF Changed, TypeOK, HistoryTypes
<1>3. CASE HandleGet(c)
  <2>1. seen' = seen /\ req.type = "Get"
    BY <1>3 DEF HandleGet, history
  <2>2. CASE store[req.key] = Missing
    BY <1>0, <1>3, <2>1, <2>2 DEF HandleGet, Response, Statuses, Fits
  <2>3. CASE store[req.key] # Missing
    <3> DEFINE r == [status |-> "Ok", value |-> store[req.key]]
    <3>1. r \in Response
      BY <1>1, <2>3 DEF Response, Statuses
    <3>2. Respond(c, r)
      BY <1>3, <2>3 DEF HandleGet
    <3>3. client[c].pc \in Waiting => Fits(req, r, applied'[c], seen'[c])
      BY <1>0, <2>1 DEF Fits
    <3> QED
      BY <3>1, <3>2, <3>3
  <2> QED
    BY <2>2, <2>3
<1>4. CASE HandlePut(c) \/ HandleDelete(c)
  <2> DEFINE r == [status |-> "Ok", value |-> Empty]
  <2>1. r \in Response
    BY DEF Response, Statuses
  <2>2. Respond(c, r) /\ req.type \in {"Put", "Delete"}
    BY <1>4 DEF HandlePut, HandleDelete
  <2>3. applied'[c] = 1
    BY <1>2, <1>4 DEF HandlePut, HandleDelete, StorePut
  <2>4. Fits(req, r, applied'[c], seen'[c])
    BY <2>2, <2>3 DEF Fits
  <2> QED
    BY <2>1, <2>2, <2>4
<1>5. CASE HandleOther(c)
  <2> DEFINE r == [status |-> "InvalidRequestType", value |-> Empty]
  <2>1. r \in Response
    BY DEF Response, Statuses
  <2>2. Respond(c, r) /\ req.type = "Other" /\ applied' = applied
    BY <1>5 DEF HandleOther, history
  <2>3. Fits(req, r, applied'[c], seen'[c])
    BY <1>0, <2>2 DEF Fits
  <2> QED
    BY <2>1, <2>2, <2>3
<1>6. CASE HandleThrows(c)
  <2> DEFINE r == [status |-> "UnknownError", value |-> Empty]
  <2>1. r \in Response
    BY DEF Response, Statuses
  <2>2. Respond(c, r) /\ req.type \in {"Get", "Put"}
    BY <1>6 DEF HandleThrows
  <2>3. applied'[c] \in {0, 1}
    BY <1>0, <1>2, <1>6 DEF HandleThrows, StorePut, history
  <2>4. Fits(req, r, applied'[c], seen'[c])
    BY <2>2, <2>3 DEF Fits
  <2> QED
    BY <2>1, <2>2, <2>4
<1> QED
  BY <1>3, <1>4, <1>5, <1>6 DEF Handle

\* An answer that is sent at once keeps the invariant.
LEMMA InvHandle ==
  ASSUME AnswersFit, TypeOK, \A d \in Clients : ClientInv(d), NEW c \in Clients, Handle(c)
  PROVE  \A d \in Clients : ClientInv(d)'
<1>0. /\ session \in [Clients -> ServerSession] /\ toClient \in [Clients -> 0 .. ServerBuffer]
      /\ ClientInv(c) /\ session[c].pc = "handle"
      /\ UNCHANGED clientVars
  BY HandleResponds DEF TypeOK, SessionTypes, WireTypes
<1>1. PICK response \in Response :
        /\ Respond(c, response)
        /\ client[c].pc \in Waiting => Fits(client[c].req, response, applied'[c], seen'[c])
  BY <1>0, HandleFits
<1> DEFINE n == Least(Units(response), ServerBuffer)
<1>2. Units(response) - n = 0
  <2>1. Units(response) \in Nat /\ Units(response) <= ServerBuffer
    <3>1. response.value \in Values \cup {Empty, Garbage}
      BY DEF Response
    <3> QED
      BY <3>1, LengthType DEF AnswersFit, Units
  <2> QED
    BY <2>1, NetworkAssumption DEF Least
<1> HIDE DEF n
<1>3. /\ \A d \in Clients \ {c} : session'[d] = session[d] /\ toClient'[d] = toClient[d]
      /\ session'[c].pc = "write" /\ session'[c].response = response
      /\ session'[c].left = Units(response) - n /\ session'[c].spoiled = session[c].spoiled
  <2> DEFINE m == Units(response) - n
  <2>1. /\ session' = [session EXCEPT ![c].pc = "write", ![c].inWait = FALSE,
                                      ![c].response = response, ![c].left = m]
        /\ toClient' = [toClient EXCEPT ![c] = n]
    BY <1>1 DEF Respond, n
  <2> HIDE DEF m
  <2>2. \A d \in Clients \ {c} : session'[d] = session[d] /\ toClient'[d] = toClient[d]
    BY <1>0, <2>1
  <2>3. session[c] \in ServerSession
    BY <1>0
  <2>4. session'[c] = [session[c] EXCEPT !.pc = "write", !.inWait = FALSE, !.response = response, !.left = m]
    BY <1>0, <2>1
  <2>5. /\ session'[c].pc = "write" /\ session'[c].response = response
        /\ session'[c].left = m /\ session'[c].spoiled = session[c].spoiled
    BY <2>3, <2>4 DEF ServerSession
  <2> QED
    BY <2>2, <2>5 DEF m
<1>4. ASSUME NEW d \in Clients, d # c PROVE ClientInv(d)'
  <2>1. ClientInv(d) /\ client'[d] = client[d] /\ promise'[d] = promise[d]
    BY <1>0 DEF clientVars
  <2>2. client[d].pc \in Waiting => store[client[d].req.key] \in seen[d]
    BY <2>1 DEF ClientInv, AnswerFits
  <2>3. session'[d] = session[d] /\ toClient'[d] = toClient[d]
    BY <1>3, <1>4
  <2>4. /\ seen[d] \subseteq seen'[d] /\ applied'[d] = applied[d]
        /\ client[d].pc \in Waiting => store'[client[d].req.key] \in seen'[d]
    BY <1>4, <2>2, HandleRecords
  <2> QED
    BY <2>1, <2>3, <2>4, Bystander
<1>5. ClientInv(c)'
  <2>1. client' = client /\ promise' = promise
    BY <1>0 DEF clientVars
  <2>2. ServedOnce(c)'
    BY <1>0, <1>3, <2>1 DEF ClientInv, ServedOnce
  <2>3. PromisePending(c)'
    BY <1>0, <2>1 DEF ClientInv, PromisePending
  <2>4. SentWhole(c)'
    BY <1>0, <1>2, <1>3 DEF ClientInv, SentWhole
  <2>5. AnswerFits(c)'
    <3>1. promise[c].kind # "answer"
      BY <1>0 DEF ClientInv, ServedOnce
    <3>2. client[c].pc \in Waiting => store'[client[c].req.key] \in seen'[c]
      BY <1>0, HandleRecords DEF ClientInv, AnswerFits
    <3> QED
      BY <1>1, <1>3, <2>1, <3>1, <3>2 DEF AnswerFits
  <2> QED
    BY <2>2, <2>3, <2>4, <2>5 DEF ClientInv
<1> QED
  BY <1>4, <1>5

\* Server sessions keep the invariant.
LEMMA InvServer ==
  ASSUME AnswersFit, TypeOK, \A d \in Clients : ClientInv(d), NEW c \in Clients, ServerStep(c)
  PROVE  \A d \in Clients : ClientInv(d)'
<1>0. /\ session \in [Clients -> ServerSession] /\ session[c] \in ServerSession /\ ClientInv(c)
  BY DEF TypeOK, SessionTypes
<1>1. ASSUME /\ UNCHANGED <<dbVars, history, client, promise, toClient>>
             /\ \A d \in Clients \ {c} : session'[d] = session[d]
             /\ session'[c].response = session[c].response /\ session'[c].left = session[c].left
             /\ session'[c].spoiled = session[c].spoiled
             /\ session[c].pc # "none"
             /\ session'[c].pc = "end" \/ session[c].pc \in {"queued", "length", "body"}
      PROVE  \A d \in Clients : ClientInv(d)'
  <2>1. ASSUME NEW d \in Clients, d # c PROVE ClientInv(d)'
    BY <1>1, <2>1, Unconcerned
  <2>2. ClientInv(c)'
    BY <1>0, <1>1, SessionMoves
  <2> QED
    BY <2>1, <2>2
<1>2. CASE OnAccept(c)
  <2>1. session' = [session EXCEPT ![c].pc = "length", ![c].need = 1] /\ session[c].pc = "queued"
    BY <1>2 DEF OnAccept
  <2>2. UNCHANGED <<dbVars, history, client, promise, toClient>>
    BY <1>2 DEF OnAccept, clientVars, wireVars
  <2> QED
    BY <1>0, <1>1, <2>1, <2>2 DEF ServerSession
<1>3. CASE ServerReceive(c)
  <2>1. session[c].pc \in {"length", "body"} /\ UNCHANGED <<dbVars, history, client, promise, toClient>>
    BY <1>3 DEF ServerReceive, clientVars
  <2>2. \E p \in {session[c].pc, "body", "handle"} : \E n, w :
          session' = [session EXCEPT ![c].pc = p, ![c].need = n, ![c].inWait = w]
    <3> DEFINE n == Least(session[c].need, toServer[c])
    <3>1. CASE n < session[c].need
      <4> DEFINE m == session[c].need - n
      <4>1. session' = [session EXCEPT ![c].need = m]
        BY <1>3, <3>1 DEF ServerReceive
      <4> HIDE DEF m
      <4>2. session' = [session EXCEPT ![c].pc = session[c].pc, ![c].need = m, ![c].inWait = session[c].inWait]
        BY <1>0, <4>1 DEF ServerSession
      <4> QED
        BY <4>2
    <3>2. CASE ~(n < session[c].need) /\ session[c].pc = "length"
      <4> DEFINE m == ContentLength(client[c].req)
      <4>1. session' = [session EXCEPT ![c].pc = "body", ![c].need = m]
        BY <1>3, <3>2 DEF ServerReceive
      <4> HIDE DEF m
      <4>2. session' = [session EXCEPT ![c].pc = "body", ![c].need = m, ![c].inWait = session[c].inWait]
        BY <1>0, <4>1 DEF ServerSession
      <4> QED
        BY <4>2
    <3>3. CASE ~(n < session[c].need) /\ session[c].pc # "length"
      BY <1>3, <3>3 DEF ServerReceive
    <3> QED
      BY <3>1, <3>2, <3>3
  <2>3. /\ \A d \in Clients \ {c} : session'[d] = session[d]
        /\ session'[c].response = session[c].response /\ session'[c].left = session[c].left
        /\ session'[c].spoiled = session[c].spoiled
    BY <1>0, <2>2 DEF ServerSession
  <2> QED
    BY <1>1, <2>1, <2>3
<1>4. CASE Handle(c)
  BY <1>4, InvHandle
<1>5. CASE ServerWrite(c)
  <2>1. session[c].left = 0
    BY <1>0 DEF ClientInv, SentWhole
  <2>2. session' = [session EXCEPT ![c].pc = "end"] /\ session[c].pc = "write"
    BY <1>5, <2>1 DEF ServerWrite
  <2>3. UNCHANGED <<dbVars, history, client, promise, toClient>>
    BY <1>5, <2>1 DEF ServerWrite, clientVars
  <2> QED
    BY <1>0, <1>1, <2>2, <2>3 DEF ServerSession
<1>6. CASE OnSessionError(c)
  <2>1. session' = [session EXCEPT ![c].pc = "end"] /\ session[c].pc \in {"length", "body", "write"}
    BY <1>6 DEF OnSessionError
  <2>2. UNCHANGED <<dbVars, history, client, promise, toClient>>
    BY <1>6 DEF OnSessionError, clientVars, wireVars
  <2> QED
    BY <1>0, <1>1, <2>1, <2>2 DEF ServerSession
<1> QED
  BY <1>2, <1>3, <1>4, <1>5, <1>6 DEF ServerStep

\* What happens to the server as a whole keeps the invariant.
LEMMA InvLife ==
  ASSUME TypeOK, NEW d \in Clients, ClientInv(d), ServerLife
  PROVE  ClientInv(d)'
<1>o. CASE Start \/ StartFails
  <2>1. UNCHANGED <<client, promise, toClient, session>> /\ (Reopen \/ OpenNothing)
    BY <1>o DEF Start, StartFails, clientVars, wireVars
  <2>2. CASE Reopen
    <3>1. PICK segments \in saved : OpenWith(segments, logged)
      BY <2>2 DEF Reopen
    <3>2. /\ applied' = applied
          /\ seen' = [c \in Clients |-> IF client[c].pc \in Waiting
                                        THEN seen[c] \cup {store'[client[c].req.key]} ELSE seen[c]]
      BY <3>1 DEF OpenWith
    <3>3. seen[d] \subseteq seen'[d] /\ (client[d].pc \in Waiting => store'[client[d].req.key] \in seen'[d])
      BY <3>2
    <3> QED
      BY <2>1, <3>2, <3>3, Bystander
  <2>3. CASE OpenNothing
    <3>1. store' = store /\ UNCHANGED <<seen, applied>>
      BY <2>3 DEF OpenNothing, history
    <3>2. client[d].pc \in Waiting => store'[client[d].req.key] \in seen'[d]
      BY <3>1 DEF ClientInv, AnswerFits
    <3> QED
      BY <2>1, <3>1, <3>2, Bystander
  <2> QED
    BY <2>1, <2>2, <2>3
<1>1. ASSUME ~(Start \/ StartFails) PROVE UNCHANGED <<dbVars, history, client, promise, toClient>>
  BY <1>1 DEF ServerLife, Wait, WaitReturns, Stop, BeginDestroy, BeginStop, StopService,
              Join, JoinThrows, Destroy, clientVars, wireVars
<1>2. CASE ~(Start \/ StartFails) /\ (JoinThrows \/ Destroy)
  <2>1. session'[d] = IF session[d].pc = "none" THEN session[d] ELSE [session[d] EXCEPT !.pc = "end"]
    BY <1>2 DEF JoinThrows, Destroy, CloseSockets
  <2>2. session[d] \in ServerSession
    BY DEF TypeOK, SessionTypes
  <2>3. CASE session[d].pc = "none"
    BY <1>1, <1>2, <2>1, <2>3, Unconcerned
  <2>4. CASE session[d].pc # "none"
    <3>1. /\ session'[d].pc = "end" /\ session'[d].response = session[d].response
          /\ session'[d].left = session[d].left /\ session'[d].spoiled = session[d].spoiled
      BY <2>1, <2>2, <2>4 DEF ServerSession
    <3> QED
      BY <1>1, <1>2, <2>4, <3>1, SessionMoves
  <2> QED
    BY <2>3, <2>4
<1>3. CASE ~(Start \/ StartFails) /\ ~(JoinThrows \/ Destroy)
  <2>1. session' = session
    BY <1>3 DEF ServerLife, Wait, WaitReturns, Stop, BeginDestroy, BeginStop, StopService, Join
  <2> QED
    BY <1>1, <1>3, <2>1, Unconcerned
<1> QED
  BY <1>o, <1>2, <1>3

\* The destruction of the connector keeps the invariant.
LEMMA InvConnector ==
  ASSUME TypeOK, NEW d \in Clients, ClientInv(d), DestroyConnector
  PROVE  ClientInv(d)'
<1>1. UNCHANGED <<dbVars, history, session, toClient>>
  BY DEF DestroyConnector
<1>2. client[d] \in ClientSession
  BY DEF TypeOK, ClientTypes
<1>3. CASE client[d].pc \in Waiting
  <2>1. client'[d] = [client[d] EXCEPT !.pc = "end", !.need = 0] /\ promise'[d] = Failed("broken")
    BY <1>3 DEF DestroyConnector
  <2>2. client'[d].pc = "end" /\ client'[d].req = client[d].req /\ promise'[d].kind = "broken"
    BY <1>2, <2>1 DEF ClientSession, Failed
  <2> QED
    BY <1>1, <1>3, <2>2, ClientStops
<1>4. CASE client[d].pc \notin Waiting
  <2>1. client'[d] = client[d] /\ promise'[d] = promise[d]
    BY <1>4 DEF DestroyConnector
  <2> QED
    BY <1>1, <2>1, Unconcerned
<1> QED
  BY <1>3, <1>4

\* Initially no session has begun.
LEMMA InvInit == Init => \A c \in Clients : ClientInv(c)
BY DEF Init, ClientInv, ServedOnce, AnswerFits, PromisePending, SentWhole, NewSession, Unset, Waiting

\* Every step keeps the invariant, when every answer is sent at once.
LEMMA InvStep ==
  ASSUME AnswersFit, TypeOK, \A c \in Clients : ClientInv(c), [Next]_vars
  PROVE  \A c \in Clients : ClientInv(c)'
<1>1. CASE UNCHANGED vars
  <2>1. UNCHANGED <<dbVars, history, client, promise, toClient, session>>
    BY <1>1 DEF vars, clientVars, wireVars
  <2> QED
    BY <2>1, Unconcerned
<1>2. CASE Next
  BY <1>2, InvClient, InvServer, InvLife, InvConnector DEF Next, ServerLife
<1> QED
  BY <1>1, <1>2

-----------------------------------------------------------------------------
(* Promises, whatever the size of the answers                               *)

\* The end of a client session sets its promise for the first time.
LEMMA SetFirst ==
  ASSUME TypeOK, \A d \in Clients : PromisePending(d), NEW c \in Clients, client[c].pc \in Waiting,
         NEW outcome, outcome.kind # "terminate", ClientEnds(c, outcome)
  PROVE  \A d \in Clients : PromisePending(d)'
<1>1. promise \in [Clients -> Outcome] /\ client \in [Clients -> ClientSession]
  BY DEF TypeOK, ClientTypes
<1>2. promise[c] = Unset
  BY DEF PromisePending
<1>3. promise'[c] = outcome /\ client'[c].pc = "end"
  BY <1>1, <1>2 DEF ClientEnds, SetPromise, ClientSession
<1>4. \A d \in Clients \ {c} : promise'[d] = promise[d] /\ client'[d] = client[d]
  BY <1>1 DEF ClientEnds, SetPromise
<1> QED
  BY <1>3, <1>4 DEF PromisePending, Waiting

\* No step sets a promise twice.
LEMMA PendingStep ==
  ASSUME TypeOK, \A d \in Clients : PromisePending(d), [Next]_vars
  PROVE  \A d \in Clients : PromisePending(d)'
<1>0. client \in [Clients -> ClientSession] /\ promise \in [Clients -> Outcome]
  BY DEF TypeOK, ClientTypes
<1>1. ASSUME NEW c \in Clients, Execute(c) \/ OnResolve(c) \/ OnConnect(c) \/ OnSend(c)
      PROVE  \A d \in Clients : PromisePending(d)'
  <2>1. /\ promise' = promise /\ client[c].pc \in Waiting \cup {"new"}
        /\ \A d \in Clients \ {c} : client'[d] = client[d]
    BY <1>0, <1>1 DEF Execute, OnResolve, OnConnect, OnSend, Waiting
  <2> QED
    BY <2>1 DEF PromisePending
<1>2. ASSUME NEW c \in Clients, ClientReceive(c)
      PROVE  \A d \in Clients : PromisePending(d)'
  <2>1. client[c].pc \in Waiting
    BY <1>2 DEF ClientReceive, Waiting
  <2>2. CASE promise' = promise /\ \A d \in Clients \ {c} : client'[d] = client[d]
    BY <2>1, <2>2 DEF PromisePending
  <2>3. CASE \E outcome : outcome.kind # "terminate" /\ ClientEnds(c, outcome)
    BY <2>1, <2>3, SetFirst
  <2>4. CASE promise' = promise /\ \E p, n : client' = [client EXCEPT ![c].pc = p, ![c].need = n]
    BY <1>0, <2>2, <2>4
  <2>5. CASE promise' = promise /\ \E n : client' = [client EXCEPT ![c].need = n]
    BY <1>0, <2>2, <2>5
  <2> QED
    BY <1>2, <2>3, <2>4, <2>5 DEF ClientReceive
<1>3. ASSUME NEW c \in Clients, OnError(c)
      PROVE  \A d \in Clients : PromisePending(d)'
  <2>1. client[c].pc \in Waiting /\ ClientEnds(c, Failed("error"))
    BY <1>3 DEF OnError, Waiting
  <2> QED
    BY <2>1, SetFirst DEF Failed
<1>4. ASSUME DestroyConnector, NEW d \in Clients
      PROVE  PromisePending(d)'
  <2>1. CASE client[d].pc \in Waiting
    <3>1. promise'[d].kind = "broken" /\ client'[d].pc = "end"
      BY <1>0, <1>4, <2>1 DEF DestroyConnector, Failed, ClientSession
    <3> QED
      BY <3>1 DEF PromisePending, Waiting
  <2>2. CASE client[d].pc \notin Waiting
    BY <1>4, <2>2 DEF DestroyConnector, PromisePending
  <2> QED
    BY <2>1, <2>2
<1>5. ASSUME UNCHANGED clientVars
      PROVE  \A d \in Clients : PromisePending(d)'
  BY <1>5 DEF clientVars, PromisePending
<1>6. ASSUME NEW c \in Clients, ServerStep(c) \/ LinkFails(c)
      PROVE  UNCHANGED clientVars
  BY <1>6, HandleResponds
  DEF ServerStep, LinkFails, OnAccept, ServerReceive, ServerWrite, OnSessionError
<1>7. ASSUME ServerLife
      PROVE  UNCHANGED clientVars
  BY <1>7 DEF ServerLife, Start, StartFails, Wait, WaitReturns, Stop, BeginDestroy, BeginStop,
              StopService, Join, JoinThrows, Destroy
<1>8. CASE UNCHANGED vars
  BY <1>5, <1>8 DEF vars
<1>9. CASE Next
  BY <1>1, <1>2, <1>3, <1>4, <1>5, <1>6, <1>7, <1>9 DEF Next, ClientStep, ServerLife
<1> QED
  BY <1>8, <1>9

-----------------------------------------------------------------------------
(* Threads of the server                                                    *)

\* After a handler its session writes.
LEMMA HandleSession ==
  ASSUME TypeOK, NEW c \in Clients, Handle(c)
  PROVE  session'[c].pc = "write" /\ \A d \in Clients \ {c} : session'[d] = session[d]
<1>1. PICK response \in Response : Respond(c, response)
  BY HandleResponds
<1> DEFINE m == Units(response) - Least(Units(response), ServerBuffer)
<1>2. session' = [session EXCEPT ![c].pc = "write", ![c].inWait = FALSE, ![c].response = response,
                                ![c].left = m]
  BY <1>1 DEF Respond
<1> HIDE DEF m
<1>3. session \in [Clients -> ServerSession]
  BY DEF TypeOK, SessionTypes
<1>4. session'[c] = [session[c] EXCEPT !.pc = "write", !.inWait = FALSE, !.response = response, !.left = m]
  BY <1>2, <1>3
<1>5. \A d \in Clients \ {c} : session'[d] = session[d]
  BY <1>2, <1>3
<1>6. session[c] \in ServerSession
  BY <1>3
<1> QED
  BY <1>4, <1>5, <1>6 DEF ServerSession

\* Every step keeps the pool idle when it is not to run.
LEMMA PoolStep ==
  ASSUME TypeOK, PoolIdle, [Next]_vars
  PROVE  PoolIdle'
<1>0. session \in [Clients -> ServerSession]
  BY DEF TypeOK, SessionTypes
<1>1. ASSUME UNCHANGED <<threads, serviceStopped, server>>,
             \A d \in Clients : session'[d].pc = "handle" => session'[d] = session[d]
      PROVE  PoolIdle'
  BY <1>1 DEF PoolIdle, Busy
<1>2. ASSUME NEW c \in Clients, Execute(c) \/ ClientStep(c) \/ LinkFails(c)
      PROVE  PoolIdle'
  <2>1. CASE OnConnect(c)
    <3>1. \A d \in Clients : session'[d].pc = "handle" => session'[d] = session[d]
      BY <1>0, <2>1 DEF OnConnect, ServerSession
    <3> QED
      BY <1>1, <2>1, <3>1 DEF OnConnect, serverVars, lifeVars
  <2>2. CASE ~OnConnect(c)
    BY <1>1, <1>2, <2>2
    DEF Execute, ClientStep, OnResolve, OnSend, ClientReceive, OnError, LinkFails, serverVars, lifeVars
  <2> QED
    BY <2>1, <2>2
<1>3. ASSUME NEW c \in Clients, ServerStep(c)
      PROVE  PoolIdle'
  <2>1. UNCHANGED <<threads, serviceStopped, server>>
    BY <1>3, HandleResponds
    DEF ServerStep, OnAccept, ServerReceive, ServerWrite, OnSessionError, serverVars, lifeVars
  <2>2. CASE ~ServerReceive(c)
    <3>1. session'[c].pc # "handle" /\ \A d \in Clients \ {c} : session'[d] = session[d]
      <4>1. CASE OnAccept(c)
        BY <1>0, <4>1 DEF OnAccept, ServerSession
      <4>2. CASE Handle(c)
        BY <1>0, <4>2, HandleSession
      <4>3. CASE ServerWrite(c)
        <5>1. CASE session[c].left = 0
          BY <1>0, <4>3, <5>1 DEF ServerWrite, ServerSession
        <5>2. CASE session[c].left # 0
          <6>1. session[c].pc = "write" /\ \E n, spoiled :
                  session' = [session EXCEPT ![c].left = n, ![c].spoiled = spoiled]
            BY <4>3, <5>2 DEF ServerWrite
          <6> QED
            BY <1>0, <6>1 DEF ServerSession
        <5> QED
          BY <5>1, <5>2
      <4>4. CASE OnSessionError(c)
        BY <1>0, <4>4 DEF OnSessionError, ServerSession
      <4> QED
        BY <1>3, <2>2, <4>1, <4>2, <4>3, <4>4 DEF ServerStep
    <3> QED
      BY <1>1, <2>1, <3>1
  <2>3. CASE ServerReceive(c)
    <3>1. \A d \in Clients \ {c} : session'[d] = session[d]
      BY <1>0, <2>3 DEF ServerReceive
    <3>2. session'[c].pc = "handle" /\ ~session'[c].inWait => FreeThread(FALSE)
      BY <1>0, <2>3 DEF ServerReceive, ServerSession
    <3>3. CASE FreeThread(FALSE)
      BY <2>1, <3>3 DEF PoolIdle, FreeThread
    <3>4. CASE ~FreeThread(FALSE)
      BY <2>1, <3>1, <3>2, <3>4 DEF PoolIdle, Busy
    <3> QED
      BY <3>3, <3>4
  <2> QED
    BY <2>2, <2>3
<1>4. CASE Start \/ StartFails
  BY <1>4 DEF Start, StartFails, PoolIdle, Busy
<1>5. CASE Wait \/ WaitReturns
  BY <1>5 DEF Wait, WaitReturns, PoolIdle, Busy
<1>6. CASE Stop \/ BeginDestroy \/ StopService
  BY <1>6 DEF Stop, BeginDestroy, BeginStop, StopService, PoolIdle, Busy
<1>7. CASE Join
  BY <1>7 DEF Join, PoolIdle, Busy
<1>8. CASE JoinThrows \/ Destroy
  <2>1. \A d \in Clients : session'[d].pc # "handle"
    BY <1>0, <1>8 DEF JoinThrows, Destroy, CloseSockets, ServerSession
  <2> QED
    BY <2>1 DEF PoolIdle, Busy
<1>9. CASE DestroyConnector \/ UNCHANGED vars
  BY <1>1, <1>9 DEF DestroyConnector, vars, serverVars, lifeVars
<1> QED
  BY <1>2, <1>3, <1>4, <1>5, <1>6, <1>7, <1>8, <1>9 DEF Next

\* Every step but a handler and a start leaves the database alone.
LEMMA OtherSteps ==
  ASSUME [Next]_vars, ~(Start \/ StartFails), ~\E c \in Clients : Handle(c)
  PROVE  UNCHANGED <<dbVars, kv>>
<1>1. ASSUME NEW c \in Clients, Execute(c) \/ ClientStep(c) \/ LinkFails(c)
      PROVE  UNCHANGED <<dbVars, kv>>
  BY <1>1 DEF Execute, ClientStep, OnResolve, OnConnect, OnSend, ClientReceive, OnError, LinkFails, history
<1>2. ASSUME NEW c \in Clients, OnAccept(c) \/ ServerReceive(c) \/ ServerWrite(c) \/ OnSessionError(c)
      PROVE  UNCHANGED <<dbVars, kv>>
  BY <1>2 DEF OnAccept, ServerReceive, ServerWrite, OnSessionError, history
<1>3. CASE Wait \/ WaitReturns \/ Stop \/ StopService \/ Join \/ BeginDestroy \/ JoinThrows \/ Destroy
           \/ DestroyConnector
  BY <1>3 DEF Wait, WaitReturns, Stop, BeginStop, StopService, Join, BeginDestroy, JoinThrows, Destroy,
              DestroyConnector, history
<1>4. CASE UNCHANGED vars
  BY <1>4 DEF vars, history
<1> QED
  BY <1>1, <1>2, <1>3, <1>4 DEF Next, ServerStep

\* A step changes the database when a handler runs, or when the server is started, which
\* opens it and writes nothing.
LEMMA OnlyHandlers ==
  ASSUME TypeOK, [Next]_vars
  PROVE  \/ UNCHANGED <<dbVars, kv>>
         \/ \E c \in Clients : session[c].pc = "handle"
         \/ (Start \/ StartFails) /\ opens' # opens /\ UNCHANGED <<writes, kv>>
<1>1. ASSUME NEW c \in Clients, Handle(c) PROVE session[c].pc = "handle"
  BY <1>1, HandleResponds
<1>2. CASE \E c \in Clients : Handle(c)
  BY <1>1, <1>2
<1>3. CASE Start \/ StartFails
  <2>1. opens' = opens + 1 /\ UNCHANGED <<writes, kv>>
    BY <1>3 DEF Start, StartFails, Reopen, OpenWith, OpenNothing, history
  <2> QED
    BY <1>3, <2>1 DEF TypeOK, DbTypes
<1>4. CASE ~(Start \/ StartFails) /\ ~\E c \in Clients : Handle(c)
  BY <1>4, OtherSteps
<1> QED
  BY <1>2, <1>3, <1>4

-----------------------------------------------------------------------------
(* Opening the database again                                               *)

\* Before the first open no thread runs handlers and nothing is logged.
Unopened ==
  opens = 0 => /\ server # "running" /\ threads = "none" /\ ~waiter /\ logged = {}
               /\ \A c \in Clients : session[c].pc # "handle"

\* What the log does not hold is in every segment that there may be.
LogOrSegments == \A m \in saved, k \in Keys \ logged : m[k] = store[k]

\* Until the second open nothing is lost, and nothing that the log does not hold is missing
\* in the segments; that open still finds all of it.
ReopenInv ==
  /\ Unopened
  /\ opens <= 1 => LogOrSegments
  /\ FirstReopenKeeps

\* Every step keeps the server idle before the first open.
LEMMA UnopenedStep ==
  ASSUME TypeOK, Unopened, [Next]_vars
  PROVE  Unopened'
<1>0. session \in [Clients -> ServerSession] /\ opens \in Nat
  BY DEF TypeOK, SessionTypes, DbTypes
<1>1. CASE opens # 0
  <2>1. opens' = opens \/ opens' = opens + 1
    <3>1. ASSUME NEW c \in Clients, Handle(c) PROVE opens' = opens
      BY <3>1, HandleChanges DEF HandleWrites, Changed, dbVars
    <3>2. CASE Start \/ StartFails
      BY <3>2 DEF Start, StartFails, Reopen, OpenWith, OpenNothing
    <3>3. CASE ~(Start \/ StartFails) /\ ~\E c \in Clients : Handle(c)
      BY <3>3, OtherSteps DEF dbVars
    <3> QED
      BY <3>1, <3>2, <3>3
  <2> QED
    BY <1>0, <1>1, <2>1 DEF Unopened
<1>2. CASE opens = 0
  <2>0. /\ server # "running" /\ threads = "none" /\ ~waiter /\ logged = {}
        /\ \A c \in Clients : session[c].pc # "handle"
    BY <1>2 DEF Unopened
  <2>1. CASE Start \/ StartFails
    <3>1. opens' = opens + 1
      BY <2>1 DEF Start, StartFails, Reopen, OpenWith, OpenNothing
    <3> QED
      BY <1>2, <3>1 DEF Unopened
  <2>2. ASSUME NEW c \in Clients, Execute(c) \/ ClientStep(c) \/ ServerStep(c) \/ LinkFails(c)
        PROVE  Unopened'
    <3>1. ~Handle(c)
      BY <2>0, HandleResponds
    <3>2. CASE Execute(c) \/ OnResolve(c) \/ OnSend(c) \/ ClientReceive(c) \/ OnError(c) \/ LinkFails(c)
      BY <2>0, <3>2 DEF Execute, OnResolve, OnSend, ClientReceive, OnError, LinkFails, Unopened,
                       dbVars, serverVars, lifeVars
    <3>3. CASE OnConnect(c)
      BY <1>0, <2>0, <3>3 DEF OnConnect, Unopened, dbVars, serverVars, lifeVars, ServerSession
    <3>4. CASE ServerStep(c)
      <4>1. FALSE
        BY <2>0, <3>1, <3>4
        DEF ServerStep, OnAccept, ServerReceive, ServerWrite, OnSessionError, ThreadFree, FreeThread
      <4> QED
        BY <4>1
    <3> QED
      BY <2>2, <3>2, <3>3, <3>4 DEF ClientStep
  <2>3. CASE Wait \/ WaitReturns \/ Stop \/ BeginDestroy \/ StopService \/ Join
    BY <2>0, <2>3 DEF Wait, WaitReturns, Stop, BeginDestroy, BeginStop, StopService, Join, Unopened, dbVars
  <2>4. CASE JoinThrows \/ Destroy
    <3>1. \A c \in Clients : session'[c].pc # "handle"
      BY <1>0, <2>0, <2>4 DEF JoinThrows, Destroy, CloseSockets, ServerSession
    <3> QED
      BY <2>0, <2>4, <3>1 DEF JoinThrows, Destroy, Unopened, dbVars
  <2>5. CASE DestroyConnector \/ UNCHANGED vars
    BY <2>0, <2>5 DEF DestroyConnector, Unopened, vars, dbVars, serverVars, lifeVars
  <2> QED
    BY <2>1, <2>2, <2>3, <2>4, <2>5 DEF Next
<1> QED
  BY <1>1, <1>2

\* A request that is executed is kept by log or segments.
LEMMA HandleKeeps ==
  ASSUME TypeOK, ReopenInv, NEW c \in Clients, Handle(c)
  PROVE  (opens' <= 1 => LogOrSegments') /\ FirstReopenKeeps'
<1>1. CASE UNCHANGED <<dbVars, history>>
  BY <1>1 DEF ReopenInv, LogOrSegments, FirstReopenKeeps, dbVars, history
<1>2. CASE \E x \in Values \cup {Empty, Missing} : HandleWrites(c, x)
  <2> DEFINE key == client[c].req.key
  <2>1. PICK x \in Values \cup {Empty, Missing} : HandleWrites(c, x)
    BY <1>2
  <2>2. /\ store' = [store EXCEPT ![key] = x] /\ kv' = [kv EXCEPT ![key] = x]
        /\ saved' \in {saved, saved \cup {store'}}
        /\ logged' = logged \cup {key} /\ opens' = opens
    BY <2>1 DEF HandleWrites, Changed
  <2>3. FirstReopenKeeps'
    BY <2>2 DEF ReopenInv, FirstReopenKeeps
  <2>4. ASSUME LogOrSegments PROVE LogOrSegments'
    <3> SUFFICES ASSUME NEW m \in saved', NEW k \in Keys \ logged' PROVE m[k] = store'[k]
      BY DEF LogOrSegments
    <3>1. k \in Keys \ logged /\ k # key
      BY <2>2
    <3>2. store'[k] = store[k]
      BY <2>2, <3>1 DEF TypeOK, DbTypes, Contents
    <3>3. m \in saved \/ m = store'
      BY <2>2
    <3> QED
      BY <2>4, <3>1, <3>2, <3>3 DEF LogOrSegments
  <2> QED
    BY <2>2, <2>3, <2>4 DEF ReopenInv
<1> QED
  BY <1>1, <1>2, HandleChanges

\* An open finds in log and segments all that was written, the first and the second time.
LEMMA OpenKeeps ==
  ASSUME TypeOK, ReopenInv, Reopen \/ OpenNothing
  PROVE  (opens' <= 1 => LogOrSegments') /\ FirstReopenKeeps'
<1>0. store \in Contents /\ saved \in SUBSET Contents /\ opens \in Nat
  BY DEF TypeOK, DbTypes
<1>1. CASE OpenNothing
  <2>1. opens' = opens + 1 /\ UNCHANGED <<store, saved, logged, kv>>
    BY <1>1 DEF OpenNothing, history
  <2>2. FirstReopenKeeps'
    BY <1>0, <2>1 DEF ReopenInv, FirstReopenKeeps
  <2>3. opens' <= 1 => LogOrSegments'
    BY <1>0, <2>1 DEF ReopenInv, LogOrSegments
  <2> QED
    BY <2>2, <2>3
<1>2. CASE Reopen
  <2>1. PICK segments \in saved : OpenWith(segments, logged)
    BY <1>2 DEF Reopen
  <2>2. /\ store' = [k \in Keys |-> IF k \in logged THEN store[k] ELSE segments[k]]
        /\ saved' = {segments} /\ opens' = opens + 1 /\ kv' = kv
    BY <2>1 DEF OpenWith
  <2>3. opens <= 1 => store' = store
    <3> SUFFICES ASSUME opens <= 1 PROVE store' = store
      OBVIOUS
    <3>1. \A k \in Keys : store'[k] = store[k]
      BY <2>2 DEF ReopenInv, LogOrSegments
    <3>2. store = [k \in Keys |-> store[k]] /\ store' = [k \in Keys |-> store'[k]]
      BY <1>0, <2>2 DEF Contents
    <3> QED
      BY <3>1, <3>2
  <2>4. FirstReopenKeeps'
    <3>1. opens' <= 2 => opens <= 1
      BY <1>0, <2>2
    <3>2. opens <= 1 => store = kv
      BY <1>0 DEF ReopenInv, FirstReopenKeeps
    <3> QED
      BY <2>2, <2>3, <3>1, <3>2 DEF FirstReopenKeeps
  <2>5. ASSUME opens' <= 1 PROVE LogOrSegments'
    <3>1. opens = 0
      BY <1>0, <2>2, <2>5
    <3>2. \A k \in Keys : segments[k] = store[k]
      BY <3>1 DEF ReopenInv, Unopened, LogOrSegments
    <3> QED
      BY <2>2, <2>3, <3>1, <3>2 DEF LogOrSegments
  <2> QED
    BY <2>4, <2>5
<1> QED
  BY <1>1, <1>2

\* Every step keeps the invariant.
LEMMA ReopenStep ==
  ASSUME TypeOK, ReopenInv, [Next]_vars
  PROVE  ReopenInv'
<1>1. Unopened'
  BY UnopenedStep DEF ReopenInv
<1>2. (opens' <= 1 => LogOrSegments') /\ FirstReopenKeeps'
  <2>1. CASE \E c \in Clients : Handle(c)
    BY <2>1, HandleKeeps
  <2>2. CASE Start \/ StartFails
    <3>1. Reopen \/ OpenNothing
      BY <2>2 DEF Start, StartFails
    <3> QED
      BY <3>1, OpenKeeps
  <2>3. CASE ~(Start \/ StartFails) /\ ~\E c \in Clients : Handle(c)
    <3>1. UNCHANGED <<dbVars, kv>>
      BY <2>3, OtherSteps
    <3> QED
      BY <3>1 DEF ReopenInv, LogOrSegments, FirstReopenKeeps, dbVars
  <2> QED
    BY <2>1, <2>2, <2>3
<1> QED
  BY <1>1, <1>2 DEF ReopenInv

-----------------------------------------------------------------------------
(* Theorems                                                                 *)

\* No handler of a client session sets a promise that is set already
\* (ClientSession::onReceive, onError and the destructor of the connector).
THEOREM PromiseSetOnceHolds == Spec => []PromiseSetOnce
<1> DEFINE Pending == \A c \in Clients : PromisePending(c)
<1>1. Init => Pending
  BY DEF Init, PromisePending, Unset
<1>2. TypeOK /\ Pending /\ [Next]_vars => Pending'
  BY PendingStep
<1>3. Pending => PromiseSetOnce
  BY DEF PromisePending, PromiseSetOnce
<1> HIDE DEF Pending
<1> QED
  BY <1>1, <1>2, <1>3, NetworkTypes, PTL DEF Spec

\* No thread of start runs a handler when there are none, or after stop: stop
\* joins them, and a start after it gives them nothing to run.
THEOREM PoolIdleHolds == Spec => []PoolIdle
<1>1. Init => PoolIdle
  BY DEF Init, PoolIdle, Busy, NewSession
<1>2. TypeOK /\ PoolIdle /\ [Next]_vars => PoolIdle'
  BY PoolStep
<1> QED
  BY <1>1, <1>2, NetworkTypes, PTL DEF Spec

\* After stop no request changes the database any more, unless in the thread that is in
\* wait; a start opens the database again and writes nothing to it.
THEOREM StopIsFinalHolds == Spec => StopIsFinal
<1>1. TypeOK /\ PoolIdle /\ [Next]_vars =>
        [(serviceStopped /\ server \notin {"stopping", "joining"} /\ Busy(TRUE) = {}) =>
           UNCHANGED <<writes, kv>> /\ (opens' = opens => UNCHANGED dbVars)]_vars
  <2> SUFFICES ASSUME TypeOK, PoolIdle, [Next]_vars, serviceStopped,
                      server \notin {"stopping", "joining"}, Busy(TRUE) = {}
               PROVE  UNCHANGED <<writes, kv>> /\ (opens' = opens => UNCHANGED dbVars)
    OBVIOUS
  <2>1. ASSUME NEW c \in Clients, session[c].pc = "handle" PROVE FALSE
    <3>1. session[c].inWait \in BOOLEAN
      BY DEF TypeOK, SessionTypes, ServerSession
    <3>2. c \in Busy(TRUE) \/ c \in Busy(FALSE)
      BY <2>1, <3>1 DEF Busy
    <3> QED
      BY <3>2 DEF PoolIdle
  <2> QED
    BY <2>1, OnlyHandlers DEF dbVars
<1> QED
  BY <1>1, NetworkTypes, PoolIdleHolds, PTL DEF Spec, StopIsFinal

\* A server that is stopped and started once more answers from all that was written: what
\* DatabaseServerImpl::init loses of the memtable by opening the database a second time
\* is in the log or in the segments.
THEOREM FirstReopenKeepsHolds == Spec => []FirstReopenKeeps
<1>1. Init => ReopenInv
  BY DEF Init, ReopenInv, Unopened, LogOrSegments, FirstReopenKeeps, NewSession
<1>2. TypeOK /\ ReopenInv /\ [Next]_vars => ReopenInv'
  BY ReopenStep
<1>3. ReopenInv => FirstReopenKeeps
  BY DEF ReopenInv
<1> QED
  BY <1>1, <1>2, <1>3, NetworkTypes, PTL DEF Spec

\* The invariant of client and server: every request is applied and answered at
\* most once, what the client can read is an answer to its request, and no answer
\* is left to be sent from a string that is gone.
THEOREM NetworkInvariant ==
  ASSUME AnswersFit
  PROVE  Spec => []NetworkInv
<1> DEFINE Inv == \A c \in Clients : ClientInv(c)
<1>1. Init => Inv
  BY InvInit
<1>2. TypeOK /\ Inv /\ [Next]_vars => Inv'
  BY InvStep
<1>3. PoolIdle /\ Inv => NetworkInv
  BY DEF NetworkInv, ClientInv
<1> HIDE DEF Inv
<1> QED
  BY <1>1, <1>2, <1>3, NetworkTypes, PoolIdleHolds, PTL DEF Spec

\* The future of execute delivers the answer to its own request: a value the key had
\* meanwhile, or a change that was made exactly once.
THEOREM AnswerCorrectHolds ==
  ASSUME AnswersFit
  PROVE  Spec => []AnswerCorrect
<1>1. NetworkInv => AnswerCorrect
  BY DEF NetworkInv, AnswerFits, AnswerCorrect
<1> QED
  BY <1>1, NetworkInvariant, PTL
=============================================================================
