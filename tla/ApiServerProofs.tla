-------------------------- MODULE ApiServerProofs --------------------------
(***************************************************************************)
(* Proofs about ApiServer, for any clients, commands, names and number of  *)
(* faults.                                                                 *)
(***************************************************************************)
EXTENDS ApiServer, TLAPS

-----------------------------------------------------------------------------
(* The inductive invariant.                                                *)

\* What a connection carries, and where its two ends are then.
ProtocolAt(c) ==
    /\ pc[c] = "start" => link[c] = "none" /\ handler[c] = "none"
    /\ pc[c] \in {"ok", "refused", "failed"} => link[c] # "up"
    /\ toServer[c] # <<>> => Head(toServer[c]) \in {"ControlHandshake", command[c].type}
    /\ handler[c] = "handshake" => toClient[c] = <<>> /\ pc[c] # "request"
    /\ handler[c] = "idle" => command[c].compatible
    /\ handler[c] \in Writing =>
          /\ toServer[c] = <<>> /\ toClient[c] = <<>>
          /\ command[c].type = "UserDnsMapping" /\ Authorised(c)

Protocol == \A c \in Client : ProtocolAt(c)

\* The server has answered the request of c with success.
Granted(c) == \/ pc[c] = "ok"
              \/ pc[c] = "request" /\ toClient[c] # <<>> /\ Head(toClient[c]).ok

GrantedAreAuthorised ==
    \A c \in Client : Granted(c) => command[c].compatible /\ CheckAuth(c)

Registers(c) == command[c].type = "UserRegister" /\ Granted(c)

RegistersOnce ==
    \A c \in Client : Registers(c) =>
        /\ command[c].name \in users \cup forgotten
        /\ \A d \in Client : Registers(d) /\ command[d].name = command[c].name =>
              c = d \/ command[c].name \in forgotten

\* What whoever writes a host file has left in it so far.
HostWritten ==
    \A c \in Client : /\ handler[c] = "write" => hosts[command[c].name] = "empty"
                      /\ handler[c] = "flush" => hosts[command[c].name] = c

IInv == /\ TypeOK /\ Protocol /\ GrantedAreAuthorised /\ RegistersOnce /\ OnlyAuthorised
        /\ HostWritten /\ HostsSettled

-----------------------------------------------------------------------------
(* The channels.                                                           *)

States == Writing \cup {"none", "handshake", "idle"}

\* A sequence of one element.
LEMMA Singleton ==
    ASSUME NEW p
    PROVE  <<p>> # <<>> /\ Head(<<p>>) = p /\ Tail(<<p>>) = <<>> /\ Append(<<>>, p) = <<p>>
OBVIOUS

\* A channel that holds a packet holds that one only.
LEMMA OnePacket ==
    ASSUME NEW S, NEW s \in AtMostOne(S), s # <<>>
    PROVE  Head(s) \in S /\ s = <<Head(s)>> /\ Tail(s) = <<>>
<1>1. PICK p \in S : s = <<p>>
  BY DEF AtMostOne
<1> QED
  BY <1>1, Singleton

\* What receiving a packet does to the channel of the server.
LEMMA ReceivedProperties ==
    ASSUME TypeOK, NEW c \in Client, NEW p, Received(c, p)
    PROVE  /\ link[c] = "up" /\ Head(toServer[c]) = p /\ toServer[c] # <<>>
           /\ toClient[c] = <<>>
           /\ toServer' = [toServer EXCEPT ![c] = <<>>]
<1>1. /\ toServer[c] \in AtMostOne(Type \cup {"ControlHandshake"}) /\ toServer[c] # <<>>
      /\ toServer[c] = <<>> \/ toClient[c] = <<>>
      /\ link[c] # "up" => toServer[c] = <<>>
  BY DEF TypeOK, Received
<1>2. Tail(toServer[c]) = <<>>
  BY <1>1, OnePacket
<1> QED
  BY <1>1, <1>2 DEF Received

\* What a send does to a channel that is empty.
LEMMA SentProperties ==
    ASSUME NEW S, NEW channel \in [Client -> AtMostOne(S)], NEW c \in Client, NEW p \in S,
           channel[c] = <<>>
    PROVE  /\ Sent(channel, c, p) \in [Client -> AtMostOne(S)]
           /\ Sent(channel, c, p) = [channel EXCEPT ![c] = IF link[c] = "up" THEN <<p>> ELSE <<>>]
<1>1. Append(channel[c], p) = <<p>>
  BY Singleton
<1>2. <<p>> \in AtMostOne(S) /\ <<>> \in AtMostOne(S)
  BY DEF AtMostOne
<1> QED
  BY <1>1, <1>2 DEF Sent

\* What an answer does to the channel of the client and to the handler.
LEMMA RespondProperties ==
    ASSUME TypeOK, NEW c \in Client, NEW ok \in BOOLEAN, NEW next \in States,
           toClient[c] = <<>>, Respond(c, ok, next)
    PROVE  /\ toClient' \in [Client -> AtMostOne(Response)]
           /\ toClient' = [toClient EXCEPT ![c] = IF link[c] = "up" THEN <<[ok |-> ok]>> ELSE <<>>]
           /\ \E state \in {next, "none"} : handler' = [handler EXCEPT ![c] = state]
<1>1. [ok |-> ok] \in Response
  BY DEF Response
<1>2. toClient' = Sent(toClient, c, [ok |-> ok])
  BY DEF Respond
<1>3. toClient \in [Client -> AtMostOne(Response)]
  BY DEF TypeOK
<1>4. /\ toClient' \in [Client -> AtMostOne(Response)]
      /\ toClient' = [toClient EXCEPT ![c] = IF link[c] = "up" THEN <<[ok |-> ok]>> ELSE <<>>]
  <2> DEFINE packet == [ok |-> ok]
  <2>1. packet \in Response /\ toClient' = Sent(toClient, c, packet)
    BY <1>1, <1>2
  <2> HIDE DEF packet
  <2>2. /\ Sent(toClient, c, packet) \in [Client -> AtMostOne(Response)]
        /\ Sent(toClient, c, packet) = [toClient EXCEPT ![c] = IF link[c] = "up" THEN <<packet>> ELSE <<>>]
    BY <2>1, <1>3, SentProperties
  <2>3. /\ toClient' \in [Client -> AtMostOne(Response)]
        /\ toClient' = [toClient EXCEPT ![c] = IF link[c] = "up" THEN <<packet>> ELSE <<>>]
    BY <2>1, <2>2
  <2> QED
    BY <2>3 DEF packet
<1> QED
  BY <1>4 DEF Respond, Enter

\* The step takes the packet that c sent, answers it, and leaves the handler in a state.
Answered(c, ok, state) ==
    /\ link[c] = "up" /\ toServer[c] # <<>> /\ toClient[c] = <<>>
    /\ toServer' = [toServer EXCEPT ![c] = <<>>]
    /\ toClient' \in [Client -> AtMostOne(Response)]
    /\ toClient' = [toClient EXCEPT ![c] = <<[ok |-> ok]>>]
    /\ handler' = [handler EXCEPT ![c] = state]

\* What receiving and answering amounts to.
LEMMA AnswerProperties ==
    ASSUME TypeOK, NEW c \in Client, NEW p, NEW ok \in BOOLEAN, NEW next \in States,
           Received(c, p), Respond(c, ok, next)
    PROVE  Answered(c, ok, next) /\ Head(toServer[c]) = p
<1>1. /\ link[c] = "up" /\ Head(toServer[c]) = p /\ toServer[c] # <<>>
      /\ toClient[c] = <<>>
      /\ toServer' = [toServer EXCEPT ![c] = <<>>]
  BY ReceivedProperties
<1>2. /\ toClient' \in [Client -> AtMostOne(Response)]
      /\ toClient' = [toClient EXCEPT ![c] = IF link[c] = "up" THEN <<[ok |-> ok]>> ELSE <<>>]
  BY <1>1, RespondProperties
<1>3. handler' = [handler EXCEPT ![c] = next]
  BY <1>1 DEF Respond, Enter
<1> QED
  BY <1>1, <1>2, <1>3 DEF Answered

\* The fields of a command.
LEMMA CommandFields ==
    ASSUME TypeOK, NEW c \in Client
    PROVE  /\ command[c].type \in Type /\ command[c].name \in Name
           /\ command[c].compatible \in BOOLEAN /\ command[c].password \in BOOLEAN
BY CommandAssumption DEF TypeOK

\* The handler of a connection serves a request of the type that the client sent.
LEMMA RequestProperties ==
    ASSUME TypeOK, Protocol, NEW c \in Client, NEW type \in Type, Request(c, type)
    PROVE  /\ command[c].type = type /\ CheckAuth(c) /\ handler[c] = "idle"
           /\ command[c].compatible /\ Received(c, type)
<1>1. Received(c, type) /\ handler[c] = "idle" /\ CheckAuth(c)
  BY DEF Request
<1>2. Head(toServer[c]) = type /\ toServer[c] # <<>> /\ type # "ControlHandshake"
  BY <1>1 DEF Received, Type
<1> QED
  BY <1>1, <1>2 DEF Protocol, ProtocolAt

\* The handshake.
LEMMA HandshakeProperties ==
    ASSUME TypeOK, NEW c \in Client, HandleHandshake(c)
    PROVE  \/ command[c].compatible /\ Answered(c, TRUE, "idle")
           \/ ~command[c].compatible /\ Answered(c, FALSE, "none")
<1>1. CASE command[c].compatible
  BY <1>1, AnswerProperties DEF HandleHandshake, AfterHandshake, States
<1>2. CASE ~command[c].compatible
  <2>1. command[c].compatible = FALSE
    BY <1>2, CommandFields
  <2> QED
    BY <2>1, AnswerProperties DEF HandleHandshake, AfterHandshake, States
<1> QED
  BY <1>1, <1>2

\* A packet before the handshake.
LEMMA UnexpectedProperties ==
    ASSUME TypeOK, NEW c \in Client, HandleUnexpected(c)
    PROVE  /\ link[c] = "up" /\ toClient[c] = <<>> /\ handler[c] = "handshake"
           /\ toServer' = [toServer EXCEPT ![c] = <<>>] /\ link' = [link EXCEPT ![c] = "broken"]
           /\ handler' = [handler EXCEPT ![c] = "none"]
           /\ UNCHANGED <<command, pc, toClient, dns, data, faults>>
BY ReceivedProperties DEF HandleUnexpected, Enter

\* A handshake after the handshake.
LEMMA IgnoredProperties ==
    ASSUME TypeOK, NEW c \in Client, HandleIgnored(c)
    PROVE  /\ link[c] = "up" /\ toClient[c] = <<>> /\ handler[c] = "idle"
           /\ toServer' = [toServer EXCEPT ![c] = <<>>]
           /\ UNCHANGED <<command, pc, link, toClient, handler, dns, data, faults>>
BY ReceivedProperties DEF HandleIgnored

\* A request whose authentication fails.
LEMMA RefusedProperties ==
    ASSUME TypeOK, NEW c \in Client, HandleRefused(c)
    PROVE  Answered(c, FALSE, "none")
BY AnswerProperties DEF HandleRefused, States

\* A request that changes nothing.
LEMMA QueryProperties ==
    ASSUME TypeOK, Protocol, NEW c \in Client, HandleQuery(c)
    PROVE  /\ Answered(c, TRUE, "idle") /\ command[c].compatible /\ CheckAuth(c)
           /\ command[c].type \in {"ControlCheckAuth", "PasswdGetList"}
<1>1. PICK type \in {"ControlCheckAuth", "PasswdGetList"} : Request(c, type) /\ Respond(c, TRUE, "idle")
  BY DEF HandleQuery
<1>2. /\ command[c].type = type /\ CheckAuth(c) /\ command[c].compatible
      /\ Received(c, type)
  BY <1>1, RequestProperties DEF Type
<1> QED
  BY <1>1, <1>2, AnswerProperties DEF States

\* A registration is accepted when the name is free, and only then.
LEMMA RegisterProperties ==
    ASSUME TypeOK, Protocol, NEW c \in Client, HandleUserRegister(c)
    PROVE  /\ command[c].type = "UserRegister" /\ Authorised(c)
           /\ \/ Answered(c, FALSE, "idle")
              \/ Answered(c, TRUE, "idle") /\ command[c].name \notin users
<1>1. Request(c, "UserRegister")
  BY DEF HandleUserRegister
<1>2. /\ command[c].type = "UserRegister" /\ CheckAuth(c) /\ command[c].compatible
      /\ Received(c, "UserRegister")
  BY <1>1, RequestProperties DEF Type
<1>3. Authorised(c)
  BY <1>2 DEF CheckAuth, Authorised
<1>4. "idle" \in States
  BY DEF States
<1>5. CASE Respond(c, FALSE, "idle")
  BY <1>2, <1>3, <1>4, <1>5, AnswerProperties
<1>6. CASE Respond(c, Adds(command[c].name), "idle") /\ command[c].name \notin users
  <2>1. Adds(command[c].name) = TRUE
    BY <1>6 DEF Adds
  <2>2. Respond(c, TRUE, "idle")
    BY <1>6, <2>1
  <2> QED
    BY <1>2, <1>3, <1>4, <1>6, <2>2, AnswerProperties
<1>7. CASE Respond(c, Adds(command[c].name), "idle") /\ command[c].name \in users
  <2>1. Adds(command[c].name) = FALSE
    BY <1>7 DEF Adds
  <2>2. Respond(c, FALSE, "idle")
    BY <1>7, <2>1
  <2> QED
    BY <1>5, <2>2
<1> QED
  BY <1>5, <1>6, <1>7 DEF HandleUserRegister

\* A mapping that passed the authentication goes on to the host files.
LEMMA MappingProperties ==
    ASSUME TypeOK, Protocol, NEW c \in Client, HandleUserDnsMapping(c)
    PROVE  /\ command[c].type = "UserDnsMapping" /\ Authorised(c)
           /\ link[c] = "up" /\ handler[c] = "idle" /\ toClient[c] = <<>>
           /\ toServer' = [toServer EXCEPT ![c] = <<>>]
           /\ handler' = [handler EXCEPT ![c] = "lock"]
<1>1. Request(c, "UserDnsMapping") /\ handler' = [handler EXCEPT ![c] = "lock"]
  BY DEF HandleUserDnsMapping, Enter
<1>2. /\ command[c].type = "UserDnsMapping" /\ CheckAuth(c) /\ command[c].compatible
      /\ Received(c, "UserDnsMapping") /\ handler[c] = "idle"
  BY <1>1, RequestProperties DEF Type
<1>3. Authorised(c)
  BY <1>2 DEF CheckAuth, Authorised
<1> QED
  BY <1>1, <1>2, <1>3, ReceivedProperties

\* The end of a mapping: the answer goes to a client that waits for nothing else.
LEMMA WrittenProperties ==
    ASSUME TypeOK, Protocol, NEW c \in Client, NEW ok \in BOOLEAN,
           handler[c] \in Writing, Respond(c, ok, "idle")
    PROVE  /\ toServer[c] = <<>> /\ toClient[c] = <<>>
           /\ command[c].type = "UserDnsMapping" /\ Authorised(c)
           /\ toClient' \in [Client -> AtMostOne(Response)]
           /\ toClient' = [toClient EXCEPT ![c] = IF link[c] = "up" THEN <<[ok |-> ok]>> ELSE <<>>]
           /\ \E state \in {"idle", "none"} : handler' = [handler EXCEPT ![c] = state]
BY RespondProperties DEF Protocol, ProtocolAt, States

-----------------------------------------------------------------------------
(* The parts of the invariant, one action at a time.                       *)

\* The parts of the type invariant.
Sorts ==
    /\ command \in [Client -> Command]
    /\ pc \in [Client -> {"start", "handshake", "request", "ok", "refused", "failed", "stranger"}]
    /\ link \in [Client -> {"none", "up", "silent", "broken"}]
    /\ users \cup forgotten \cup torn \subseteq Name /\ faults \in 0 .. MaxFaults
    /\ hosts \in [Name -> Client \cup {"none", "empty"}] /\ mapped \in [Name -> Client \cup {"none"}]

Carried(s, t, state) ==
    /\ s \in AtMostOne(Type \cup {"ControlHandshake"}) /\ t \in AtMostOne(Response)
    /\ s = <<>> \/ t = <<>>
    /\ state # "up" => s = <<>> /\ t = <<>>

Channels ==
    /\ toServer = [c \in Client |-> toServer[c]] /\ toClient = [c \in Client |-> toClient[c]]
    /\ \A c \in Client : Carried(toServer[c], toClient[c], link[c])

Mutex ==
    /\ handler \in [Client -> States]
    /\ dns \in Client \cup {NoClient}
    /\ \A c \in Client : (dns = c) <=> handler[c] \in {"create", "write", "flush"}

\* They are the type invariant.
LEMMA TypeParts == TypeOK <=> Sorts /\ Channels /\ Mutex
BY DEF TypeOK, Sorts, Channels, Carried, Mutex, States

\* An empty channel is one.
LEMMA EmptyChannel == \A S : <<>> \in AtMostOne(S)
BY DEF AtMostOne

\* Every step keeps the sorts of what is stored.
LEMMA SortsStep ==
    ASSUME TypeOK, [Next]_vars
    PROVE  Sorts'
<1> USE DEF Sorts
<1>1. Sorts
  BY TypeParts
<1>2. \A c \in Client : command[c].name \in Name
  BY CommandFields
<1>3. faults < MaxFaults /\ faults' = faults + 1 => faults' \in 0 .. MaxFaults
  BY <1>1, FaultsAssumption
<1>4. ASSUME NEW c \in Client, ClientStep(c) PROVE Sorts'
  BY <1>1, <1>4 DEF ClientStep, Connect, SendRequest, EndCommand, CommandFails, data, channels
<1>5. ASSUME NEW c \in Client, HandleUserRegister(c) PROVE Sorts'
  BY <1>1, <1>2, <1>3, <1>5 DEF HandleUserRegister
<1>6. ASSUME NEW c \in Client, CreateHostFile(c) PROVE Sorts'
  BY <1>1, <1>2, <1>6 DEF CreateHostFile, channels
<1>7. ASSUME NEW c \in Client, LandHostFile(c) \/ AnnounceMapping(c) PROVE Sorts'
  BY <1>1, <1>2, <1>7 DEF LandHostFile, AnnounceMapping, channels
<1>8. ASSUME NEW c \in Client, HandlerStep(c) PROVE Sorts'
  BY <1>1, <1>5, <1>6, <1>7, <1>8
     DEF HandlerStep, HandleHandshake, HandleUnexpected, HandleIgnored, HandleRefused, HandleQuery,
         HandleUserDnsMapping, LockDns, HandlerEnds, data, channels
<1>9. ASSUME NEW c \in Client, HostFileFails(c) PROVE Sorts'
  BY <1>1, <1>2, <1>3, <1>9 DEF HostFileFails
<1>10. ASSUME NEW c \in Client, Break(c) PROVE Sorts'
  BY <1>1, <1>3, <1>10 DEF Break, data
<1>11. ASSUME Restart PROVE Sorts'
  BY <1>1, <1>2, <1>3, <1>11 DEF Restart
<1>12. CASE UNCHANGED vars
  BY <1>1, <1>12 DEF vars, channels, data
<1>13. ASSUME NEW c \in Client, StrangerStep(c) PROVE Sorts'
  BY <1>1, <1>13 DEF StrangerStep, StrangerConnects, StrangerSends, StrangerReads, data
<1> QED
  BY <1>4, <1>8, <1>9, <1>10, <1>11, <1>12, <1>13 DEF Next

\* A step at one connection keeps the others.
LEMMA ChannelsAt ==
    ASSUME Channels, NEW c \in Client, NEW s, NEW t,
           toServer' = [toServer EXCEPT ![c] = s], toClient' = [toClient EXCEPT ![c] = t],
           \A d \in Client \ {c} : link'[d] = link[d],
           Carried(s, t, link'[c])
    PROVE  Channels'
<1> USE DEF Channels
<1>1. toServer'[c] = s /\ toClient'[c] = t
  OBVIOUS
<1>2. \A d \in Client \ {c} : toServer'[d] = toServer[d] /\ toClient'[d] = toClient[d]
  OBVIOUS
<1>3. ASSUME NEW d \in Client PROVE Carried(toServer'[d], toClient'[d], link'[d])
  BY <1>1, <1>2
<1> QED
  BY <1>3

\* Every step leaves at most one packet on a connection, and none on one that is not up.
LEMMA ChannelsStep ==
    ASSUME TypeOK, Protocol, [Next]_vars
    PROVE  Channels'
<1>1. Channels /\ link \in [Client -> {"none", "up", "silent", "broken"}]
  BY TypeParts DEF Sorts
<1>2. \A c \in Client : toServer = [toServer EXCEPT ![c] = toServer[c]]
                        /\ toClient = [toClient EXCEPT ![c] = toClient[c]]
  BY <1>1 DEF Channels
<1>3. UNCHANGED channels => Channels'
  BY <1>1 DEF Channels, channels
<1>4. \A c \in Client, ok \in BOOLEAN, state \in {"idle", "none"} : Answered(c, ok, state) /\ UNCHANGED link => Channels'
  <2> TAKE c \in Client, ok \in BOOLEAN, state \in {"idle", "none"}
  <2> HAVE Answered(c, ok, state) /\ UNCHANGED link
  <2>1. [ok |-> ok] \in Response
    BY DEF Response
  <2>2. Carried(<<>>, <<[ok |-> ok]>>, link'[c])
    BY <2>1, EmptyChannel DEF Carried, Answered, AtMostOne
  <2> QED
    BY <1>1, <2>2, ChannelsAt DEF Answered
<1>5. ASSUME NEW c \in Client, Connect(c) PROVE Channels'
  <2>1. /\ link' = [link EXCEPT ![c] = "up"] /\ toClient' = toClient /\ link[c] = "none"
        /\ toServer' = [toServer EXCEPT ![c] = <<"ControlHandshake">>]
    BY <1>5 DEF Connect, Protocol, ProtocolAt
  <2>2. toClient[c] = <<>>
    BY <1>1, <2>1 DEF Channels, Carried
  <2>3. Carried(<<"ControlHandshake">>, <<>>, "up")
    BY EmptyChannel DEF Carried, AtMostOne
  <2>4. link'[c] = "up" /\ \A d \in Client \ {c} : link'[d] = link[d]
    BY <1>1, <2>1
  <2> QED
    BY <1>1, <1>2, <2>1, <2>2, <2>3, <2>4, ChannelsAt
<1>6. ASSUME NEW c \in Client, SendRequest(c) PROVE Channels'
  <2>1. /\ toClient[c] # <<>> /\ toClient' = [toClient EXCEPT ![c] = Tail(toClient[c])]
        /\ toServer' = Sent(toServer, c, command[c].type) /\ UNCHANGED link
    BY <1>6 DEF SendRequest
  <2>2. toServer[c] = <<>> /\ Tail(toClient[c]) = <<>> /\ link[c] = "up"
    BY <1>1, <2>1, OnePacket DEF Channels, Carried
  <2>3. command[c].type \in Type
    BY CommandFields
  <2>4. toServer' = [toServer EXCEPT ![c] = <<command[c].type>>]
    BY <2>1, <2>2, Singleton DEF Sent
  <2>5. Carried(<<command[c].type>>, <<>>, link'[c])
    BY <2>1, <2>2, <2>3, EmptyChannel DEF Carried, AtMostOne
  <2> QED
    BY <1>1, <2>1, <2>2, <2>4, <2>5, ChannelsAt
<1>7. ASSUME NEW c \in Client, EndCommand(c) PROVE Channels'
  <2>1. /\ toClient[c] # <<>> /\ toClient' = [toClient EXCEPT ![c] = Tail(toClient[c])]
        /\ toServer' = toServer /\ link' = [link EXCEPT ![c] = "broken"]
    BY <1>7 DEF EndCommand
  <2>2. toServer[c] = <<>> /\ Tail(toClient[c]) = <<>>
    BY <1>1, <2>1, OnePacket DEF Channels, Carried
  <2>3. Carried(<<>>, <<>>, link'[c])
    BY EmptyChannel DEF Carried
  <2> QED
    BY <1>1, <1>2, <2>1, <2>2, <2>3, ChannelsAt
<1>8. ASSUME NEW c \in Client, HandleUserDnsMapping(c) PROVE Channels'
  <2>1. toServer' = [toServer EXCEPT ![c] = <<>>] /\ UNCHANGED <<link, toClient>> /\ toClient[c] = <<>>
    BY <1>8, MappingProperties DEF HandleUserDnsMapping
  <2>2. Carried(<<>>, <<>>, link'[c])
    BY EmptyChannel DEF Carried
  <2> QED
    BY <1>1, <1>2, <2>1, <2>2, ChannelsAt
<1>9. ASSUME NEW c \in Client, NEW ok \in BOOLEAN,
             handler[c] \in Writing, Respond(c, ok, "idle"), UNCHANGED <<link, toServer>>
      PROVE  Channels'
  <2>1. /\ toServer[c] = <<>>
        /\ toClient' = [toClient EXCEPT ![c] = IF link[c] = "up" THEN <<[ok |-> ok]>> ELSE <<>>]
    BY <1>9, WrittenProperties
  <2>2. [ok |-> ok] \in Response
    BY DEF Response
  <2>3. Carried(<<>>, IF link[c] = "up" THEN <<[ok |-> ok]>> ELSE <<>>, link'[c])
    BY <1>9, <2>2, EmptyChannel DEF Carried, AtMostOne
  <2> QED
    BY <1>1, <1>2, <1>9, <2>1, <2>3, ChannelsAt
<1>10. ASSUME NEW c \in Client, HandlerStep(c) PROVE Channels'
  <2>1. CASE HandleHandshake(c)
    BY <1>4, <2>1, HandshakeProperties DEF HandleHandshake
  <2>2. CASE HandleRefused(c)
    BY <1>4, <2>2, RefusedProperties DEF HandleRefused
  <2>3. CASE HandleQuery(c)
    BY <1>4, <2>3, QueryProperties DEF HandleQuery
  <2>4. CASE HandleUserRegister(c)
    BY <1>4, <2>4, RegisterProperties DEF HandleUserRegister
  <2>5. CASE AnnounceMapping(c)
    BY <1>9, <2>5 DEF AnnounceMapping, Flushed, Writing
  <2>6. CASE HandleUnexpected(c) \/ HandleIgnored(c)
    <3>1. /\ toServer' = [toServer EXCEPT ![c] = <<>>] /\ toClient' = toClient /\ toClient[c] = <<>>
          /\ \A d \in Client \ {c} : link'[d] = link[d]
      BY <1>1, <2>6, UnexpectedProperties, IgnoredProperties
    <3>2. Carried(<<>>, <<>>, link'[c])
      BY EmptyChannel DEF Carried
    <3> QED
      BY <1>1, <1>2, <3>1, <3>2, ChannelsAt
  <2> QED
    BY <1>3, <1>8, <1>10, <2>1, <2>2, <2>3, <2>4, <2>5, <2>6
       DEF HandlerStep, LockDns, CreateHostFile, LandHostFile, HandlerEnds
<1>11. ASSUME NEW c \in Client, HostFileFails(c) PROVE Channels'
  BY <1>9, <1>11 DEF HostFileFails, Writing
<1>12. ASSUME NEW c \in Client, Break(c) PROVE Channels'
  <2>1. /\ toServer' = [toServer EXCEPT ![c] = <<>>] /\ toClient' = [toClient EXCEPT ![c] = <<>>]
        /\ \A d \in Client \ {c} : link'[d] = link[d]
    BY <1>1, <1>12 DEF Break
  <2>2. Carried(<<>>, <<>>, link'[c])
    BY EmptyChannel DEF Carried
  <2> QED
    BY <1>1, <2>1, <2>2, ChannelsAt
<1>13. ASSUME Restart PROVE Channels'
  <2>1. toServer' = [c \in Client |-> <<>>] /\ toClient' = [c \in Client |-> <<>>]
    BY <1>13 DEF Restart
  <2>2. \A state : Carried(<<>>, <<>>, state)
    BY EmptyChannel DEF Carried
  <2> QED
    BY <2>1, <2>2 DEF Channels
<1>14. ASSUME NEW c \in Client, CommandFails(c) PROVE Channels'
  BY <1>3, <1>14 DEF CommandFails
<1>15. ASSUME NEW c \in Client, StrangerStep(c) PROVE Channels'
  <2>1. CASE StrangerConnects(c)
    <3>1. /\ link' = [link EXCEPT ![c] = "up"] /\ UNCHANGED <<toServer, toClient>> /\ link[c] = "none"
      BY <2>1 DEF StrangerConnects, Protocol, ProtocolAt
    <3>2. toServer[c] = <<>> /\ toClient[c] = <<>>
      BY <1>1, <3>1 DEF Channels, Carried
    <3>3. Carried(<<>>, <<>>, link'[c]) /\ \A d \in Client \ {c} : link'[d] = link[d]
      BY <1>1, <3>1, EmptyChannel DEF Carried
    <3> QED
      BY <1>1, <1>2, <3>1, <3>2, <3>3, ChannelsAt
  <2>2. CASE StrangerSends(c)
    <3>1. PICK packet \in {"ControlHandshake", command[c].type} : toServer' = Sent(toServer, c, packet)
      BY <2>2 DEF StrangerSends
    <3>2. /\ UNCHANGED <<toClient, link>> /\ link[c] = "up"
          /\ toServer[c] = <<>> /\ toClient[c] = <<>>
      BY <2>2 DEF StrangerSends
    <3>3. toServer' = [toServer EXCEPT ![c] = <<packet>>]
      BY <3>1, <3>2, Singleton DEF Sent
    <3>4. Carried(<<packet>>, <<>>, link'[c])
      BY <3>2, EmptyChannel, CommandFields DEF Carried, AtMostOne
    <3> QED
      BY <1>1, <1>2, <3>2, <3>3, <3>4, ChannelsAt
  <2>3. CASE StrangerReads(c)
    <3>1. /\ toClient[c] # <<>> /\ toClient' = [toClient EXCEPT ![c] = Tail(toClient[c])]
          /\ UNCHANGED <<toServer, link>>
      BY <2>3 DEF StrangerReads
    <3>2. toServer[c] = <<>> /\ Tail(toClient[c]) = <<>>
      BY <1>1, <3>1, OnePacket DEF Channels, Carried
    <3>3. Carried(<<>>, <<>>, link'[c])
      BY EmptyChannel DEF Carried
    <3> QED
      BY <1>1, <1>2, <3>1, <3>2, <3>3, ChannelsAt
  <2> QED
    BY <1>15, <2>1, <2>2, <2>3 DEF StrangerStep
<1> QED
  BY <1>3, <1>5, <1>6, <1>7, <1>10, <1>11, <1>12, <1>13, <1>14, <1>15 DEF Next, ClientStep, vars

\* Every step keeps the mutex with the handler that is at the host files.
LEMMA MutexStep ==
    ASSUME TypeOK, Protocol, [Next]_vars
    PROVE  Mutex'
<1> USE DEF Mutex
<1>1. Mutex
  BY TypeParts
<1>2. ASSUME NEW c \in Client, NEW state \in {"none", "handshake", "idle", "lock"},
             handler[c] \notin {"create", "write", "flush"}, UNCHANGED dns,
             handler' = [handler EXCEPT ![c] = state]
      PROVE  Mutex'
  BY <1>1, <1>2 DEF States, Writing
<1>3. ASSUME NEW c \in Client, NEW state \in {"none", "idle"},
             handler[c] \in {"create", "write", "flush"}, dns' = NoClient,
             handler' = [handler EXCEPT ![c] = state]
      PROVE  Mutex'
  <2>1. dns = c /\ \A d \in Client \ {c} : handler[d] \notin {"create", "write", "flush"}
    BY <1>1, <1>3
  <2> QED
    BY <1>1, <1>3, <2>1, ClientAssumption DEF States
<1>4. UNCHANGED <<handler, dns>> => Mutex'
  BY <1>1
<1>5. ASSUME NEW c \in Client, ClientStep(c) PROVE Mutex'
  <2>1. CASE Connect(c)
    BY <1>2, <2>1 DEF Connect, Enter, Protocol, ProtocolAt
  <2> QED
    BY <1>4, <1>5, <2>1 DEF ClientStep, SendRequest, EndCommand, CommandFails
<1>6. ASSUME NEW c \in Client, HandlerStep(c) PROVE Mutex'
  <2>1. CASE HandleHandshake(c)
    BY <1>2, <2>1, HandshakeProperties DEF HandleHandshake, Answered
  <2>2. CASE HandleRefused(c)
    BY <1>2, <2>2, RefusedProperties DEF HandleRefused, Answered
  <2>3. CASE HandleQuery(c)
    BY <1>2, <2>3, QueryProperties DEF HandleQuery, Answered, Request
  <2>4. CASE HandleUserRegister(c)
    BY <1>2, <2>4, RegisterProperties DEF HandleUserRegister, Answered, Request
  <2>5. CASE HandleUserDnsMapping(c)
    BY <1>2, <2>5, MappingProperties DEF HandleUserDnsMapping
  <2>6. CASE LockDns(c)
    BY <1>1, <2>6, ClientAssumption DEF LockDns, Locked, Enter, States, Writing
  <2>7. CASE CreateHostFile(c) \/ LandHostFile(c)
    BY <1>1, <2>7 DEF CreateHostFile, LandHostFile, Enter, States, Writing
  <2>8. CASE AnnounceMapping(c)
    <3>1. \E state \in {"idle", "none"} : handler' = [handler EXCEPT ![c] = state]
      BY <2>8, WrittenProperties DEF AnnounceMapping, Flushed, Writing
    <3> QED
      BY <1>3, <2>8, <3>1 DEF AnnounceMapping, Flushed, Unlocked
  <2>10. CASE HandleUnexpected(c)
    BY <1>2, <2>10, UnexpectedProperties
  <2>11. CASE HandleIgnored(c)
    BY <1>4, <2>11, IgnoredProperties
  <2>9. CASE HandlerEnds(c)
    BY <1>2, <2>9 DEF HandlerEnds, Enter
  <2> QED
    BY <1>6, <2>1, <2>2, <2>3, <2>4, <2>5, <2>6, <2>7, <2>8, <2>9, <2>10, <2>11 DEF HandlerStep
<1>7. ASSUME NEW c \in Client, HostFileFails(c) PROVE Mutex'
  <2>1. \E state \in {"idle", "none"} : handler' = [handler EXCEPT ![c] = state]
    BY <1>7, WrittenProperties DEF HostFileFails, Writing
  <2> QED
    BY <1>3, <1>7, <2>1 DEF HostFileFails, Unlocked
<1>8. ASSUME Restart PROVE Mutex'
  BY <1>8, ClientAssumption DEF Restart, States
<1>9. ASSUME NEW c \in Client, StrangerStep(c) PROVE Mutex'
  <2>1. CASE StrangerConnects(c)
    BY <1>2, <2>1 DEF StrangerConnects, Enter, Protocol, ProtocolAt
  <2> QED
    BY <1>4, <1>9, <2>1 DEF StrangerStep, StrangerSends, StrangerReads
<1> QED
  BY <1>4, <1>5, <1>6, <1>7, <1>8, <1>9 DEF Next, Break, vars

\* The type invariant is kept.
LEMMA TypeStep ==
    ASSUME TypeOK, Protocol, [Next]_vars
    PROVE  TypeOK'
<1>1. Sorts' /\ Channels' /\ Mutex'
  BY SortsStep, ChannelsStep, MutexStep
<1> QED
  BY <1>1, TypeParts, PTL

\* What a step at one connection leaves alone.
LEMMA OthersKept ==
    ASSUME TypeOK, NEW c \in Client,
           ClientStep(c) \/ StrangerStep(c) \/ HandlerStep(c) \/ HostFileFails(c) \/ Break(c),
           NEW d \in Client \ {c}
    PROVE  /\ pc'[d] = pc[d] /\ link'[d] = link[d] /\ handler'[d] = handler[d]
           /\ toServer'[d] = toServer[d] /\ toClient'[d] = toClient[d]
<1> USE DEF TypeOK, channels, data, Enter, Sent, Respond, Received, Request
<1>1. CASE ClientStep(c)
  BY <1>1 DEF ClientStep, Connect, SendRequest, EndCommand, CommandFails
<1>2. CASE HandleHandshake(c) \/ HandleRefused(c) \/ HandleQuery(c)
  BY <1>2 DEF HandleHandshake, HandleRefused, HandleQuery
<1>3. CASE HandleUserRegister(c) \/ HandleUserDnsMapping(c)
  BY <1>3 DEF HandleUserRegister, HandleUserDnsMapping
<1>4. CASE LockDns(c) \/ CreateHostFile(c) \/ LandHostFile(c) \/ HandlerEnds(c)
  BY <1>4 DEF LockDns, CreateHostFile, LandHostFile, HandlerEnds
<1>5. CASE AnnounceMapping(c) \/ HostFileFails(c)
  BY <1>5 DEF AnnounceMapping, HostFileFails
<1>6. CASE Break(c)
  BY <1>6 DEF Break
<1>7. CASE StrangerStep(c)
  BY <1>7 DEF StrangerStep, StrangerConnects, StrangerSends, StrangerReads
<1>8. CASE HandleUnexpected(c) \/ HandleIgnored(c)
  BY <1>8 DEF HandleUnexpected, HandleIgnored
<1> QED
  BY <1>1, <1>2, <1>3, <1>4, <1>5, <1>6, <1>7, <1>8 DEF HandlerStep

\* Commands are given once and for all, and no user is lost unless it is forgotten.
LEMMA Stable ==
    ASSUME [Next]_vars
    PROVE  /\ command' = command /\ forgotten \subseteq forgotten'
           /\ users \cup forgotten \subseteq users' \cup forgotten'
BY DEF Next, ClientStep, HandlerStep, Connect, SendRequest, EndCommand, CommandFails,
       StrangerStep, StrangerConnects, StrangerSends, StrangerReads, HandleHandshake,
       HandleUnexpected, HandleIgnored, HandleRefused, HandleQuery, HandleUserRegister,
       HandleUserDnsMapping, LockDns, CreateHostFile, LandHostFile, AnnounceMapping, HandlerEnds,
       HostFileFails, Break, Restart, data, vars

\* What the two ends of a connection may be doing stays consistent with what it carries.
LEMMA ProtocolStep ==
    ASSUME TypeOK, Protocol, [Next]_vars
    PROVE  Protocol'
<1>0. /\ handler = [c \in Client |-> handler[c]]
      /\ toServer = [c \in Client |-> toServer[c]]
  BY DEF TypeOK
<1>1. /\ command' = command
      /\ \A c \in Client : ProtocolAt(c)
  BY Stable DEF Protocol
<1>2. ASSUME NEW c \in Client,
             ClientStep(c) \/ StrangerStep(c) \/ HandlerStep(c) \/ HostFileFails(c) \/ Break(c),
             ProtocolAt(c)'
      PROVE  Protocol'
  <2>1. ASSUME NEW d \in Client \ {c} PROVE ProtocolAt(d)'
    BY <1>1, <1>2, OthersKept DEF ProtocolAt, Authorised
  <2> QED
    BY <1>2, <2>1 DEF Protocol
<1>3. ASSUME NEW c \in Client, ClientStep(c) PROVE ProtocolAt(c)'
  <2>1. CASE Connect(c)
    <3>1. /\ pc'[c] = "handshake" /\ handler'[c] = "handshake"
          /\ toServer'[c] = <<"ControlHandshake">> /\ toClient'[c] = toClient[c]
          /\ link[c] = "none"
      BY <1>1, <2>1 DEF Connect, Enter, TypeOK, ProtocolAt
    <3>2. toClient[c] = <<>>
      BY <3>1 DEF TypeOK
    <3> QED
      BY <3>1, <3>2, Singleton DEF ProtocolAt, Writing
  <2>2. CASE SendRequest(c)
    <3>1. /\ pc'[c] = "request" /\ handler'[c] = handler[c] /\ link[c] = "up"
          /\ toClient[c] # <<>> /\ toServer[c] = <<>>
          /\ toServer' = Sent(toServer, c, command[c].type)
      BY <2>2 DEF SendRequest, TypeOK
    <3>2. handler[c] # "handshake" /\ handler[c] \notin Writing
      BY <1>1, <3>1 DEF ProtocolAt
    <3>3. toServer'[c] = <<command[c].type>>
      BY <3>1, Singleton DEF Sent, TypeOK
    <3> QED
      BY <1>1, <3>1, <3>2, <3>3, Singleton DEF ProtocolAt
  <2>3. CASE EndCommand(c)
    <3>1. /\ pc'[c] \in {"ok", "refused"} /\ handler'[c] = handler[c] /\ link'[c] = "broken"
          /\ toClient[c] # <<>> /\ toServer[c] = <<>> /\ toServer' = toServer
      BY <2>3 DEF EndCommand, TypeOK
    <3> QED
      BY <1>1, <3>1 DEF ProtocolAt
  <2>4. CASE CommandFails(c)
    <3>1. pc'[c] = "failed" /\ link[c] # "up" /\ UNCHANGED <<channels, handler>>
      BY <1>1, <2>4 DEF CommandFails, TypeOK, ProtocolAt
    <3> QED
      BY <1>1, <3>1 DEF ProtocolAt, channels, Authorised
  <2> QED
    BY <1>3, <2>1, <2>2, <2>3, <2>4 DEF ClientStep
<1>4. ASSUME NEW c \in Client, NEW ok \in BOOLEAN, NEW state \in {"idle", "none"},
             Answered(c, ok, state), UNCHANGED <<pc, link>>,
             state = "idle" => command[c].compatible
      PROVE  ProtocolAt(c)'
  <2>1. /\ pc[c] # "start" /\ pc[c] \notin {"ok", "refused", "failed"}
        /\ toServer'[c] = <<>> /\ handler'[c] = state
    BY <1>1, <1>4 DEF Answered, TypeOK, ProtocolAt
  <2> QED
    BY <1>1, <1>4, <2>1 DEF ProtocolAt, Writing
<1>5. ASSUME NEW c \in Client, NEW ok \in BOOLEAN,
             handler[c] \in Writing, Respond(c, ok, "idle"), UNCHANGED <<pc, link, toServer>>
      PROVE  ProtocolAt(c)'
  <2>1. /\ \E state \in {"idle", "none"} : handler' = [handler EXCEPT ![c] = state]
        /\ toServer[c] = <<>> /\ Authorised(c)
    BY <1>5, WrittenProperties
  <2>2. pc[c] # "start"
    BY <1>1, <1>5 DEF ProtocolAt, Writing
  <2> QED
    BY <1>1, <1>5, <2>1, <2>2, <1>0 DEF ProtocolAt, Writing, Authorised
<1>6. ASSUME NEW c \in Client, HandlerStep(c) PROVE ProtocolAt(c)'
  <2>1. CASE HandleHandshake(c)
    BY <1>4, <2>1, HandshakeProperties DEF HandleHandshake
  <2>2. CASE HandleRefused(c)
    BY <1>4, <2>2, RefusedProperties DEF HandleRefused
  <2>3. CASE HandleQuery(c)
    BY <1>4, <2>3, QueryProperties DEF HandleQuery
  <2>4. CASE HandleUserRegister(c)
    <3>1. command[c].compatible /\ UNCHANGED <<pc, link>>
      BY <2>4, RegisterProperties DEF HandleUserRegister, Authorised
    <3> QED
      BY <1>4, <2>4, <3>1, RegisterProperties
  <2>5. CASE HandleUserDnsMapping(c)
    <3>1. /\ handler' = [handler EXCEPT ![c] = "lock"] /\ toClient[c] = <<>>
          /\ toServer' = [toServer EXCEPT ![c] = <<>>]
          /\ command[c].type = "UserDnsMapping" /\ Authorised(c)
          /\ UNCHANGED <<pc, link, toClient>> /\ link[c] = "up"
      BY <2>5, MappingProperties DEF HandleUserDnsMapping
    <3>2. handler'[c] = "lock" /\ toServer'[c] = <<>>
      BY <1>0, <3>1
    <3> QED
      BY <1>1, <3>1, <3>2 DEF ProtocolAt, Authorised
  <2>6. CASE LockDns(c) \/ CreateHostFile(c) \/ LandHostFile(c)
    <3>1. /\ handler[c] \in Writing /\ handler'[c] \in Writing
          /\ UNCHANGED <<pc, channels>>
      BY <2>6 DEF LockDns, CreateHostFile, LandHostFile, Enter, Writing, TypeOK
    <3> QED
      BY <1>1, <3>1 DEF ProtocolAt, Authorised, channels, Writing
  <2>7. CASE AnnounceMapping(c)
    BY <1>5, <2>7 DEF AnnounceMapping, Flushed, Writing
  <2>8. CASE HandlerEnds(c)
    <3>1. handler'[c] = "none" /\ UNCHANGED <<pc, channels>>
      BY <2>8 DEF HandlerEnds, Enter, TypeOK
    <3> QED
      BY <1>1, <3>1 DEF ProtocolAt, channels, Writing
  <2>9. CASE HandleUnexpected(c) \/ HandleIgnored(c)
    <3>1. /\ link[c] = "up" /\ toServer'[c] = <<>> /\ UNCHANGED <<pc, toClient>>
          /\ handler'[c] = "none" \/ (handler'[c] = handler[c] /\ handler[c] = "idle")
      BY <1>0, <2>9, UnexpectedProperties, IgnoredProperties
    <3>2. pc[c] # "start" /\ pc[c] \notin {"ok", "refused", "failed"}
      BY <1>1, <3>1 DEF ProtocolAt
    <3> QED
      BY <1>1, <3>1, <3>2 DEF ProtocolAt, Writing
  <2> QED
    BY <1>6, <2>1, <2>2, <2>3, <2>4, <2>5, <2>6, <2>7, <2>8, <2>9 DEF HandlerStep
<1>7. ASSUME NEW c \in Client, HostFileFails(c) PROVE ProtocolAt(c)'
  BY <1>5, <1>7 DEF HostFileFails, Writing
<1>8. ASSUME NEW c \in Client, Break(c) PROVE ProtocolAt(c)'
  <2>1. /\ toServer'[c] = <<>> /\ toClient'[c] = <<>> /\ link[c] = "up" /\ link'[c] # "up"
        /\ UNCHANGED <<pc, handler>>
    BY <1>8 DEF Break, TypeOK
  <2> QED
    BY <1>1, <2>1 DEF ProtocolAt, Authorised
<1>9. ASSUME Restart PROVE Protocol'
  <2>1. ASSUME NEW c \in Client PROVE ProtocolAt(c)'
    <3>1. /\ toServer'[c] = <<>> /\ handler'[c] = "none" /\ UNCHANGED pc
          /\ link'[c] # "up" /\ (link[c] = "none" => link'[c] = "none")
      BY <1>9 DEF Restart
    <3> QED
      BY <1>1, <3>1 DEF ProtocolAt, Writing
  <2> QED
    BY <2>1 DEF Protocol
<1>10. CASE UNCHANGED vars
  BY <1>1, <1>10 DEF vars, channels, Protocol, ProtocolAt, Authorised
<1>11. ASSUME NEW c \in Client, StrangerStep(c) PROVE ProtocolAt(c)'
  <2>1. CASE StrangerConnects(c)
    <3>1. /\ pc'[c] = "stranger" /\ handler'[c] = "handshake" /\ link[c] = "none"
          /\ UNCHANGED <<toServer, toClient>>
      BY <1>1, <2>1 DEF StrangerConnects, Enter, TypeOK, ProtocolAt
    <3>2. toServer[c] = <<>> /\ toClient[c] = <<>>
      BY <3>1 DEF TypeOK
    <3> QED
      BY <3>1, <3>2 DEF ProtocolAt, Writing
  <2>2. CASE StrangerSends(c)
    <3>1. PICK packet \in {"ControlHandshake", command[c].type} : toServer' = Sent(toServer, c, packet)
      BY <2>2 DEF StrangerSends
    <3>2. /\ UNCHANGED <<pc, link, toClient, handler>> /\ pc[c] = "stranger" /\ link[c] = "up"
          /\ toServer[c] = <<>> /\ handler[c] \in {"handshake", "idle"}
      BY <2>2 DEF StrangerSends
    <3>3. toServer'[c] = <<packet>>
      BY <1>0, <3>1, <3>2, Singleton DEF Sent
    <3>4. Head(toServer'[c]) \in {"ControlHandshake", command[c].type}
      BY <3>3, Singleton
    <3> QED
      BY <1>1, <3>2, <3>4 DEF ProtocolAt, Writing
  <2>3. CASE StrangerReads(c)
    <3>1. /\ UNCHANGED <<pc, link, toServer, handler>> /\ pc[c] = "stranger"
          /\ toClient[c] # <<>>
      BY <2>3 DEF StrangerReads
    <3>2. handler[c] # "handshake" /\ handler[c] \notin Writing
      BY <1>1, <3>1 DEF ProtocolAt
    <3> QED
      BY <1>1, <3>1, <3>2 DEF ProtocolAt
  <2> QED
    BY <1>11, <2>1, <2>2, <2>3 DEF StrangerStep
<1> QED
  BY <1>2, <1>3, <1>6, <1>7, <1>8, <1>9, <1>10, <1>11 DEF Next

-----------------------------------------------------------------------------
(* Who is told that it succeeded.                                          *)

\* A request is granted by the handler that serves it, and a registration to a name that was free.
LEMMA GrantedStep ==
    ASSUME TypeOK, Protocol, [Next]_vars, NEW c \in Client, Granted(c)', ~Granted(c)
    PROVE  /\ command[c].compatible /\ CheckAuth(c)
           /\ command[c].type = "UserRegister" =>
                 HandleUserRegister(c) /\ command[c].name \notin users
<1> DEFINE Goal == /\ command[c].compatible /\ CheckAuth(c)
                   /\ command[c].type = "UserRegister" =>
                         HandleUserRegister(c) /\ command[c].name \notin users
<1>1. ASSUME NEW d \in Client \ {c},
             ClientStep(d) \/ StrangerStep(d) \/ HandlerStep(d) \/ HostFileFails(d) \/ Break(d)
      PROVE  FALSE
  BY <1>1, OthersKept DEF Granted
<1>2. ClientStep(c) => FALSE
  <2>1. CASE Connect(c)
    BY <2>1 DEF Connect, Granted, TypeOK
  <2>2. CASE SendRequest(c)
    <3>1. toClient'[c] = <<>> /\ pc'[c] = "request"
      BY <2>2, OnePacket DEF SendRequest, TypeOK
    <3> QED
      BY <3>1 DEF Granted
  <2>3. CASE EndCommand(c)
    BY <2>3 DEF EndCommand, Granted, TypeOK
  <2>4. CASE CommandFails(c)
    BY <2>4 DEF CommandFails, Granted, TypeOK
  <2> QED
    BY <2>1, <2>2, <2>3, <2>4 DEF ClientStep
<1>3. ASSUME NEW ok \in BOOLEAN, toClient' = [toClient EXCEPT ![c] = <<[ok |-> ok]>>], UNCHANGED pc
      PROVE  ok = TRUE /\ pc[c] = "request"
  <2>1. Head(toClient'[c]) = [ok |-> ok]
    BY <1>3, Singleton DEF TypeOK
  <2> QED
    BY <1>3, <2>1 DEF Granted
<1>4. CASE HandleHandshake(c)
  <2>1. handler[c] = "handshake" /\ UNCHANGED pc
    BY <1>4 DEF HandleHandshake
  <2>2. pc[c] = "request"
    BY <1>3, <1>4, <2>1, HandshakeProperties DEF Answered
  <2> QED
    BY <2>1, <2>2 DEF Protocol, ProtocolAt
<1>5. CASE HandleRefused(c)
  BY <1>3, <1>5, RefusedProperties DEF Answered, HandleRefused
<1>6. CASE HandleQuery(c)
  BY <1>6, QueryProperties
<1>7. CASE HandleUserRegister(c)
  <2>1. UNCHANGED pc /\ Authorised(c)
    BY <1>7, RegisterProperties DEF HandleUserRegister
  <2>2. ~Answered(c, FALSE, "idle")
    BY <1>3, <2>1 DEF Answered
  <2> QED
    BY <1>7, <2>1, <2>2, RegisterProperties DEF Authorised, CheckAuth
<1>8. CASE AnnounceMapping(c) \/ HostFileFails(c)
  <2>1. command[c].type = "UserDnsMapping" /\ Authorised(c)
    BY <1>8 DEF AnnounceMapping, HostFileFails, Flushed, Writing, Protocol, ProtocolAt
  <2> QED
    BY <2>1 DEF Authorised, CheckAuth
<1>9. UNCHANGED <<pc, toClient>> => FALSE
  BY DEF Granted
<1>10. CASE Break(c)
  BY <1>10 DEF Break, Granted, TypeOK
<1>11. CASE Restart
  BY <1>11 DEF Restart, Granted
<1>12. CASE HandlerStep(c)
  BY <1>4, <1>5, <1>6, <1>7, <1>8, <1>9, <1>12
     DEF HandlerStep, HandleUnexpected, HandleIgnored, HandleUserDnsMapping, LockDns,
         CreateHostFile, LandHostFile, HandlerEnds, channels
<1>13. StrangerStep(c) => FALSE
  BY DEF StrangerStep, StrangerConnects, StrangerSends, StrangerReads, Granted, TypeOK
<1> QED
  BY <1>1, <1>2, <1>8, <1>9, <1>10, <1>11, <1>12, <1>13 DEF Next, vars, channels

\* Success is told to authorised clients.
LEMMA GrantedAreAuthorisedStep ==
    ASSUME TypeOK, Protocol, GrantedAreAuthorised, [Next]_vars
    PROVE  GrantedAreAuthorised'
<1>1. ASSUME NEW c \in Client, Granted(c)' PROVE command[c].compatible /\ CheckAuth(c)
  <2>1. CASE Granted(c)
    BY <2>1 DEF GrantedAreAuthorised
  <2>2. CASE ~Granted(c)
    BY <1>1, <2>2, GrantedStep
  <2> QED
    BY <2>1, <2>2
<1>2. command' = command
  BY Stable
<1> QED
  BY <1>1, <1>2 DEF GrantedAreAuthorised, CheckAuth

\* Two registrations are not served in one step.
LEMMA OneRegistration ==
    ASSUME TypeOK, NEW c \in Client, NEW d \in Client,
           HandleUserRegister(c), HandleUserRegister(d)
    PROVE  c = d
<1>1. Received(c, "UserRegister") /\ Received(d, "UserRegister")
  BY DEF HandleUserRegister, Request
<1>2. /\ toServer[c] # <<>> /\ toServer' = [toServer EXCEPT ![c] = <<>>]
      /\ toServer' = [toServer EXCEPT ![d] = <<>>]
  BY <1>1, ReceivedProperties
<1> QED
  BY <1>2 DEF TypeOK

\* A name is given to one command, and its user stays or is forgotten.
LEMMA RegistersOnceStep ==
    ASSUME TypeOK, Protocol, RegistersOnce, [Next]_vars
    PROVE  RegistersOnce'
<1>1. /\ command' = command /\ forgotten \subseteq forgotten'
      /\ users \cup forgotten \subseteq users' \cup forgotten'
  BY Stable
<1>2. ASSUME NEW c \in Client, Registers(c)', ~Registers(c)
      PROVE  HandleUserRegister(c) /\ command[c].name \notin users /\ command[c].name \in users'
  <2>1. command[c].type = "UserRegister" /\ Granted(c)' /\ ~Granted(c)
    BY <1>1, <1>2 DEF Registers
  <2>2. HandleUserRegister(c) /\ command[c].name \notin users
    BY <2>1, GrantedStep
  <2> QED
    BY <2>2 DEF HandleUserRegister
<1>3. ASSUME NEW c \in Client, Registers(c)' PROVE command[c].name \in users' \cup forgotten'
  BY <1>1, <1>2, <1>3 DEF RegistersOnce
<1>4. ASSUME NEW c \in Client, NEW d \in Client, Registers(c)', Registers(d)',
             command[c].name = command[d].name
      PROVE  c = d \/ command[c].name \in forgotten'
  <2>1. CASE Registers(c) /\ Registers(d)
    BY <1>1, <1>4, <2>1 DEF RegistersOnce
  <2>2. CASE Registers(c) /\ ~Registers(d)
    BY <1>1, <1>2, <1>4, <2>2 DEF RegistersOnce
  <2>3. CASE ~Registers(c) /\ Registers(d)
    BY <1>1, <1>2, <1>4, <2>3 DEF RegistersOnce
  <2>4. CASE ~Registers(c) /\ ~Registers(d)
    BY <1>2, <1>4, <2>4, OneRegistration
  <2> QED
    BY <2>1, <2>2, <2>3, <2>4
<1> QED
  BY <1>1, <1>3, <1>4 DEF RegistersOnce

\* Users and host files come from authorised clients.
LEMMA OnlyAuthorisedStep ==
    ASSUME TypeOK, Protocol, GrantedAreAuthorised, OnlyAuthorised, [Next]_vars
    PROVE  OnlyAuthorised'
<1>1. command' = command
  BY Stable
<1>2. ASSUME NEW n \in users'
      PROVE  \E c \in Client :
                command[c].type = "UserRegister" /\ command[c].name = n /\ Authorised(c)
  <2>1. CASE n \in users
    BY <2>1 DEF OnlyAuthorised
  <2>2. CASE n \notin users
    <3>1. PICK c \in Client : HandleUserRegister(c)
      BY <1>2, <2>2
         DEF Next, ClientStep, HandlerStep, Connect, SendRequest, EndCommand, CommandFails,
             StrangerStep, StrangerConnects, StrangerSends, StrangerReads, HandleHandshake,
             HandleUnexpected, HandleIgnored, HandleRefused, HandleQuery, HandleUserDnsMapping,
             LockDns, CreateHostFile, LandHostFile, AnnounceMapping, HandlerEnds, HostFileFails,
             Break, Restart, data, vars
    <3>2. command[c].type = "UserRegister" /\ Authorised(c)
      BY <3>1, RegisterProperties
    <3>3. n = command[c].name
      BY <1>2, <2>2, <3>1 DEF HandleUserRegister
    <3> QED
      BY <3>2, <3>3
  <2> QED
    BY <2>1, <2>2
<1>3. ASSUME NEW n \in Name, hosts'[n] \in Client PROVE Authorised(hosts'[n])
  <2>1. CASE hosts'[n] = hosts[n]
    BY <1>3, <2>1 DEF OnlyAuthorised
  <2>2. CASE hosts'[n] # hosts[n]
    <3>1. PICK c \in Client : CreateHostFile(c) \/ LandHostFile(c)
      BY <1>3, <2>2
         DEF Next, ClientStep, HandlerStep, Connect, SendRequest, EndCommand, CommandFails,
             StrangerStep, StrangerConnects, StrangerSends, StrangerReads, HandleHandshake,
             HandleUnexpected, HandleIgnored, HandleRefused, HandleQuery, HandleUserRegister,
             HandleUserDnsMapping, LockDns, AnnounceMapping, HandlerEnds, HostFileFails, Break,
             Restart, data, vars
    <3>2. Authorised(c)
      BY <3>1 DEF CreateHostFile, LandHostFile, Writing, Protocol, ProtocolAt
    <3>3. hosts'[n] \in {"empty", c}
      BY <1>3, <2>2, <3>1 DEF CreateHostFile, LandHostFile, TypeOK
    <3>4. "empty" \notin Client
      BY ClientAssumption
    <3> QED
      BY <1>3, <3>2, <3>3, <3>4
  <2> QED
    BY <2>1, <2>2
<1>4. GrantedAreAuthorised'
  BY GrantedAreAuthorisedStep
<1> QED
  BY <1>1, <1>2, <1>3, <1>4 DEF OnlyAuthorised, GrantedAreAuthorised, Granted, CheckAuth, Authorised

\* What is in the host file of the one who writes it, for the mutex keeps the others away.
LEMMA HostWrittenStep ==
    ASSUME TypeOK, Protocol, HostWritten, [Next]_vars
    PROVE  HostWritten'
<1> DEFINE Busy == {"write", "flush"}
<1>1. command' = command
  BY Stable
<1>2. ASSUME hosts' = hosts, \A d \in Client : handler'[d] \in Busy => handler'[d] = handler[d]
      PROVE  HostWritten'
  BY <1>1, <1>2 DEF HostWritten
<1>3. ASSUME NEW c \in Client, CreateHostFile(c) \/ LandHostFile(c) PROVE HostWritten'
  <2>1. /\ handler[c] \in {"create", "write"}
        /\ \/ /\ handler' = [handler EXCEPT ![c] = "write"]
              /\ hosts' = [hosts EXCEPT ![command[c].name] = "empty"]
           \/ /\ handler' = [handler EXCEPT ![c] = "flush"]
              /\ hosts' = [hosts EXCEPT ![command[c].name] = c]
    BY <1>3 DEF CreateHostFile, LandHostFile, Enter
  <2>2. ASSUME NEW d \in Client \ {c} PROVE handler'[d] \notin Busy
    <3>1. dns = c
      BY <2>1 DEF TypeOK
    <3>2. handler[d] \notin Busy
      BY <3>1 DEF TypeOK
    <3> QED
      BY <2>1, <3>2 DEF TypeOK
  <2>3. /\ handler'[c] = "write" => hosts'[command[c].name] = "empty"
        /\ handler'[c] = "flush" => hosts'[command[c].name] = c
    BY <2>1, CommandFields DEF TypeOK
  <2> QED
    BY <1>1, <2>2, <2>3 DEF HostWritten
<1>4. ASSUME NEW c \in Client,
             ClientStep(c) \/ StrangerStep(c) \/ HandlerStep(c) \/ HostFileFails(c) \/ Break(c),
             ~CreateHostFile(c), ~LandHostFile(c)
      PROVE  HostWritten'
  <2>1. hosts' = hosts
    BY <1>4
       DEF ClientStep, StrangerStep, HandlerStep, Connect, SendRequest, EndCommand, CommandFails,
           StrangerConnects, StrangerSends, StrangerReads, HandleHandshake, HandleUnexpected,
           HandleIgnored, HandleRefused, HandleQuery, HandleUserRegister, HandleUserDnsMapping,
           LockDns, AnnounceMapping, HandlerEnds, HostFileFails, Break, data
  <2>2. \A d \in Client \ {c} : handler'[d] = handler[d]
    BY <1>4, OthersKept
  <2>3. handler'[c] \in Busy => handler'[c] = handler[c]
    <3>1. CASE \/ HandleHandshake(c) \/ HandleRefused(c) \/ HandleQuery(c) \/ HandleUserRegister(c)
               \/ AnnounceMapping(c) \/ HostFileFails(c)
      BY <3>1
         DEF HandleHandshake, AfterHandshake, HandleRefused, HandleQuery, HandleUserRegister,
             AnnounceMapping, HostFileFails, Respond, Enter, TypeOK
    <3>2. CASE \/ ClientStep(c) \/ StrangerStep(c) \/ HandleUnexpected(c) \/ HandleIgnored(c)
               \/ HandleUserDnsMapping(c) \/ LockDns(c) \/ HandlerEnds(c) \/ Break(c)
      BY <3>2
         DEF ClientStep, StrangerStep, Connect, SendRequest, EndCommand, CommandFails,
             StrangerConnects, StrangerSends, StrangerReads, HandleUnexpected, HandleIgnored,
             HandleUserDnsMapping, LockDns, HandlerEnds, Break, Enter, TypeOK
    <3> QED
      BY <1>4, <3>1, <3>2 DEF HandlerStep
  <2> QED
    BY <1>2, <2>1, <2>2, <2>3
<1>5. CASE Restart
  BY <1>2, <1>5 DEF Restart
<1>6. CASE UNCHANGED vars
  BY <1>2, <1>6 DEF vars, data
<1> QED
  BY <1>3, <1>4, <1>5, <1>6 DEF Next

\* A host file is settled, being written, or known to be torn.
LEMMA HostsSettledStep ==
    ASSUME TypeOK, Protocol, HostWritten, HostsSettled, [Next]_vars
    PROVE  HostsSettled'
<1> DEFINE Busy == {"write", "flush"}
<1>1. command' = command /\ HostWritten'
  BY Stable, HostWrittenStep
<1>2. ASSUME NEW n \in Name PROVE \/ hosts[n] = mapped[n] \/ n \in torn
                                  \/ \E c \in Client : command[c].name = n /\ handler[c] \in Busy
  BY DEF HostsSettled
<1>3. SUFFICES ASSUME NEW n \in Name
               PROVE  \/ hosts'[n] = mapped'[n] \/ n \in torn'
                      \/ \E c \in Client : command[c].name = n /\ handler'[c] \in Busy
  BY <1>1 DEF HostsSettled, HostWritten
<1>4. ASSUME hosts'[n] = hosts[n], mapped'[n] = mapped[n], n \in torn => n \in torn',
             \A c \in Client : command[c].name = n /\ handler[c] \in Busy =>
                 handler'[c] \in Busy \/ n \in torn'
      PROVE  \/ hosts'[n] = mapped'[n] \/ n \in torn'
             \/ \E c \in Client : command[c].name = n /\ handler'[c] \in Busy
  BY <1>2, <1>4
<1>5. ASSUME NEW c \in Client, CreateHostFile(c) \/ LandHostFile(c)
      PROVE  \/ hosts'[n] = mapped'[n] \/ n \in torn'
             \/ \E d \in Client : command[d].name = n /\ handler'[d] \in Busy
  <2>1. /\ UNCHANGED <<mapped, torn>>
        /\ \/ handler' = [handler EXCEPT ![c] = "write"] \/ handler' = [handler EXCEPT ![c] = "flush"]
        /\ \/ hosts' = [hosts EXCEPT ![command[c].name] = "empty"]
           \/ hosts' = [hosts EXCEPT ![command[c].name] = c]
    BY <1>5 DEF CreateHostFile, LandHostFile, Enter
  <2>2. handler'[c] \in Busy
    BY <2>1 DEF TypeOK
  <2>3. CASE command[c].name = n
    BY <2>2, <2>3
  <2>4. CASE command[c].name # n
    <3>1. hosts'[n] = hosts[n]
      BY <2>1, <2>4 DEF TypeOK
    <3>2. \A d \in Client : handler[d] \in Busy => handler'[d] \in Busy
      BY <2>1 DEF TypeOK
    <3> QED
      BY <1>4, <2>1, <3>1, <3>2
  <2> QED
    BY <2>3, <2>4
<1>6. ASSUME NEW c \in Client, AnnounceMapping(c)
      PROVE  \/ hosts'[n] = mapped'[n] \/ n \in torn'
             \/ \E d \in Client : command[d].name = n /\ handler'[d] \in Busy
  <2> DEFINE name == command[c].name
  <2>1. /\ handler[c] = "flush" /\ hosts' = hosts /\ mapped' = [mapped EXCEPT ![name] = c]
        /\ torn' = torn \ {name}
    BY <1>6 DEF AnnounceMapping, Flushed
  <2>2. CASE n = name
    BY <2>1, <2>2 DEF HostWritten, TypeOK
  <2>3. CASE n # name
    <3>1. mapped'[n] = mapped[n] /\ (n \in torn => n \in torn')
      BY <2>1, <2>3 DEF TypeOK
    <3>2. \A d \in Client \ {c} : handler'[d] = handler[d]
      BY <1>6, OthersKept DEF HandlerStep
    <3> QED
      BY <1>4, <2>1, <2>3, <3>1, <3>2
  <2> QED
    BY <2>2, <2>3
<1>7. ASSUME NEW c \in Client,
             ClientStep(c) \/ StrangerStep(c) \/ HandlerStep(c) \/ HostFileFails(c) \/ Break(c),
             ~CreateHostFile(c), ~LandHostFile(c), ~AnnounceMapping(c)
      PROVE  \/ hosts'[n] = mapped'[n] \/ n \in torn'
             \/ \E d \in Client : command[d].name = n /\ handler'[d] \in Busy
  <2>1. UNCHANGED <<hosts, mapped>> /\ torn \subseteq torn'
    BY <1>7
       DEF ClientStep, StrangerStep, HandlerStep, Connect, SendRequest, EndCommand, CommandFails,
           StrangerConnects, StrangerSends, StrangerReads, HandleHandshake, HandleUnexpected,
           HandleIgnored, HandleRefused, HandleQuery, HandleUserRegister, HandleUserDnsMapping,
           LockDns, HandlerEnds, HostFileFails, Break, data
  <2>2. \A d \in Client \ {c} : handler'[d] = handler[d]
    BY <1>7, OthersKept
  <2>3. handler[c] \in Busy => handler'[c] \in Busy \/ command[c].name \in torn'
    <3>1. CASE HostFileFails(c)
      <4>1. handler[c] = "flush" => FALSE
        BY <3>1 DEF HostFileFails
      <4> QED
        BY <3>1, <4>1 DEF HostFileFails
    <3>2. CASE ClientStep(c) \/ StrangerStep(c) \/ Break(c)
      BY <3>2
         DEF ClientStep, StrangerStep, Connect, SendRequest, EndCommand, CommandFails,
             StrangerConnects, StrangerSends, StrangerReads, Break, Protocol, ProtocolAt
    <3>3. CASE HandlerStep(c)
      BY <1>7, <3>3
         DEF HandlerStep, HandleHandshake, HandleUnexpected, HandleIgnored, HandleRefused,
             HandleQuery, HandleUserRegister, HandleUserDnsMapping, LockDns, HandlerEnds, Request
    <3> QED
      BY <1>7, <3>1, <3>2, <3>3
  <2> QED
    BY <1>4, <2>1, <2>2, <2>3
<1>8. CASE Restart
  <2>1. UNCHANGED <<hosts, mapped>> /\ torn \subseteq torn'
    BY <1>8 DEF Restart
  <2>2. \A c \in Client : handler[c] \in Busy => command[c].name \in torn'
    BY <1>8 DEF Restart
  <2> QED
    BY <1>4, <2>1, <2>2
<1>9. CASE UNCHANGED vars
  BY <1>4, <1>9 DEF vars, data
<1> QED
  BY <1>5, <1>6, <1>7, <1>8, <1>9 DEF Next

-----------------------------------------------------------------------------
(* The theorems.                                                           *)

\* The invariant holds in every reachable state.
THEOREM Inductive == Spec => []IInv
<1>1. Init => IInv
  <2> SUFFICES ASSUME Init PROVE IInv
    OBVIOUS
  <2>1. TypeOK
    BY EmptyChannel, ClientAssumption, FaultsAssumption DEF Init, TypeOK, Writing
  <2>2. Protocol
    BY DEF Init, Protocol, ProtocolAt, Writing
  <2>3. \A c \in Client : ~Granted(c)
    BY DEF Init, Granted
  <2>4. OnlyAuthorised
    BY ClientAssumption DEF Init, OnlyAuthorised
  <2>5. HostsSettled
    BY DEF Init, HostsSettled
  <2>6. HostWritten
    BY DEF Init, HostWritten
  <2> QED
    BY <2>1, <2>2, <2>3, <2>4, <2>5, <2>6 DEF IInv, GrantedAreAuthorised, RegistersOnce, Registers
<1>2. IInv /\ [Next]_vars => IInv'
  BY TypeStep, ProtocolStep, GrantedAreAuthorisedStep, RegistersOnceStep, OnlyAuthorisedStep,
     HostWrittenStep, HostsSettledStep DEF IInv
<1> QED
  BY <1>1, <1>2, PTL DEF Spec

\* A connection carries one packet at most, none when it is not up, and the mutex of the
\* host files is held by whoever is at them, and by nobody else (api_server.rs, state.rs:94).
THEOREM TypeCorrect == Spec => []TypeOK
<1>1. IInv => TypeOK
  BY DEF IInv
<1> QED
  BY <1>1, Inductive, PTL

\* Of all the commands that register a name, one at most is told that it succeeded, whatever
\* connections broke and however often the server restarted, unless a restart has forgotten
\* the user (state.rs:76, main.rs:119, user.rs:55).
THEOREM SuccessOnce == Spec => []SuccessIsOnce
<1>1. IInv => SuccessIsOnce
  BY DEF IInv, RegistersOnce, Registers, Granted, SuccessIsOnce
<1> QED
  BY <1>1, Inductive, PTL

\* No user, no host file and no success comes of a client that failed the handshake or the
\* authentication (api_server.rs:18-50).
THEOREM AuthorisedOnly == Spec => []OnlyAuthorised
<1>1. IInv => OnlyAuthorised
  BY DEF IInv
<1> QED
  BY <1>1, Inductive, PTL

\* A host file holds the announced mapping unless it is being written, or was torn by a write
\* that failed or a restart between truncating it and announcing it (dns.rs:24-27).
THEOREM HostsAreSettled == Spec => []HostsSettled
<1>1. IInv => HostsSettled
  BY DEF IInv
<1> QED
  BY <1>1, Inductive, PTL
=============================================================================
