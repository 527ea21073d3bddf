----------------------------- MODULE ApiServer -----------------------------
(***************************************************************************)
(* Commands of lapas-api-client and the API server that serves them:       *)
(* handshake, authentication, one request and its answer per connection,   *)
(* and the host files that UserDnsMapping writes for dnsmasq.              *)
(*                                                                         *)
(* A client is one run of a command on a guest, or a program of another    *)
(* make that sends its packets in any order.  Adding a user is one step    *)
(* here; UserService has its inside, and what a restart recovers of it.    *)
(* The packets of the daemon, which stays connected, are those of          *)
(* NotificationService and GuestSync.                                      *)
(***************************************************************************)
EXTENDS Naturals, Sequences, FiniteSets

CONSTANTS Client, Name,
          Command,    \* the commands a client may be started with
          NoClient,   \* nobody
          MaxFaults   \* bound: broken connections, failed files, crashes

Type == {"ControlCheckAuth", "UserRegister", "UserDnsMapping", "PasswdGetList"}

ASSUME CommandAssumption ==
    Command \subseteq [type : Type, name : Name, compatible : BOOLEAN, password : BOOLEAN,
                       orderly : BOOLEAN]
ASSUME ClientAssumption == Client \cap {NoClient, "none", "empty"} = {}
ASSUME FaultsAssumption == MaxFaults \in Nat

VARIABLES command,  \* client -> its command
          pc,       \* client -> what it waits for, or how it ended, or "stranger"
          link,     \* client -> its connection: "none", "up", "silent" or "broken"
          toServer, toClient,  \* packets on their way
          handler,  \* client -> handle_client: its request, or "none", "handshake", "idle"
          dns,      \* holder of the dns_service mutex
          users,    \* registered names
          forgotten,  \* names that a restart has lost
          hosts,    \* name -> content of its host file: the guest, "empty" or "none"
          mapped,   \* name -> guest of the last mapping that was announced
          torn,     \* names whose last mapping was cut short, the file changed already
          faults

channels == <<link, toServer, toClient>>
data     == <<users, forgotten, hosts, mapped, torn>>
vars     == <<command, pc, channels, handler, dns, data, faults>>

Writing  == {"lock", "create", "write", "flush"}
Response == [ok : BOOLEAN]

Init == /\ command \in [Client -> Command]
        /\ pc = [c \in Client |-> "start"]
        /\ link = [c \in Client |-> "none"]
        /\ toServer = [c \in Client |-> <<>>] /\ toClient = [c \in Client |-> <<>>]
        /\ handler = [c \in Client |-> "none"] /\ dns = NoClient
        /\ users = {} /\ forgotten = {} /\ torn = {}
        /\ hosts = [n \in Name |-> "none"] /\ mapped = [n \in Name |-> "none"]
        /\ faults = 0

Enter(c, state) == handler' = [handler EXCEPT ![c] = state]

(* A socket takes what it is given; a silent connection never delivers it. *)
Sent(channel, c, packet) ==
    IF link[c] = "up" THEN [channel EXCEPT ![c] = Append(@, packet)] ELSE channel

-----------------------------------------------------------------------------
(* The client (main.rs)                                                    *)

(* lapas_connect                                                           *)
Connect(c) ==
    /\ pc[c] = "start" /\ command[c].orderly
    /\ pc' = [pc EXCEPT ![c] = "handshake"]
    /\ link' = [link EXCEPT ![c] = "up"]
    /\ toServer' = [toServer EXCEPT ![c] = <<"ControlHandshake">>]
    /\ Enter(c, "handshake")
    /\ UNCHANGED <<command, toClient, dns, data, faults>>

(* perform_request!, once the handshake is accepted                        *)
SendRequest(c) ==
    /\ pc[c] = "handshake" /\ toClient[c] # <<>> /\ Head(toClient[c]).ok
    /\ pc' = [pc EXCEPT ![c] = "request"]
    /\ toClient' = [toClient EXCEPT ![c] = Tail(@)]
    /\ toServer' = Sent(toServer, c, command[c].type)
    /\ UNCHANGED <<command, link, handler, dns, data, faults>>

(* The answer, or a refused handshake, ends the command.                   *)
EndCommand(c) ==
    /\ toClient[c] # <<>>
    /\ pc[c] = "request" \/ (pc[c] = "handshake" /\ ~Head(toClient[c]).ok)
    /\ pc' = [pc EXCEPT ![c] = IF Head(toClient[c]).ok THEN "ok" ELSE "refused"]
    /\ toClient' = [toClient EXCEPT ![c] = Tail(@)]
    /\ link' = [link EXCEPT ![c] = "broken"]
    /\ UNCHANGED <<command, toServer, handler, dns, data, faults>>

(* The server is not there, or decode or encode fails on a connection that *)
(* was reset or closed.                                                    *)
CommandFails(c) ==
    /\ \/ pc[c] = "start" /\ command[c].orderly
       \/ pc[c] \in {"handshake", "request"} /\ link[c] = "broken"
    /\ pc' = [pc EXCEPT ![c] = "failed"]
    /\ UNCHANGED <<command, channels, handler, dns, data, faults>>

(* A program that knows the packets, but not their order.  What it sends   *)
(* while the server is busy waits in the socket.                           *)
StrangerConnects(c) ==
    /\ pc[c] = "start" /\ ~command[c].orderly
    /\ pc' = [pc EXCEPT ![c] = "stranger"]
    /\ link' = [link EXCEPT ![c] = "up"]
    /\ Enter(c, "handshake")
    /\ UNCHANGED <<command, toServer, toClient, dns, data, faults>>

StrangerSends(c) ==
    /\ pc[c] = "stranger" /\ link[c] = "up" /\ handler[c] \in {"handshake", "idle"}
    /\ toServer[c] = <<>> /\ toClient[c] = <<>>
    /\ \E packet \in {"ControlHandshake", command[c].type} : toServer' = Sent(toServer, c, packet)
    /\ UNCHANGED <<command, pc, link, toClient, handler, dns, data, faults>>

StrangerReads(c) ==
    /\ pc[c] = "stranger" /\ toClient[c] # <<>>
    /\ toClient' = [toClient EXCEPT ![c] = Tail(@)]
    /\ UNCHANGED <<command, pc, link, toServer, handler, dns, data, faults>>

-----------------------------------------------------------------------------
(* The server (api_server.rs, state.rs, dns.rs)                            *)

Received(c, packet) ==
    /\ toServer[c] # <<>> /\ Head(toServer[c]) = packet
    /\ toServer' = [toServer EXCEPT ![c] = Tail(@)]

(* tx.send(..)?: the loop goes on when the answer could be sent.           *)
Respond(c, ok, next) ==
    /\ toClient' = Sent(toClient, c, [ok |-> ok])
    /\ Enter(c, IF link[c] = "broken" THEN "none" ELSE next)

(* Mutant: the error of handle_handshake is not passed on.                 *)
AfterAnyHandshake(c) == "idle"
AfterHandshake(c) == IF command[c].compatible THEN "idle" ELSE "none"

HandleHandshake(c) ==
    /\ handler[c] = "handshake" /\ Received(c, "ControlHandshake")
    /\ Respond(c, command[c].compatible, AfterHandshake(c))
    /\ UNCHANGED <<command, pc, link, dns, data, faults>>

(* Another packet than a handshake closes the connection without answer.   *)
HandleUnexpected(c) ==
    /\ handler[c] = "handshake" /\ Received(c, command[c].type)
    /\ Enter(c, "none")
    /\ link' = [link EXCEPT ![c] = "broken"]
    /\ UNCHANGED <<command, pc, toClient, dns, data, faults>>

(* A second handshake is none of the requests of the loop.                 *)
HandleIgnored(c) ==
    /\ handler[c] = "idle" /\ Received(c, "ControlHandshake")
    /\ UNCHANGED <<command, pc, link, toClient, handler, dns, data, faults>>

CheckAuth(c) == command[c].password \/ command[c].type = "PasswdGetList"

(* The next request, if its authentication is good.                        *)
Request(c, type) == handler[c] = "idle" /\ Received(c, type) /\ CheckAuth(c)

HandleRefused(c) ==
    /\ handler[c] = "idle" /\ Received(c, command[c].type) /\ ~CheckAuth(c)
    /\ Respond(c, FALSE, "none")
    /\ UNCHANGED <<command, pc, link, dns, data, faults>>

(* ControlCheckAuth and PasswdGetList change nothing.                      *)
HandleQuery(c) ==
    /\ \E type \in {"ControlCheckAuth", "PasswdGetList"} : Request(c, type)
    /\ Respond(c, TRUE, "idle")
    /\ UNCHANGED <<command, pc, link, dns, data, faults>>

(* Mutant: a name that is taken is accepted again.                         *)
AddsAlways(name) == TRUE
Adds(name) == name \notin users

(* State::add_user refuses a name that is taken; a user whose index could  *)
(* not be written stays registered.                                        *)
HandleUserRegister(c) ==
    LET name == command[c].name IN
    /\ Request(c, "UserRegister")
    /\ users' = users \cup {name}
    /\ \/ Respond(c, Adds(name), "idle") /\ UNCHANGED faults
       \/ Respond(c, FALSE, "idle") /\ faults < MaxFaults /\ faults' = faults + 1
    /\ UNCHANGED <<command, pc, link, dns, forgotten, hosts, mapped, torn>>

HandleUserDnsMapping(c) ==
    /\ Request(c, "UserDnsMapping")
    /\ Enter(c, "lock")
    /\ UNCHANGED <<command, pc, link, toClient, dns, data, faults>>

(* Mutant: the guard is dropped as soon as it is there.                    *)
LockedBriefly(c) == NoClient
Locked(c) == c

LockDns(c) ==
    /\ handler[c] = "lock" /\ dns = NoClient
    /\ dns' = Locked(c)
    /\ Enter(c, "create")
    /\ UNCHANGED <<command, pc, channels, data, faults>>

(* File::create truncates; then write_all hands the mapping to a thread.   *)
CreateHostFile(c) ==
    /\ handler[c] = "create"
    /\ hosts' = [hosts EXCEPT ![command[c].name] = "empty"]
    /\ Enter(c, "write")
    /\ UNCHANGED <<command, pc, channels, dns, users, forgotten, mapped, torn, faults>>

(* The thread writes it.                                                   *)
LandHostFile(c) ==
    /\ handler[c] = "write"
    /\ hosts' = [hosts EXCEPT ![command[c].name] = c]
    /\ Enter(c, "flush")
    /\ UNCHANGED <<command, pc, channels, dns, users, forgotten, mapped, torn, faults>>

(* Mutant: a request that ends keeps the mutex.                            *)
UnlockedNever == dns
Unlocked == NoClient

(* Mutant: there is no flush that waits for the thread.                    *)
NotFlushed == "write"
Flushed == "flush"

(* flush was waiting for the thread; now the guests are notified.          *)
AnnounceMapping(c) ==
    LET name == command[c].name IN
    /\ handler[c] = Flushed
    /\ mapped' = [mapped EXCEPT ![name] = c]
    /\ torn' = torn \ {name}
    /\ dns' = Unlocked
    /\ Respond(c, TRUE, "idle")
    /\ UNCHANGED <<command, pc, link, toServer, users, forgotten, hosts, faults>>

(* File::create fails, or flush reports that the thread did.               *)
HostFileFails(c) ==
    /\ handler[c] \in {"create", "write"} /\ faults < MaxFaults
    /\ torn' = IF handler[c] = "write" THEN torn \cup {command[c].name} ELSE torn
    /\ dns' = Unlocked
    /\ Respond(c, FALSE, "idle")
    /\ faults' = faults + 1
    /\ UNCHANGED <<command, pc, link, toServer, users, forgotten, hosts, mapped>>

(* recv fails: the client closed the connection, or it broke.              *)
HandlerEnds(c) ==
    /\ handler[c] \in {"handshake", "idle"} /\ link[c] = "broken"
    /\ Enter(c, "none")
    /\ UNCHANGED <<command, pc, channels, dns, data, faults>>

(* A connection is reset, losing what is on its way, or falls silent.      *)
Break(c) ==
    /\ link[c] = "up" /\ faults < MaxFaults
    /\ link' \in {[link EXCEPT ![c] = "broken"], [link EXCEPT ![c] = "silent"]}
    /\ toServer' = [toServer EXCEPT ![c] = <<>>] /\ toClient' = [toClient EXCEPT ![c] = <<>>]
    /\ faults' = faults + 1
    /\ UNCHANGED <<command, pc, handler, dns, data>>

(* The server stops and is started again, with the users that USER_INDEX   *)
(* holds: the last ones may be missing, for their write was not awaited.   *)
Restart ==
    /\ faults < MaxFaults
    /\ link' = [c \in Client |-> IF link[c] = "up" THEN "broken" ELSE link[c]]
    /\ toServer' = [c \in Client |-> <<>>] /\ toClient' = [c \in Client |-> <<>>]
    /\ handler' = [c \in Client |-> "none"] /\ dns' = NoClient
    /\ users' \in SUBSET users /\ forgotten' = forgotten \cup (users \ users')
    /\ torn' = torn \cup {command[c].name : c \in {d \in Client : handler[d] \in {"write", "flush"}}}
    /\ faults' = faults + 1
    /\ UNCHANGED <<command, pc, hosts, mapped>>

ClientStep(c) == Connect(c) \/ SendRequest(c) \/ EndCommand(c) \/ CommandFails(c)

HandlerStep(c) ==
    \/ HandleHandshake(c) \/ HandleUnexpected(c) \/ HandleIgnored(c) \/ HandleRefused(c)
    \/ HandleQuery(c) \/ HandleUserRegister(c) \/ HandleUserDnsMapping(c) \/ LockDns(c)
    \/ CreateHostFile(c) \/ LandHostFile(c) \/ AnnounceMapping(c) \/ HandlerEnds(c)

StrangerStep(c) == StrangerConnects(c) \/ StrangerSends(c) \/ StrangerReads(c)

Next == \/ \E c \in Client : \/ ClientStep(c) \/ StrangerStep(c)
                             \/ HandlerStep(c) \/ HostFileFails(c) \/ Break(c)
        \/ Restart

Fairness == \A c \in Client : WF_vars(ClientStep(c)) /\ WF_vars(HandlerStep(c))

Spec == Init /\ [][Next]_vars /\ Fairness

-----------------------------------------------------------------------------
AtMostOne(S) == {<<>>} \cup {<<packet>> : packet \in S}

(* Packets are only on their way on a connection that is up, one at a time *)
(* in either direction, and the mutex is held by whoever is at the files   *)
(* (api_server.rs, state.rs:94).                                           *)
TypeOK ==
    /\ command \in [Client -> Command]
    /\ pc \in [Client -> {"start", "handshake", "request", "ok", "refused", "failed", "stranger"}]
    /\ link \in [Client -> {"none", "up", "silent", "broken"}]
    /\ handler \in [Client -> Writing \cup {"none", "handshake", "idle"}]
    /\ dns \in Client \cup {NoClient}
    /\ toServer \in [Client -> AtMostOne(Type \cup {"ControlHandshake"})]
    /\ toClient \in [Client -> AtMostOne(Response)]
    /\ \A c \in Client : /\ toServer[c] = <<>> \/ toClient[c] = <<>>
                         /\ link[c] # "up" => toServer[c] = <<>> /\ toClient[c] = <<>>
                         /\ (dns = c) <=> handler[c] \in {"create", "write", "flush"}
    /\ users \cup forgotten \cup torn \subseteq Name /\ faults \in 0 .. MaxFaults
    /\ hosts \in [Name -> Client \cup {"none", "empty"}] /\ mapped \in [Name -> Client \cup {"none"}]

Authorised(c) == command[c].compatible /\ command[c].password

(* A command reports success only when the server did what it asked for:   *)
(* one command at most is told that it created a user, whichever of them   *)
(* lost their connection and were run again (main.rs:119), unless a        *)
(* restart of the server forgot the user.                                  *)
SuccessIsOnce ==
    \A c, d \in Client :
        command[c].type = "UserRegister" /\ pc[c] = "ok" =>
            /\ command[c].name \in users \cup forgotten
            /\ command[d].type = "UserRegister" /\ pc[d] = "ok" /\ command[d].name = command[c].name
                 => c = d \/ command[c].name \in forgotten

(* Users and mappings come from commands that passed the handshake and the *)
(* authentication, and a query succeeds for those only unless it needs no  *)
(* password (api_server.rs:18-50), whatever is sent in which order.        *)
OnlyAuthorised ==
    /\ \A n \in users : \E c \in Client :
          command[c].type = "UserRegister" /\ command[c].name = n /\ Authorised(c)
    /\ \A n \in Name : hosts[n] \in Client => Authorised(hosts[n])
    /\ \A c \in Client :
          pc[c] = "ok" => Authorised(c) \/ (command[c].type = "PasswdGetList" /\ command[c].compatible)

(* The host file that dnsmasq reads holds the mapping the guests were last *)
(* told of, except while another is written, and after a write that failed *)
(* or a crash on the way from truncating it to telling them (dns.rs:24-27).*)
HostsSettled ==
    \A n \in Name :
        \/ hosts[n] = mapped[n]
        \/ n \in torn
        \/ \E c \in Client : /\ command[c].name = n
                            /\ \/ handler[c] = "write" /\ hosts[n] = "empty"
                               \/ handler[c] = "flush" /\ hosts[n] = c

(* A command ends, with an answer or an error, unless its connection has   *)
(* fallen silent: the client sets itself no time limit (main.rs:8-20).     *)
CommandsEnd ==
    \A c \in Client :
        pc[c] \in {"handshake", "request"} ~> pc[c] \in {"ok", "refused", "failed"} \/ link[c] = "silent"
=============================================================================
