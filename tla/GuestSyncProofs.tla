-------------------------- MODULE GuestSyncProofs ---------------------------
(***************************************************************************)
(* Proofs about GuestSync, for any guests, names, capacities and numbers   *)
(* of faults.                                                              *)
(***************************************************************************)
EXTENDS GuestSync, SequenceLemmas, TLAPS

-----------------------------------------------------------------------------
(* The inductive invariant.                                                *)

IsListing(p) == p.kind = "ShadowGetListResponse"

\* The listings that are up to date.
Good == {list \in Listing : UpToDate(list)}

\* No listing among the packets of w, or the last one is one of L.
NoListing(w) == \A i \in 1..Len(w) : ~IsListing(w[i])
EndsWith(w, L) ==
    \E i \in 1..Len(w) :
        /\ IsListing(w[i]) /\ w[i].list \in L
        /\ \A j \in 1..Len(w) : j > i => ~IsListing(w[j])

\* The daemon of g will ask for the users.
Pending(g) == "ShadowGetList" \in ToSet(toServer[g]) \/ Coming(g, "NotifyUsersChanged")

\* The last listing that the daemon of g has or will read is up to date.
Current(g) ==
    IF answer[g] # <<>> THEN UpToDate(answer[g][1])
    ELSE EndsWith(toGuest[g], Good) \/ (NoListing(toGuest[g]) /\ Synced(g))

Informed(g) == link[g] = "up" /\ ~lagged[g] /\ ~lost[g] => Pending(g) \/ Current(g)

\* Flushing(g) is FlushOnTheWay for g.
Flushing(g) ==
    dns[g] = "stale" /\ ~lagged[g] /\ ~lost[g] => Coming(g, "NotifyDnsMappingsChanged")

\* A task sends one packet at a time.
Single(g) == Len(answer[g]) <= 1 /\ Len(hand[g]) <= 1

\* Nothing is left of the last connection when the daemon makes the next.
Idle(g) ==
    daemon[g] = "connect" =>
        /\ link[g] # "up" /\ ~listening[g]
        /\ answer[g] = <<>> /\ hand[g] = <<>> /\ toGuest[g] = <<>>

\* Nothing happens on a connection before the server knows that it listens.
Greeting(g) ==
    link[g] = "up" /\ ~listening[g] /\ ~lagged[g] =>
        toServer[g] = Hello /\ answer[g] = <<>> /\ hand[g] = <<>> /\ toGuest[g] = <<>>

\* The listings of a guest: those cached, those in the packets w, those among the
\* answers, and the users.  Each is older than those that follow.
Sorted(cached, w, answers, registered) ==
    /\ \A list \in cached \union answers : IsPrefix(list, registered)
    /\ \A old \in cached, new \in answers : IsPrefix(old, new)
    /\ \A i \in 1..Len(w) : IsListing(w[i]) =>
        /\ IsPrefix(w[i].list, registered)
        /\ \A old \in cached : IsPrefix(old, w[i].list)
        /\ \A new \in answers : IsPrefix(w[i].list, new)
    /\ \A i, j \in 1..Len(w) :
        i < j /\ IsListing(w[i]) /\ IsListing(w[j]) => IsPrefix(w[i].list, w[j].list)

Ordered(g) ==
    stops = 0 => Sorted(ToSet(cache[g]), toGuest[g], ToSet(answer[g]), users)

InvAt(g) ==
    Single(g) /\ Idle(g) /\ Greeting(g) /\ Informed(g) /\ Flushing(g) /\ Ordered(g)

\* The registry: what was announced is there, and a server that is down has no
\* connections.
Serving ==
    /\ IsPrefix(announced, users)
    /\ stops = 0 => status = "up"
    /\ status # "up" => \A g \in Guest : link[g] # "up"

IInv == TypeOK /\ Serving /\ \A g \in Guest : InvAt(g)

-----------------------------------------------------------------------------
(* Type correctness.                                                       *)

Request == {"ControlListenEvents", "ShadowGetList"}

\* The registry and the bounds.
RegistryTypes ==
    /\ Registry!TypeOK
    /\ announced \in Listing
    /\ mappings \in 0..MaxMappings /\ breaks \in 0..MaxBreaks /\ stops \in 0..MaxStops

\* What the server keeps for the connections.
LinkTypes ==
    /\ link \in [Guest -> {"none", "up", "broken"}]
    /\ toServer \in [Guest -> Seq(Request)]
    /\ answer \in [Guest -> Seq(Listing)]
    /\ listening \in [Guest -> BOOLEAN]
    /\ unread \in [Guest -> Seq(Notification)] /\ \A g \in Guest : Len(unread[g]) <= Capacity
    /\ lagged \in [Guest -> BOOLEAN]
    /\ hand \in [Guest -> Seq(Notification)]

\* The daemons and what they have not read.
DaemonTypes ==
    /\ lost \in [Guest -> BOOLEAN]
    /\ toGuest \in [Guest -> Seq(Packet)]
    /\ daemon \in [Guest -> {"connect", "loop", "flush"}]
    /\ cache \in [Guest -> Seq(Listing)]
    /\ dns \in [Guest -> {"fresh", "stale", "missed"}]

\* They are the type invariant.
LEMMA TypeParts == TypeOK <=> RegistryTypes /\ LinkTypes /\ DaemonTypes
BY DEF TypeOK, RegistryTypes, LinkTypes, DaemonTypes, Request

\* What the registry does to its list.
LEMMA RegisteredType ==
    ASSUME Registry!TypeOK, NEW n \in Name
    PROVE  /\ users \in Seq(Registry!User)
           /\ Registry!Registered(users, n) \in Seq(Registry!User)
           /\ Registry!Registered(users, n) =
                Append(users, [id |-> FirstId + Len(users), name |-> n])
           /\ [id |-> FirstId + Len(users), name |-> n] \in Registry!User
<1>1. users \in Seq(Registry!User) /\ Len(users) \in Nat
  BY DEF Registry!TypeOK
<1>2. [id |-> FirstId + Len(users), name |-> n] \in Registry!User
  BY <1>1, ParameterAssumption DEF Registry!User
<1>3. Append(users, [id |-> FirstId + Len(users), name |-> n]) \in Seq(Registry!User)
  BY <1>1, <1>2, AppendProperties
<1> QED
  BY <1>1, <1>2, <1>3 DEF Registry!Registered

\* The registry keeps its types.
LEMMA RegistryTypesStep ==
    ASSUME TypeOK, [Next]_vars
    PROVE  RegistryTypes'
<1> USE DEF RegistryTypes
<1>1. RegistryTypes /\ Registry!TypeOK /\ users \in Seq(Registry!User)
  BY TypeParts DEF Registry!TypeOK
<1>2. ASSUME UNCHANGED <<registryVars, bounds>> PROVE RegistryTypes'
  BY <1>1, <1>2 DEF registryVars, bounds, Registry!TypeOK
<1>3. ASSUME NEW n \in Name, Registry!Register(n) PROVE Registry!TypeOK' /\ users' \in Listing
  <2>1. users' = Registry!Registered(users, n) /\ status' = status
    BY <1>3 DEF Registry!Register
  <2>2. users' \in Seq(Registry!User)
    BY <1>1, <2>1, RegisteredType
  <2> QED
    BY <1>1, <2>1, <2>2 DEF Registry!TypeOK, Listing
<1>4. ASSUME NEW n \in Name, RegisterUser(n) \/ RegisterUnannounced(n) PROVE RegistryTypes'
  <2>1. Registry!TypeOK' /\ users' \in Listing
    BY <1>3, <1>4 DEF RegisterUser, RegisterUnannounced
  <2> QED
    BY <1>1, <1>4, <2>1 DEF RegisterUser, RegisterUnannounced, bounds
<1>5. CASE MapHost
  BY <1>1, <1>5, ParameterAssumption DEF MapHost, registryVars, Registry!TypeOK
<1>6. CASE StopServer
  BY <1>1, <1>6, ParameterAssumption DEF StopServer, Registry!Stop, Registry!TypeOK
<1>7. CASE StartServer
  <2>1. status' \in {"up", "failed"}
    BY <1>7 DEF StartServer, Registry!Start
  <2>2. CASE UNCHANGED users
    BY <1>1, <1>7, <2>1, <2>2 DEF StartServer, bounds, Registry!TypeOK, Listing
  <2>3. CASE users' \in Registry!Recoverable
    <3>1. ASSUME NEW n \in 0..Len(users) PROVE SubSeq(users, 1, n) \in Seq(Registry!User)
      BY <1>1, SubSeqProperties
    <3>2. users' \in Seq(Registry!User)
      BY <1>1, <2>3, <3>1, RegisteredType DEF Registry!Recoverable
    <3> QED
      BY <1>1, <1>7, <2>1, <3>2 DEF StartServer, bounds, Registry!TypeOK, Listing
  <2> QED
    BY <1>7, <2>2, <2>3 DEF StartServer, Registry!Start
<1>8. ASSUME NEW g \in Guest, LosePacket(g) \/ BreakLink(g) \/ RestartDaemon(g) PROVE RegistryTypes'
  BY <1>1, <1>8, ParameterAssumption
     DEF LosePacket, BreakLink, RestartDaemon, registryVars, Registry!TypeOK
<1>9. ASSUME NEW g \in Guest, ServerTasks(g) PROVE RegistryTypes'
  BY <1>2, <1>9 DEF ServerTasks, HandleListen, HandleShadowGetList, SendAnswer
<1>10. ASSUME NEW g \in Guest, ForwarderTask(g) PROVE RegistryTypes'
  BY <1>2, <1>10 DEF ForwarderTask, TakeNotification, SendNotification, EndForwarder, server
<1>11. ASSUME NEW g \in Guest, DaemonTask(g) PROVE RegistryTypes'
  BY <1>2, <1>11
     DEF DaemonTask, Connect, UsersChanged, DnsMappingsChanged, Flushed, UpdateCache,
         NoticeBroken, server, bounds, Drop
<1>12. CASE UNCHANGED vars
  BY <1>2, <1>12 DEF vars, server
<1> QED
  BY <1>4, <1>5, <1>6, <1>7, <1>8, <1>9, <1>10, <1>11, <1>12 DEF Next

\* Notifications and listings are packets.
LEMMA PacketTypes ==
    /\ \A n \in Notification : Event(n) \in Packet /\ Event(n).kind = n
    /\ \A list \in Listing :
        /\ Response(list) \in Packet /\ Response(list).list = list
        /\ IsListing(Response(list))
<1>1. <<>> \in Listing
  BY DEF Listing
<1>2. ASSUME NEW n \in Notification PROVE Event(n) \in Packet /\ Event(n).kind = n
  BY <1>1 DEF Event, Packet
<1>3. ASSUME NEW list \in Listing
      PROVE  /\ Response(list) \in Packet /\ Response(list).list = list
             /\ IsListing(Response(list))
  BY DEF Response, Packet, IsListing
<1> QED
  BY <1>2, <1>3

\* What is left of the connections of G.
LEMMA ForgetTypes ==
    ASSUME TypeOK, NEW G, Forget(G)
    PROVE  LinkTypes'
<1>1. LinkTypes
  BY TypeParts
<1>2. <<>> \in Seq(Request) /\ <<>> \in Seq(Listing) /\ <<>> \in Seq(Notification)
  OBVIOUS
<1>3. link' \in [Guest -> {"none", "up", "broken"}]
  BY <1>1 DEF Forget, LinkTypes
<1>4. toServer' \in [Guest -> Seq(Request)] /\ answer' \in [Guest -> Seq(Listing)]
  BY <1>1, <1>2 DEF Forget, LinkTypes
<1>5. listening' \in [Guest -> BOOLEAN] /\ lagged' \in [Guest -> BOOLEAN]
  BY <1>1 DEF Forget, LinkTypes
<1>6. unread' \in [Guest -> Seq(Notification)] /\ hand' \in [Guest -> Seq(Notification)]
  BY <1>1, <1>2 DEF Forget, LinkTypes
<1>7. \A g \in Guest : Len(unread'[g]) <= Capacity
  <2>1. Len(<<>>) <= Capacity
    BY ParameterAssumption
  <2> QED
    BY <1>1, <2>1 DEF Forget, LinkTypes
<1> QED
  BY <1>3, <1>4, <1>5, <1>6, <1>7 DEF LinkTypes

\* The channel takes a notification.
LEMMA PushedType ==
    ASSUME NEW q \in Seq(Notification), NEW n \in Notification, Len(q) <= Capacity
    PROVE  /\ Pushed(q, n) \in Seq(Notification) /\ Len(q) \in Nat
           /\ Len(Pushed(q, n)) <= Capacity
           /\ n \in ToSet(Pushed(q, n))
           /\ Len(q) < Capacity => ToSet(Pushed(q, n)) = ToSet(q) \cup {n}
<1>1. CASE Len(q) < Capacity
  <2>1. Len(q) \in Nat /\ Len(Append(q, n)) = Len(q) + 1 /\ Append(q, n) \in Seq(Notification)
    BY AppendProperties
  <2> QED
    BY <1>1, <2>1, AppendMembers, ParameterAssumption DEF Pushed
<1>2. CASE ~(Len(q) < Capacity)
  <2>1. q # <<>> /\ Len(q) \in Nat
    BY <1>2, ParameterAssumption
  <2>2. Tail(q) \in Seq(Notification) /\ Len(Tail(q)) = Len(q) - 1
    BY <2>1, TailProperties
  <2>3. Pushed(q, n) = Append(Tail(q), n)
    BY <1>2 DEF Pushed
  <2>4. Append(Tail(q), n) \in Seq(Notification) /\ Len(Append(Tail(q), n)) = Len(Tail(q)) + 1
    BY <2>2, AppendProperties
  <2>5. n \in ToSet(Append(Tail(q), n))
    <3>1. \A t \in Seq(Notification) : ToSet(Append(t, n)) = ToSet(t) \cup {n}
      BY AppendMembers
    <3> QED
      BY <2>2, <3>1
  <2> QED
    BY <1>2, <2>1, <2>2, <2>3, <2>4, <2>5
<1> QED
  BY <1>1, <1>2

\* What a notification does to each receiver.
LEMMA BroadcastEffect ==
    ASSUME TypeOK, NEW n \in Notification, Broadcast(n)
    PROVE  /\ unread' \in [Guest -> Seq(Notification)] /\ lagged' \in [Guest -> BOOLEAN]
           /\ listening' = listening /\ hand' = hand
           /\ \A g \in Guest :
                /\ Len(unread'[g]) <= Capacity
                /\ listening[g] => n \in ToSet(unread'[g])
                /\ ~listening[g] => unread'[g] = unread[g] /\ lagged'[g] = lagged[g]
                /\ ~lagged'[g] => ~lagged[g] /\ ToSet(unread[g]) \subseteq ToSet(unread'[g])
<1>1. /\ unread \in [Guest -> Seq(Notification)] /\ lagged \in [Guest -> BOOLEAN]
      /\ listening \in [Guest -> BOOLEAN] /\ \A g \in Guest : Len(unread[g]) <= Capacity
  BY TypeParts DEF LinkTypes
<1>2. /\ unread' = [g \in Guest |-> IF listening[g] THEN Pushed(unread[g], n) ELSE unread[g]]
      /\ lagged' = [g \in Guest |-> lagged[g] \/ (listening[g] /\ Len(unread[g]) >= Capacity)]
      /\ listening' = listening /\ hand' = hand
  BY DEF Broadcast
<1>3. ASSUME NEW g \in Guest
      PROVE  /\ unread'[g] \in Seq(Notification) /\ lagged'[g] \in BOOLEAN
             /\ Len(unread'[g]) <= Capacity
             /\ listening[g] => n \in ToSet(unread'[g])
             /\ ~listening[g] => unread'[g] = unread[g] /\ lagged'[g] = lagged[g]
             /\ ~lagged'[g] => ~lagged[g] /\ ToSet(unread[g]) \subseteq ToSet(unread'[g])
  <2>1. /\ Pushed(unread[g], n) \in Seq(Notification) /\ n \in ToSet(Pushed(unread[g], n))
        /\ Len(unread[g]) \in Nat /\ Capacity \in Nat /\ Len(Pushed(unread[g], n)) <= Capacity
        /\ Len(unread[g]) < Capacity =>
            ToSet(unread[g]) \subseteq ToSet(Pushed(unread[g], n))
    BY <1>1, PushedType, ParameterAssumption
  <2>2. /\ listening[g] \in BOOLEAN /\ lagged[g] \in BOOLEAN
    BY <1>1
  <2>3. CASE listening[g]
    <3>1. unread'[g] = Pushed(unread[g], n) /\ lagged'[g] = (lagged[g] \/ Len(unread[g]) >= Capacity)
      BY <1>2, <2>2, <2>3
    <3>2. lagged'[g] \in BOOLEAN /\ (~lagged'[g] => ~lagged[g] /\ Len(unread[g]) < Capacity)
      <4>1. lagged'[g] \in BOOLEAN
        BY <1>2, <2>2
      <4>2. ASSUME ~lagged'[g] PROVE ~lagged[g] /\ Len(unread[g]) < Capacity
        <5>1. ~lagged[g] /\ ~(Len(unread[g]) >= Capacity)
          BY <3>1, <4>2, Zenon
        <5> QED
          BY <2>1, <5>1
      <4> QED
        BY <4>1, <4>2
    <3> QED
      BY <2>1, <2>3, <3>1, <3>2, Zenon
  <2>4. CASE ~listening[g]
    <3>1. unread'[g] = unread[g] /\ lagged'[g] = lagged[g]
      BY <1>2, <2>2, <2>4
    <3> QED
      BY <1>1, <2>2, <2>4, <3>1
  <2> QED
    BY <2>2, <2>3, <2>4
<1>4. unread' \in [Guest -> Seq(Notification)] /\ lagged' \in [Guest -> BOOLEAN]
  BY <1>2, <1>3
<1> QED
  BY <1>2, <1>3, <1>4

\* The connections keep their types.
LEMMA LinkTypesStep ==
    ASSUME TypeOK, [Next]_vars
    PROVE  LinkTypes'
<1>1. LinkTypes /\ DaemonTypes /\ RegistryTypes
  BY TypeParts
<1>2. ASSUME UNCHANGED <<link, toServer, answer, channel>> PROVE LinkTypes'
  BY <1>1, <1>2 DEF LinkTypes, channel
<1>3. ASSUME NEW n \in Notification, Broadcast(n), UNCHANGED <<link, toServer, answer>>
      PROVE  LinkTypes'
  BY <1>1, <1>3, BroadcastEffect DEF LinkTypes
<1>4. ASSUME NEW n \in Name, RegisterUser(n) \/ RegisterUnannounced(n) PROVE LinkTypes'
  BY <1>2, <1>3, <1>4 DEF RegisterUser, RegisterUnannounced, Notification
<1>5. CASE MapHost
  BY <1>3, <1>5 DEF MapHost, Notification
<1>6. CASE StopServer \/ StartServer
  BY <1>2, <1>6, ForgetTypes DEF StopServer, StartServer
<1>7. ASSUME NEW g \in Guest, ServerTasks(g) PROVE LinkTypes'
  <2>1. ASSUME NEW r, NextRequest(g, r) PROVE toServer' \in [Guest -> Seq(Request)]
    <3>1. toServer[g] # <<>> /\ toServer' = [toServer EXCEPT ![g] = Tail(toServer[g])]
      BY <2>1 DEF NextRequest
    <3>2. Tail(toServer[g]) \in Seq(Request)
      BY <1>1, <3>1, TailProperties DEF LinkTypes
    <3> QED
      BY <1>1, <3>1, <3>2 DEF LinkTypes
  <2>2. CASE HandleListen(g)
    <3>1. toServer' \in [Guest -> Seq(Request)]
      BY <2>1, <2>2 DEF HandleListen
    <3> QED
      BY <1>1, <2>2, <3>1 DEF HandleListen, LinkTypes
  <2>3. CASE HandleShadowGetList(g)
    <3>1. toServer' \in [Guest -> Seq(Request)]
      BY <2>1, <2>3 DEF HandleShadowGetList
    <3>2. <<users>> \in Seq(Listing)
      BY <1>1, OneMember DEF RegistryTypes, Registry!TypeOK, Listing
    <3> QED
      BY <1>1, <2>3, <3>1, <3>2 DEF HandleShadowGetList, LinkTypes, channel
  <2>4. CASE SendAnswer(g)
    <3>1. <<>> \in Seq(Listing)
      OBVIOUS
    <3> QED
      BY <1>1, <2>4, <3>1 DEF SendAnswer, LinkTypes, channel
  <2> QED
    BY <1>7, <2>2, <2>3, <2>4 DEF ServerTasks
<1>8. ASSUME NEW g \in Guest, ForwarderTask(g) PROVE LinkTypes'
  <2>1. CASE TakeNotification(g)
    <3>1. /\ unread[g] # <<>> /\ unread' = [unread EXCEPT ![g] = Tail(unread[g])]
          /\ hand' = [hand EXCEPT ![g] = <<Head(unread[g])>>]
          /\ UNCHANGED <<link, toServer, answer, listening, lagged>>
      BY <2>1 DEF TakeNotification, server
    <3>2. Tail(unread[g]) \in Seq(Notification) /\ <<Head(unread[g])>> \in Seq(Notification)
      BY <1>1, <3>1, TailProperties, OneMember DEF LinkTypes
    <3>3. Len(Tail(unread[g])) <= Capacity
      <4>1. unread[g] \in Seq(Notification) /\ Len(unread[g]) <= Capacity
        BY <1>1 DEF LinkTypes
      <4>2. Len(unread[g]) \in Nat /\ Len(Tail(unread[g])) = Len(unread[g]) - 1
        BY <3>1, <4>1, TailProperties
      <4> QED
        BY <4>1, <4>2, ParameterAssumption
    <3> QED
      BY <1>1, <3>1, <3>2, <3>3 DEF LinkTypes
  <2>2. CASE SendNotification(g)
    <3>1. <<>> \in Seq(Notification)
      OBVIOUS
    <3> QED
      BY <1>1, <2>2, <3>1 DEF SendNotification, LinkTypes, server
  <2>3. CASE EndForwarder(g)
    BY <1>1, <2>3 DEF EndForwarder, LinkTypes, server
  <2> QED
    BY <1>8, <2>1, <2>2, <2>3 DEF ForwarderTask
<1>9. ASSUME NEW g \in Guest, Drop(g) PROVE LinkTypes'
  BY <1>9, ForgetTypes DEF Drop
<1>10. ASSUME NEW g \in Guest, DaemonTask(g) PROVE LinkTypes'
  <2>1. CASE Connect(g)
    <3>1. Hello \in Seq(Request)
      BY DEF Hello, Request
    <3> QED
      BY <1>1, <2>1, <3>1 DEF Connect, LinkTypes, channel
  <2>2. CASE UsersChanged(g)
    <3>1. Append(toServer[g], "ShadowGetList") \in Seq(Request)
      BY <1>1, AppendProperties DEF LinkTypes, Request
    <3> QED
      BY <1>1, <2>2, <3>1 DEF UsersChanged, LinkTypes, channel
  <2>3. CASE DnsMappingsChanged(g) \/ Flushed(g) \/ UpdateCache(g)
    BY <1>2, <2>3 DEF DnsMappingsChanged, Flushed, UpdateCache, server
  <2>4. CASE NoticeBroken(g)
    BY <1>9, <2>4 DEF NoticeBroken
  <2> QED
    BY <1>10, <2>1, <2>2, <2>3, <2>4 DEF DaemonTask
<1>11. ASSUME NEW g \in Guest, LosePacket(g) PROVE LinkTypes'
  BY <1>2, <1>9, <1>11 DEF LosePacket
<1>12. ASSUME NEW g \in Guest, BreakLink(g) \/ RestartDaemon(g) PROVE LinkTypes'
  BY <1>9, <1>12, ForgetTypes DEF BreakLink, RestartDaemon
<1>13. CASE UNCHANGED vars
  BY <1>2, <1>13 DEF vars, server
<1> QED
  BY <1>4, <1>5, <1>6, <1>7, <1>8, <1>10, <1>11, <1>12, <1>13 DEF Next

\* What is left to read after a packet was read or lost.
LEMMA DecodeEffect ==
    ASSUME TypeOK, NEW g \in Guest, toGuest[g] # <<>>,
           toGuest' = [toGuest EXCEPT ![g] = Tail(@)]
    PROVE  /\ Tail(toGuest[g]) \in Seq(Packet) /\ Head(toGuest[g]) \in Packet
           /\ toGuest'[g] = Tail(toGuest[g]) /\ toGuest' \in [Guest -> Seq(Packet)]
           /\ ToSet(toGuest[g]) = {Head(toGuest[g])} \cup ToSet(toGuest'[g])
<1>1. toGuest \in [Guest -> Seq(Packet)]
  BY TypeParts DEF DaemonTypes
<1>2. Tail(toGuest[g]) \in Seq(Packet) /\ Head(toGuest[g]) \in Packet
  BY <1>1, TailProperties
<1>3. ToSet(toGuest[g]) = {Head(toGuest[g])} \cup ToSet(Tail(toGuest[g]))
  BY <1>1, TailMembers
<1> QED
  BY <1>1, <1>2, <1>3

\* A packet that is sent is what the daemon will read last.
LEMMA SendEffect ==
    ASSUME TypeOK, NEW g \in Guest, NEW p \in Packet,
           toGuest' = [toGuest EXCEPT ![g] = Append(@, p)]
    PROVE  /\ toGuest'[g] = Append(toGuest[g], p) /\ toGuest' \in [Guest -> Seq(Packet)]
           /\ ToSet(toGuest'[g]) = ToSet(toGuest[g]) \cup {p}
<1>1. toGuest \in [Guest -> Seq(Packet)]
  BY TypeParts DEF DaemonTypes
<1>2. Append(toGuest[g], p) \in Seq(Packet)
  BY <1>1, AppendProperties
<1>3. ToSet(Append(toGuest[g], p)) = ToSet(toGuest[g]) \cup {p}
  BY <1>1, AppendMembers
<1> QED
  BY <1>1, <1>2, <1>3

\* What is sent: an answer, or a notification.
LEMMA SentPackets ==
    ASSUME TypeOK, NEW g \in Guest
    PROVE  /\ answer[g] # <<>> => answer[g][1] \in Listing
           /\ hand[g] # <<>> => hand[g][1] \in Notification
<1>1. answer[g] \in Seq(Listing) /\ hand[g] \in Seq(Notification)
  BY TypeParts DEF LinkTypes
<1> QED
  BY <1>1, TailProperties

\* The daemons keep their types.
LEMMA DaemonTypesStep ==
    ASSUME TypeOK, [Next]_vars
    PROVE  DaemonTypes'
<1>1. LinkTypes /\ DaemonTypes /\ RegistryTypes
  BY TypeParts
<1>2. ASSUME UNCHANGED <<toGuest, guestSide>> PROVE DaemonTypes'
  BY <1>1, <1>2 DEF DaemonTypes, guestSide
<1>3. ASSUME NEW G, MissFlush(G) PROVE dns' \in [Guest -> {"fresh", "stale", "missed"}]
  BY <1>1, <1>3 DEF MissFlush, DaemonTypes
<1>4. ASSUME NEW n \in Name, RegisterUser(n) \/ RegisterUnannounced(n) PROVE DaemonTypes'
  BY <1>2, <1>4 DEF RegisterUser, RegisterUnannounced
<1>5. CASE MapHost
  BY <1>1, <1>5 DEF MapHost, DaemonTypes
<1>6. CASE StopServer
  <2>1. dns' \in [Guest -> {"fresh", "stale", "missed"}] /\ UNCHANGED <<toGuest, daemon, lost, cache>>
    BY <1>3, <1>6 DEF StopServer
  <2> QED
    BY <1>1, <2>1 DEF DaemonTypes
<1>7. CASE StartServer
  BY <1>2, <1>7 DEF StartServer
<1>8. ASSUME NEW g \in Guest, ServerTasks(g) PROVE DaemonTypes'
  <2>1. CASE SendAnswer(g)
    <3>1. Response(answer[g][1]) \in Packet
      BY <2>1, SentPackets, PacketTypes DEF SendAnswer
    <3>2. toGuest' \in [Guest -> Seq(Packet)] /\ UNCHANGED guestSide
      BY <2>1, <3>1, SendEffect DEF SendAnswer, Sent
    <3> QED
      BY <1>1, <3>2 DEF DaemonTypes, guestSide
  <2> QED
    BY <1>2, <1>8, <2>1 DEF ServerTasks, HandleListen, HandleShadowGetList
<1>9. ASSUME NEW g \in Guest, ForwarderTask(g) PROVE DaemonTypes'
  <2>1. CASE SendNotification(g)
    <3>1. Event(hand[g][1]) \in Packet
      BY <2>1, SentPackets, PacketTypes DEF SendNotification
    <3>2. toGuest' \in [Guest -> Seq(Packet)] /\ UNCHANGED guestSide
      BY <2>1, <3>1, SendEffect DEF SendNotification, Sent
    <3> QED
      BY <1>1, <3>2 DEF DaemonTypes, guestSide
  <2> QED
    BY <1>2, <1>9, <2>1 DEF ForwarderTask, TakeNotification, EndForwarder
<1>10. ASSUME NEW g \in Guest, NEW k, Decode(g, k) PROVE toGuest' \in [Guest -> Seq(Packet)]
  BY <1>10, DecodeEffect DEF Decode, Undecoded
<1>11. ASSUME NEW g \in Guest, Drop(g) PROVE
        /\ dns' \in [Guest -> {"fresh", "stale", "missed"}]
        /\ toGuest' \in [Guest -> Seq(Packet)] /\ lost' \in [Guest -> BOOLEAN]
        /\ daemon' \in [Guest -> {"connect", "loop", "flush"}]
  <2>1. <<>> \in Seq(Packet) /\ dns' \in [Guest -> {"fresh", "stale", "missed"}]
    BY <1>3, <1>11 DEF Drop
  <2> QED
    BY <1>1, <1>11, <2>1 DEF Drop, DaemonTypes
<1>12. ASSUME NEW g \in Guest, DaemonTask(g) PROVE DaemonTypes'
  <2>1. CASE Connect(g) \/ Flushed(g)
    BY <1>1, <2>1 DEF Connect, Flushed, DaemonTypes
  <2>2. CASE UsersChanged(g)
    BY <1>1, <1>10, <2>2 DEF UsersChanged, DaemonTypes, guestSide
  <2>3. CASE DnsMappingsChanged(g)
    <3>1. toGuest' \in [Guest -> Seq(Packet)]
      BY <1>10, <2>3 DEF DnsMappingsChanged
    <3>2. dns' \in [Guest -> {"fresh", "stale", "missed"}]
      BY <1>1, <1>3, <2>3 DEF DnsMappingsChanged, DaemonTypes
    <3> QED
      BY <1>1, <2>3, <3>1, <3>2 DEF DnsMappingsChanged, DaemonTypes
  <2>4. CASE UpdateCache(g)
    <3>1. toGuest' \in [Guest -> Seq(Packet)] /\ Head(toGuest[g]) \in Packet
      BY <2>4, DecodeEffect DEF UpdateCache, Decode, Undecoded
    <3>2. <<Head(toGuest[g]).list>> \in Seq(Listing)
      BY <3>1, OneMember DEF Packet
    <3> QED
      BY <1>1, <2>4, <3>1, <3>2 DEF UpdateCache, DaemonTypes
  <2>5. CASE NoticeBroken(g)
    BY <1>1, <1>11, <2>5 DEF NoticeBroken, DaemonTypes
  <2> QED
    BY <1>12, <2>1, <2>2, <2>3, <2>4, <2>5 DEF DaemonTask
<1>13. ASSUME NEW g \in Guest, LosePacket(g) PROVE DaemonTypes'
  <2>1. UNCHANGED cache
    BY <1>13 DEF LosePacket
  <2>2. CASE Drop(g)
    BY <1>1, <1>11, <2>1, <2>2 DEF DaemonTypes
  <2>3. CASE ~Drop(g)
    <3>1. /\ toGuest[g] # <<>> /\ toGuest' = [toGuest EXCEPT ![g] = Tail(@)]
          /\ lost' = [lost EXCEPT ![g] = TRUE] /\ UNCHANGED <<daemon, dns>>
      BY <1>13, <2>3 DEF LosePacket
    <3>2. toGuest' \in [Guest -> Seq(Packet)]
      BY <3>1, DecodeEffect
    <3> QED
      BY <1>1, <2>1, <3>1, <3>2 DEF DaemonTypes
  <2> QED
    BY <2>2, <2>3
<1>14. ASSUME NEW g \in Guest, BreakLink(g) PROVE DaemonTypes'
  BY <1>1, <1>3, <1>14 DEF BreakLink, DaemonTypes
<1>15. ASSUME NEW g \in Guest, RestartDaemon(g) PROVE DaemonTypes'
  <2>1. <<>> \in Seq(Listing)
    OBVIOUS
  <2> QED
    BY <1>1, <1>11, <1>15, <2>1 DEF RestartDaemon, DaemonTypes
<1>16. CASE UNCHANGED vars
  BY <1>2, <1>16 DEF vars
<1> QED
  BY <1>4, <1>5, <1>6, <1>7, <1>8, <1>9, <1>12, <1>13, <1>14, <1>15, <1>16 DEF Next

\* The type invariant is kept.
LEMMA TypeStep ==
    ASSUME TypeOK, [Next]_vars
    PROVE  TypeOK'
<1>1. RegistryTypes' /\ LinkTypes' /\ DaemonTypes'
  BY RegistryTypesStep, LinkTypesStep, DaemonTypesStep
<1> QED
  BY <1>1, TypeParts, PTL

\* What a task of the guest g, of its daemon or of its connection does.
GuestStep(g) ==
    \/ ServerTasks(g) \/ ForwarderTask(g) \/ DaemonTask(g)
    \/ LosePacket(g) \/ BreakLink(g) \/ RestartDaemon(g)

\* It changes neither the registry nor what belongs to other guests.
LEMMA OthersKept ==
    ASSUME TypeOK, NEW g \in Guest, GuestStep(g)
    PROVE  /\ status' = status /\ users' = users /\ announced' = announced /\ stops' = stops
           /\ \A h \in Guest \ {g} :
                /\ link'[h] = link[h] /\ toServer'[h] = toServer[h] /\ answer'[h] = answer[h]
                /\ listening'[h] = listening[h] /\ unread'[h] = unread[h]
                /\ lagged'[h] = lagged[h] /\ hand'[h] = hand[h] /\ lost'[h] = lost[h]
                /\ toGuest'[h] = toGuest[h] /\ daemon'[h] = daemon[h]
                /\ cache'[h] = cache[h] /\ dns'[h] = dns[h]
<1> USE TypeParts DEF LinkTypes, DaemonTypes, server, registryVars, bounds, channel, guestSide
<1>1. CASE ServerTasks(g)
  BY <1>1 DEF ServerTasks, HandleListen, HandleShadowGetList, SendAnswer, NextRequest
<1>2. CASE ForwarderTask(g)
  BY <1>2 DEF ForwarderTask, TakeNotification, SendNotification, EndForwarder
<1>3. ASSUME Forget({g}), MissFlush({g})
      PROVE  \A h \in Guest \ {g} :
                /\ link'[h] = link[h] /\ toServer'[h] = toServer[h] /\ answer'[h] = answer[h]
                /\ listening'[h] = listening[h] /\ unread'[h] = unread[h]
                /\ lagged'[h] = lagged[h] /\ hand'[h] = hand[h] /\ dns'[h] = dns[h]
  BY <1>3 DEF Forget, MissFlush
<1>4. CASE Connect(g) \/ UsersChanged(g) \/ Flushed(g) \/ UpdateCache(g)
  BY <1>4 DEF Connect, UsersChanged, Flushed, UpdateCache, Decode
<1>5. CASE DnsMappingsChanged(g)
  BY <1>5 DEF DnsMappingsChanged, Decode, MissFlush
<1>6. CASE NoticeBroken(g) \/ RestartDaemon(g)
  BY <1>3, <1>6 DEF NoticeBroken, RestartDaemon, Drop
<1>7. CASE LosePacket(g)
  BY <1>3, <1>7 DEF LosePacket, Drop
<1>8. CASE BreakLink(g)
  BY <1>3, <1>8 DEF BreakLink
<1> QED
  BY <1>1, <1>2, <1>4, <1>5, <1>6, <1>7, <1>8 DEF GuestStep, DaemonTask

-----------------------------------------------------------------------------
(* Listings on their way.                                                  *)

\* A packet that is no listing changes nothing.
LEMMA EndsOther ==
    ASSUME NEW w \in Seq(Packet), NEW e \in Packet, ~IsListing(e), NEW L
    PROVE  /\ EndsWith(w, L) => EndsWith(Append(w, e), L)
           /\ NoListing(w) => NoListing(Append(w, e))
<1> DEFINE a == Append(w, e)
<1>1. /\ Len(w) \in Nat /\ Len(a) = Len(w) + 1 /\ a[Len(w) + 1] = e
      /\ \A i \in 1..Len(w) : a[i] = w[i]
  BY AppendProperties
<1> HIDE DEF a
<1>2. \A j \in 1..Len(a) : j \in 1..Len(w) \/ (j = Len(w) + 1 /\ ~IsListing(a[j]))
  BY <1>1
<1>3. \A j \in 1..Len(w) : j \in 1..Len(a)
  BY <1>1
<1>4. ASSUME EndsWith(w, L) PROVE EndsWith(a, L)
  <2>1. PICK i \in 1..Len(w) :
            /\ IsListing(w[i]) /\ w[i].list \in L
            /\ \A j \in 1..Len(w) : j > i => ~IsListing(w[j])
    BY <1>4 DEF EndsWith
  <2>2. i \in 1..Len(a) /\ IsListing(a[i]) /\ a[i].list \in L
    BY <1>1, <1>3, <2>1
  <2>3. \A j \in 1..Len(a) : j > i => ~IsListing(a[j])
    BY <1>1, <1>2, <2>1
  <2> QED
    BY <2>2, <2>3 DEF EndsWith
<1>5. ASSUME NoListing(w) PROVE NoListing(a)
  BY <1>1, <1>2, <1>5 DEF NoListing
<1> QED
  BY <1>4, <1>5 DEF a

\* A listing that is sent is the last one.
LEMMA EndsListing ==
    ASSUME NEW w \in Seq(Packet), NEW e \in Packet, IsListing(e), NEW L, e.list \in L
    PROVE  EndsWith(Append(w, e), L)
<1> DEFINE a == Append(w, e)
<1>1. /\ Len(w) \in Nat /\ Len(a) = Len(w) + 1 /\ a[Len(w) + 1] = e
  BY AppendProperties
<1> HIDE DEF a
<1>2. Len(w) + 1 \in 1..Len(a) /\ \A j \in 1..Len(a) : ~(j > Len(w) + 1)
  BY <1>1
<1>3. EndsWith(a, L)
  BY <1>1, <1>2 DEF EndsWith
<1> QED
  BY <1>3 DEF a

\* A packet that is read: the last listing remains, or was read.
LEMMA EndsRead ==
    ASSUME NEW w \in Seq(Packet), w # <<>>, NEW L
    PROVE  /\ NoListing(w) => NoListing(Tail(w)) /\ ~IsListing(Head(w))
           /\ EndsWith(w, L) =>
                \/ EndsWith(Tail(w), L)
                \/ IsListing(Head(w)) /\ Head(w).list \in L /\ NoListing(Tail(w))
<1> DEFINE t == Tail(w)
<1>1. /\ Len(w) \in Nat \ {0} /\ Head(w) = w[1] /\ Len(t) = Len(w) - 1
      /\ \A i \in 1..Len(w) - 1 : t[i] = w[i + 1]
  BY TailProperties
<1> HIDE DEF t
<1>2. \A i \in 1..Len(t) : i + 1 \in 1..Len(w) /\ t[i] = w[i + 1] /\ i + 1 > 1
  BY <1>1
<1>3. 1 \in 1..Len(w)
  BY <1>1
<1>4. ASSUME NoListing(w) PROVE NoListing(t) /\ ~IsListing(Head(w))
  BY <1>1, <1>2, <1>3, <1>4 DEF NoListing
<1>5. ASSUME EndsWith(w, L)
      PROVE  \/ EndsWith(t, L)
             \/ IsListing(Head(w)) /\ Head(w).list \in L /\ NoListing(t)
  <2>1. PICK i \in 1..Len(w) :
            /\ IsListing(w[i]) /\ w[i].list \in L
            /\ \A j \in 1..Len(w) : j > i => ~IsListing(w[j])
    BY <1>5 DEF EndsWith
  <2>2. CASE i = 1
    BY <1>1, <1>2, <2>1, <2>2 DEF NoListing
  <2>3. CASE i # 1
    <3>1. i - 1 \in 1..Len(t) /\ t[i - 1] = w[i]
      BY <1>1, <2>3
    <3>2. \A j \in 1..Len(t) : j > i - 1 => ~IsListing(t[j])
      BY <1>2, <2>1
    <3> QED
      BY <2>1, <3>1, <3>2 DEF EndsWith
  <2> QED
    BY <2>2, <2>3
<1> QED
  BY <1>4, <1>5 DEF t

\* What ends with one of L ends with one of any larger set.
LEMMA EndsMore ==
    ASSUME NEW w, NEW L, NEW M, L \subseteq M, EndsWith(w, L)
    PROVE  EndsWith(w, M)
BY DEF EndsWith

\* Listings that are dropped leave the others sorted.
LEMMA SortedFewer ==
    ASSUME NEW C, NEW w, NEW A, NEW u, Sorted(C, w, A, u),
           NEW C1 \in SUBSET C, NEW A1 \in SUBSET A
    PROVE  Sorted(C1, w, A1, u) /\ Sorted(C1, <<>>, A1, u)
<1>1. 1..Len(<<>>) = {}
  OBVIOUS
<1> QED
  BY <1>1 DEF Sorted

\* A packet that is read or lost.
LEMMA SortedRead ==
    ASSUME NEW C, NEW w \in Seq(Packet), w # <<>>, NEW A, NEW u, Sorted(C, w, A, u)
    PROVE  /\ Sorted(C, Tail(w), A, u)
           /\ IsListing(Head(w)) =>
                /\ Sorted({Head(w).list}, Tail(w), A, u)
                /\ \A old \in C : IsPrefix(old, Head(w).list)
<1> DEFINE t == Tail(w)
<1>1. /\ Len(w) \in Nat \ {0} /\ Head(w) = w[1] /\ Len(t) = Len(w) - 1
      /\ \A i \in 1..Len(w) - 1 : t[i] = w[i + 1]
  BY TailProperties
<1> HIDE DEF t
<1>2. \A i \in 1..Len(t) : i + 1 \in 1..Len(w) /\ t[i] = w[i + 1] /\ 1 < i + 1
  BY <1>1
<1>3. 1 \in 1..Len(w)
  BY <1>1
<1>4. \A i, j \in 1..Len(t) : i < j => i + 1 < j + 1
  BY <1>1
<1>5. Sorted(C, t, A, u)
  BY <1>2, <1>4 DEF Sorted
<1>6. ASSUME IsListing(Head(w))
      PROVE  Sorted({Head(w).list}, t, A, u) /\ \A old \in C : IsPrefix(old, Head(w).list)
  <2>1. /\ IsPrefix(w[1].list, u) /\ \A old \in C : IsPrefix(old, w[1].list)
        /\ \A new \in A : IsPrefix(w[1].list, new)
    BY <1>1, <1>3, <1>6 DEF Sorted
  <2>2. \A j \in 1..Len(t) : IsListing(t[j]) => IsPrefix(w[1].list, t[j].list)
    BY <1>1, <1>2, <1>3, <1>6 DEF Sorted
  <2> QED
    BY <1>1, <1>5, <2>1, <2>2 DEF Sorted
<1> QED
  BY <1>5, <1>6 DEF t

\* A packet that is sent: no listing, or the answer that was to be sent.
LEMMA SortedSent ==
    ASSUME NEW C, NEW w \in Seq(Packet), NEW A, NEW u, Sorted(C, w, A, u), NEW e \in Packet,
           IsListing(e) => e.list \in A
    PROVE  IF IsListing(e) THEN Sorted(C, Append(w, e), {}, u) ELSE Sorted(C, Append(w, e), A, u)
<1> DEFINE a == Append(w, e)
<1>1. /\ Len(w) \in Nat /\ Len(a) = Len(w) + 1 /\ a[Len(w) + 1] = e
      /\ \A i \in 1..Len(w) : a[i] = w[i]
  BY AppendProperties
<1> HIDE DEF a
<1>2. \A j \in 1..Len(a) : j \in 1..Len(w) \/ j = Len(w) + 1
  BY <1>1
<1>3. \A i, j \in 1..Len(a) : i < j => i \in 1..Len(w)
  BY <1>1
<1>4. CASE IsListing(e)
  <2>1. \A i \in 1..Len(a) : IsListing(a[i]) =>
            IsPrefix(a[i].list, u) /\ \A old \in C : IsPrefix(old, a[i].list)
    BY <1>1, <1>2, <1>4 DEF Sorted
  <2>2. \A i, j \in 1..Len(a) :
            i < j /\ IsListing(a[i]) /\ IsListing(a[j]) => IsPrefix(a[i].list, a[j].list)
    BY <1>1, <1>2, <1>3, <1>4 DEF Sorted
  <2>3. Sorted(C, a, {}, u)
    BY <2>1, <2>2 DEF Sorted
  <2> QED
    BY <1>4, <2>3 DEF a
<1>5. CASE ~IsListing(e)
  <2>1. \A i \in 1..Len(a) : IsListing(a[i]) => i \in 1..Len(w) /\ a[i] = w[i]
    BY <1>1, <1>2, <1>5
  <2>2. Sorted(C, a, A, u)
    BY <2>1 DEF Sorted
  <2> QED
    BY <1>5, <2>2 DEF a
<1> QED
  BY <1>4, <1>5

\* A listing of all users is the newest.
LEMMA SortedListed ==
    ASSUME NEW C, NEW w, NEW u \in Listing, Sorted(C, w, {}, u)
    PROVE  Sorted(C, w, {u}, u)
<1>1. IsPrefix(u, u)
  BY PrefixReflexive DEF Listing
<1> QED
  BY <1>1 DEF Sorted

\* A registration makes the list longer.
LEMMA SortedRegistered ==
    ASSUME NEW C \in SUBSET Listing, NEW w \in Seq(Packet), NEW A \in SUBSET Listing,
           NEW u \in Listing, NEW x \in Registry!User, Sorted(C, w, A, u)
    PROVE  Sorted(C, w, A, Append(u, x))
<1>1. \A list \in Listing : IsPrefix(list, u) => IsPrefix(list, Append(u, x))
  BY PrefixAppend DEF Listing
<1>2. ASSUME NEW i \in 1..Len(w) PROVE w[i].list \in Listing
  <2>1. w[i] \in Packet
    OBVIOUS
  <2> QED
    BY <2>1 DEF Packet
<1> QED
  BY <1>1, <1>2 DEF Sorted

-----------------------------------------------------------------------------
(* A step of one guest.                                                    *)

\* What is left of a connection that is given up.
LEMMA ForgetEffect ==
    ASSUME NEW g \in Guest, NEW G, g \in G, Forget(G)
    PROVE  /\ link'[g] # "up" /\ ~listening'[g] /\ ~lagged'[g]
           /\ toServer'[g] = <<>> /\ answer'[g] = <<>> /\ unread'[g] = <<>> /\ hand'[g] = <<>>
BY DEF Forget

\* What is left of it when the daemon gives it up.
LEMMA DropEffect ==
    ASSUME TypeOK, NEW g \in Guest, Drop(g)
    PROVE  /\ link'[g] # "up" /\ ~listening'[g] /\ answer'[g] = <<>> /\ hand'[g] = <<>>
           /\ toGuest'[g] = <<>> /\ daemon'[g] = "connect" /\ dns'[g] # "stale"
<1>1. toGuest \in [Guest -> Seq(Packet)] /\ daemon \in [Guest -> {"connect", "loop", "flush"}]
  BY TypeParts DEF DaemonTypes
<1>2. /\ link'[g] # "up" /\ ~listening'[g] /\ answer'[g] = <<>> /\ hand'[g] = <<>>
  BY ForgetEffect DEF Drop
<1>3. dns'[g] # "stale"
  BY DEF Drop, MissFlush
<1> QED
  BY <1>1, <1>2, <1>3 DEF Drop

\* The state of a connection and of its two ends fits together.
Connected(g) == Single(g) /\ Idle(g) /\ Greeting(g)

\* A step of the guest keeps this.
LEMMA ConnectedStep ==
    ASSUME TypeOK, NEW g \in Guest, Connected(g), GuestStep(g)
    PROVE  Connected(g)'
<1> USE DEF Connected, Single, Idle, Greeting
<1>1. LinkTypes /\ DaemonTypes
  BY TypeParts
<1>2. Len(<<>>) = 0 /\ \A list : Len(<<list>>) = 1
  OBVIOUS
<1>3. CASE HandleListen(g)
  <2>1. link[g] = "up" /\ listening'[g] /\ UNCHANGED <<link, answer, hand, daemon, toGuest, lagged>>
    BY <1>1, <1>3 DEF HandleListen, NextRequest, LinkTypes, guestSide
  <2> QED
    BY <2>1
<1>4. CASE HandleShadowGetList(g)
  <2>1. /\ link[g] = "up" /\ Head(toServer[g]) = "ShadowGetList" /\ answer'[g] = <<users>>
        /\ UNCHANGED <<link, listening, lagged, hand, daemon, toGuest>>
    BY <1>1, <1>4 DEF HandleShadowGetList, NextRequest, LinkTypes, guestSide, channel
  <2>2. Head(Hello) # "ShadowGetList"
    BY DEF Hello
  <2> QED
    BY <1>2, <2>1, <2>2
<1>5. CASE SendAnswer(g)
  <2>1. /\ answer[g] # <<>> /\ answer'[g] = <<>>
        /\ UNCHANGED <<link, listening, lagged, hand, daemon>>
    BY <1>1, <1>5 DEF SendAnswer, LinkTypes, guestSide, channel
  <2> QED
    BY <1>2, <2>1
<1>6. CASE TakeNotification(g)
  <2>1. /\ listening[g] /\ Len(hand'[g]) = 1
        /\ UNCHANGED <<answer, link, listening, lagged, daemon, toGuest>>
    BY <1>1, <1>2, <1>6 DEF TakeNotification, LinkTypes, guestSide, server
  <2> QED
    BY <2>1
<1>7. CASE SendNotification(g)
  <2>1. /\ hand[g] # <<>> /\ hand'[g] = <<>>
        /\ UNCHANGED <<answer, link, listening, lagged, daemon>>
    BY <1>1, <1>7 DEF SendNotification, LinkTypes, guestSide, server
  <2> QED
    BY <1>2, <2>1
<1>8. CASE EndForwarder(g)
  <2>1. /\ listening[g] /\ lagged'[g]
        /\ UNCHANGED <<answer, link, hand, daemon, toGuest>>
    BY <1>1, <1>8 DEF EndForwarder, LinkTypes, guestSide, server
  <2> QED
    BY <2>1
<1>9. CASE Connect(g)
  <2>1. /\ daemon[g] = "connect" /\ daemon'[g] = "loop" /\ toServer'[g] = Hello
        /\ UNCHANGED <<answer, hand, toGuest>>
    BY <1>1, <1>9 DEF Connect, LinkTypes, DaemonTypes, channel
  <2> QED
    BY <2>1
<1>10. ASSUME toGuest[g] # <<>>, daemon[g] # "connect", daemon'[g] # "connect",
              UNCHANGED <<answer, link, channel>>
       PROVE  Connected(g)'
  BY <1>10 DEF channel
<1>11. CASE UsersChanged(g) \/ UpdateCache(g) \/ DnsMappingsChanged(g)
  <2>1. /\ toGuest[g] # <<>> /\ daemon[g] = "loop" /\ daemon'[g] # "connect"
        /\ UNCHANGED <<answer, link, channel>>
    BY <1>1, <1>11 DEF UsersChanged, UpdateCache, DnsMappingsChanged, Decode, guestSide, server, DaemonTypes
  <2> QED
    BY <1>10, <2>1
<1>12. CASE Flushed(g)
  <2>1. /\ daemon'[g] = "loop" /\ UNCHANGED <<toServer, answer, link, channel, toGuest>>
    BY <1>1, <1>12 DEF Flushed, server, DaemonTypes
  <2> QED
    BY <2>1 DEF channel
<1>13. ASSUME Drop(g) PROVE Connected(g)'
  BY <1>2, <1>13, DropEffect
<1>14. CASE LosePacket(g)
  <2>1. CASE Drop(g)
    BY <1>13, <2>1
  <2>2. CASE ~Drop(g)
    BY <1>10, <1>14, <2>2 DEF LosePacket
  <2> QED
    BY <2>1, <2>2
<1>15. CASE BreakLink(g)
  <2>1. /\ link'[g] # "up" /\ ~listening'[g] /\ answer'[g] = <<>> /\ hand'[g] = <<>>
    BY <1>15, ForgetEffect DEF BreakLink
  <2>2. UNCHANGED <<toGuest, daemon>>
    BY <1>15 DEF BreakLink
  <2> QED
    BY <1>2, <2>1, <2>2
<1>16. CASE NoticeBroken(g) \/ RestartDaemon(g)
  BY <1>13, <1>16 DEF NoticeBroken, RestartDaemon
<1> QED
  BY <1>3, <1>4, <1>5, <1>6, <1>7, <1>8, <1>9, <1>11, <1>12, <1>14, <1>15, <1>16
     DEF GuestStep, ServerTasks, ForwarderTask, DaemonTask

\* A connection that is up and a resolver that is stale were so before, and what
\* was lost stays lost.
LEMMA MarksKept ==
    ASSUME TypeOK, NEW g \in Guest, GuestStep(g)
    PROVE  /\ dns'[g] = "stale" =>
                dns[g] = "stale" /\ lagged'[g] = lagged[g] /\ (lost[g] => lost'[g])
           /\ link'[g] = "up" =>
                \/ Connect(g)
                \/ link[g] = "up" /\ lagged'[g] = lagged[g] /\ (lost[g] => lost'[g])
<1>1. LinkTypes /\ DaemonTypes
  BY TypeParts
<1>2. CASE ServerTasks(g)
  BY <1>2 DEF ServerTasks, HandleListen, HandleShadowGetList, SendAnswer, channel, guestSide
<1>3. CASE ForwarderTask(g)
  BY <1>3 DEF ForwarderTask, TakeNotification, SendNotification, EndForwarder, guestSide
<1>4. CASE UsersChanged(g) \/ Flushed(g) \/ UpdateCache(g) \/ DnsMappingsChanged(g)
  <2>1. UNCHANGED <<link, lagged, lost>>
    BY <1>4 DEF UsersChanged, Flushed, UpdateCache, DnsMappingsChanged, channel, guestSide
  <2>2. dns'[g] = "stale" => dns[g] = "stale"
    BY <1>1, <1>4
       DEF UsersChanged, Flushed, UpdateCache, DnsMappingsChanged, MissFlush, guestSide, DaemonTypes
  <2> QED
    BY <2>1, <2>2
<1>5. CASE Connect(g)
  BY <1>5 DEF Connect, channel
<1>6. ASSUME Drop(g) PROVE dns'[g] # "stale" /\ link'[g] # "up"
  BY <1>6, DropEffect
<1>7. CASE LosePacket(g)
  <2>1. CASE Drop(g)
    BY <1>6, <2>1
  <2>2. CASE ~Drop(g)
    BY <1>1, <1>7, <2>2 DEF LosePacket, channel, DaemonTypes
  <2> QED
    BY <2>1, <2>2
<1>8. CASE BreakLink(g)
  <2>1. link'[g] # "up" /\ dns'[g] # "stale"
    BY <1>8, ForgetEffect DEF BreakLink, MissFlush
  <2> QED
    BY <2>1
<1>9. CASE NoticeBroken(g) \/ RestartDaemon(g)
  BY <1>6, <1>9 DEF NoticeBroken, RestartDaemon
<1> QED
  BY <1>2, <1>3, <1>4, <1>5, <1>7, <1>8, <1>9 DEF GuestStep, DaemonTask

\* A notification stays on its way to the daemon until it is read, or is lost.
LEMMA ComingStep ==
    ASSUME TypeOK, NEW g \in Guest, Single(g), NEW n \in Notification, Coming(g, n), GuestStep(g)
    PROVE  \/ Coming(g, n)' \/ lost'[g]
           \/ link'[g] # "up" /\ dns'[g] # "stale"
           \/ n = "NotifyUsersChanged" /\ UsersChanged(g)
           \/ n = "NotifyDnsMappingsChanged" /\ DnsMappingsChanged(g)
<1>1. LinkTypes /\ DaemonTypes
  BY TypeParts
<1>2. ASSUME ToSet(unread[g]) \cup ToSet(hand[g]) \subseteq ToSet(unread'[g]) \cup ToSet(hand'[g]),
             ToSet(toGuest[g]) \subseteq ToSet(toGuest'[g])
      PROVE  Coming(g, n)'
  BY <1>2 DEF Coming
<1>3. CASE HandleListen(g) \/ HandleShadowGetList(g) \/ Connect(g) \/ Flushed(g) \/ EndForwarder(g)
  BY <1>2, <1>3 DEF HandleListen, HandleShadowGetList, Connect, Flushed, EndForwarder, channel
<1>4. CASE SendAnswer(g)
  <2>1. Response(answer[g][1]) \in Packet
    BY <1>4, SentPackets, PacketTypes DEF SendAnswer
  <2>2. UNCHANGED <<unread, hand>> /\ ToSet(toGuest[g]) \subseteq ToSet(toGuest'[g])
    BY <1>4, <2>1, SendEffect DEF SendAnswer, Sent, channel
  <2> QED
    BY <1>2, <2>2
<1>5. CASE TakeNotification(g)
  <2>1. /\ unread[g] # <<>> /\ unread[g] \in Seq(Notification) /\ hand[g] = <<>>
        /\ unread'[g] = Tail(unread[g]) /\ hand'[g] = <<Head(unread[g])>>
        /\ UNCHANGED toGuest
    BY <1>1, <1>5 DEF TakeNotification, LinkTypes
  <2>2. ToSet(unread[g]) = {Head(unread[g])} \cup ToSet(unread'[g]) /\ ToSet(hand[g]) = {}
    BY <2>1, TailMembers, NoMember
  <2>3. Head(unread[g]) \in Notification
    BY <2>1, TailProperties
  <2>4. ToSet(hand'[g]) = {Head(unread[g])}
    BY <2>1, <2>3, OneMember
  <2> QED
    BY <1>2, <2>1, <2>2, <2>4
<1>6. CASE SendNotification(g)
  <2>1. /\ hand[g] # <<>> /\ hand'[g] = <<>> /\ UNCHANGED unread
        /\ hand[g] \in Seq(Notification) /\ Len(hand[g]) <= 1
        /\ toGuest' = [toGuest EXCEPT ![g] = Append(@, Event(hand[g][1]))]
    BY <1>1, <1>6 DEF SendNotification, LinkTypes, Sent, Single
  <2>2. ToSet(hand[g]) = {hand[g][1]} /\ hand[g][1] \in Notification
    BY <2>1, AtMostOneMember
  <2>3. Event(hand[g][1]) \in Packet /\ Event(hand[g][1]).kind = hand[g][1]
    BY <2>2, PacketTypes
  <2>4. ToSet(toGuest'[g]) = ToSet(toGuest[g]) \cup {Event(hand[g][1])}
    BY <2>1, <2>3, SendEffect
  <2> QED
    BY <2>1, <2>2, <2>3, <2>4 DEF Coming
<1>7. ASSUME NEW k, Decode(g, k), k # n, UNCHANGED channel PROVE Coming(g, n)'
  <2>1. /\ toGuest[g] # <<>> /\ Head(toGuest[g]).kind = k
        /\ toGuest' = [toGuest EXCEPT ![g] = Tail(@)]
        /\ UNCHANGED <<unread, hand>>
    BY <1>7 DEF Decode, Undecoded, channel
  <2>2. ToSet(toGuest[g]) = {Head(toGuest[g])} \cup ToSet(toGuest'[g])
    BY <2>1, DecodeEffect
  <2> QED
    BY <1>7, <2>1, <2>2 DEF Coming
<1>8. CASE UpdateCache(g) \/ UsersChanged(g) \/ DnsMappingsChanged(g)
  <2>1. UNCHANGED channel
    BY <1>8 DEF UpdateCache, UsersChanged, DnsMappingsChanged
  <2>2. CASE UpdateCache(g)
    BY <1>7, <2>1, <2>2 DEF UpdateCache, Notification
  <2>3. CASE UsersChanged(g)
    BY <1>7, <2>1, <2>3 DEF UsersChanged
  <2>4. CASE DnsMappingsChanged(g)
    BY <1>7, <2>1, <2>4 DEF DnsMappingsChanged
  <2> QED
    BY <1>8, <2>2, <2>3, <2>4
<1>9. ASSUME Drop(g) PROVE dns'[g] # "stale" /\ link'[g] # "up"
  BY <1>9, DropEffect
<1>10. CASE LosePacket(g)
  <2>1. CASE ~Drop(g)
    BY <1>1, <1>10, <2>1 DEF LosePacket, DaemonTypes
  <2> QED
    BY <1>9, <2>1
<1>11. CASE BreakLink(g)
  BY <1>11, ForgetEffect DEF BreakLink, MissFlush
<1>12. CASE NoticeBroken(g) \/ RestartDaemon(g)
  BY <1>9, <1>12 DEF NoticeBroken, RestartDaemon
<1> QED
  BY <1>3, <1>4, <1>5, <1>6, <1>8, <1>10, <1>11, <1>12
     DEF GuestStep, ServerTasks, ForwarderTask, DaemonTask

\* A guest that has to flush its resolver will.
LEMMA FlushingStep ==
    ASSUME TypeOK, NEW g \in Guest, Single(g), Flushing(g), GuestStep(g)
    PROVE  Flushing(g)'
<1> SUFFICES ASSUME dns'[g] = "stale", ~lagged'[g], ~lost'[g]
             PROVE  Coming(g, "NotifyDnsMappingsChanged")'
  BY DEF Flushing
<1>1. Coming(g, "NotifyDnsMappingsChanged")
  BY MarksKept DEF Flushing
<1>2. ~DnsMappingsChanged(g)
  <2>1. dns[g] = "stale"
    BY MarksKept
  <2>2. ASSUME DnsMappingsChanged(g) PROVE dns'[g] # "stale"
    BY <2>2, TypeParts DEF DnsMappingsChanged, MissFlush, DaemonTypes
  <2> QED
    BY <2>2
<1> QED
  BY <1>1, <1>2, ComingStep DEF Notification

\* A request for the users stays on its way until the server answers it.
LEMMA RequestStep ==
    ASSUME TypeOK, NEW g \in Guest, "ShadowGetList" \in ToSet(toServer[g]), GuestStep(g),
           link'[g] = "up"
    PROVE  "ShadowGetList" \in ToSet(toServer'[g]) \/ HandleShadowGetList(g)
<1>1. LinkTypes
  BY TypeParts
<1>2. ASSUME UNCHANGED toServer PROVE "ShadowGetList" \in ToSet(toServer'[g])
  BY <1>2
<1>3. CASE HandleListen(g)
  <2>1. /\ toServer[g] # <<>> /\ toServer[g] \in Seq(Request) /\ toServer'[g] = Tail(toServer[g])
        /\ Head(toServer[g]) = "ControlListenEvents"
    BY <1>1, <1>3 DEF HandleListen, NextRequest, LinkTypes
  <2>2. ToSet(toServer[g]) = {Head(toServer[g])} \cup ToSet(toServer'[g])
    BY <2>1, TailMembers
  <2> QED
    BY <2>1, <2>2
<1>4. CASE SendAnswer(g) \/ ForwarderTask(g)
  BY <1>2, <1>4 DEF SendAnswer, ForwarderTask, TakeNotification, SendNotification, EndForwarder, server
<1>5. CASE Connect(g)
  <2>1. toServer'[g] = Hello /\ Hello \in Seq(Request) /\ Hello[2] = "ShadowGetList" /\ 2 \in DOMAIN Hello
    BY <1>1, <1>5 DEF Connect, LinkTypes, Hello, Request
  <2> QED
    BY <2>1 DEF ToSet
<1>6. CASE UsersChanged(g)
  <2>1. toServer'[g] = toServer[g] \/ toServer'[g] = Append(toServer[g], "ShadowGetList")
    BY <1>1, <1>6 DEF UsersChanged, LinkTypes
  <2>2. ToSet(Append(toServer[g], "ShadowGetList")) = ToSet(toServer[g]) \cup {"ShadowGetList"}
    <3>1. \A q \in Seq(Request) :
            ToSet(Append(q, "ShadowGetList")) = ToSet(q) \cup {"ShadowGetList"}
      BY AppendMembers DEF Request
    <3> QED
      BY <1>1, <3>1 DEF LinkTypes
  <2> QED
    BY <2>1, <2>2
<1>7. CASE DnsMappingsChanged(g) \/ Flushed(g) \/ UpdateCache(g)
  BY <1>2, <1>7 DEF DnsMappingsChanged, Flushed, UpdateCache, server
<1>8. ~(Forget({g}))
  BY ForgetEffect
<1>9. CASE LosePacket(g) \/ BreakLink(g) \/ NoticeBroken(g) \/ RestartDaemon(g)
  BY <1>2, <1>8, <1>9 DEF LosePacket, BreakLink, NoticeBroken, RestartDaemon, Drop
<1> QED
  BY <1>3, <1>4, <1>5, <1>6, <1>7, <1>9 DEF GuestStep, ServerTasks, DaemonTask

\* The last listing that the daemon will read stays up to date.
LEMMA CurrentStep ==
    ASSUME TypeOK, NEW g \in Guest, Single(g), Current(g), GuestStep(g), link'[g] = "up",
           ~lost'[g], ~Connect(g), IsPrefix(announced, users)
    PROVE  Current(g)'
<1>1. /\ LinkTypes /\ DaemonTypes /\ Good' = Good /\ users \in Listing
      /\ announced' = announced /\ users' = users
  BY TypeParts, OthersKept DEF RegistryTypes, Registry!TypeOK, Listing, Good, UpToDate
<1>0. users \in Good
  BY <1>1, PrefixReflexive DEF Good, UpToDate, Listing
<1>2. ASSUME UNCHANGED <<answer, toGuest, cache>> PROVE Current(g)'
  BY <1>1, <1>2 DEF Current, Synced, UpToDate
<1>3. CASE HandleListen(g) \/ TakeNotification(g) \/ EndForwarder(g) \/ Flushed(g)
  BY <1>2, <1>3 DEF HandleListen, TakeNotification, EndForwarder, Flushed, server, guestSide
<1>4. CASE HandleShadowGetList(g)
  <2>1. answer'[g] = <<users>>
    BY <1>1, <1>4 DEF HandleShadowGetList, LinkTypes
  <2>2. answer'[g] # <<>> /\ answer'[g][1] = users
    BY <2>1
  <2> QED
    BY <1>0, <1>1, <2>2 DEF Current, Good, UpToDate
<1>5. CASE SendAnswer(g)
  <2> DEFINE p == Response(answer[g][1])
  <2>1. /\ answer[g] # <<>> /\ answer'[g] = <<>> /\ answer[g][1] \in Listing
        /\ toGuest' = [toGuest EXCEPT ![g] = Append(@, p)] /\ toGuest[g] \in Seq(Packet)
    BY <1>1, <1>5, SentPackets DEF SendAnswer, Sent, LinkTypes, DaemonTypes
  <2>2. p \in Packet /\ IsListing(p) /\ p.list = answer[g][1]
    BY <2>1, PacketTypes
  <2>3. p.list \in Good
    BY <2>1, <2>2 DEF Current, Good
  <2> HIDE DEF p
  <2>4. toGuest'[g] = Append(toGuest[g], p)
    BY <2>1, <2>2, SendEffect
  <2>5. EndsWith(Append(toGuest[g], p), Good)
    BY <1>1, <2>1, <2>2, <2>3, EndsListing
  <2>6. EndsWith(toGuest'[g], Good')
    BY <1>1, <2>4, <2>5
  <2> QED
    BY <2>1, <2>6 DEF Current
<1>6. CASE SendNotification(g)
  <2> DEFINE p == Event(hand[g][1])
  <2>1. /\ UNCHANGED <<answer, cache>> /\ hand[g][1] \in Notification
        /\ toGuest' = [toGuest EXCEPT ![g] = Append(@, p)] /\ toGuest[g] \in Seq(Packet)
    BY <1>1, <1>6, SentPackets DEF SendNotification, Sent, DaemonTypes, server, guestSide
  <2>2. p \in Packet /\ ~IsListing(p)
    BY <2>1, PacketTypes DEF IsListing, Notification
  <2> HIDE DEF p
  <2>3. toGuest'[g] = Append(toGuest[g], p)
    BY <2>1, <2>2, SendEffect
  <2>4. /\ EndsWith(toGuest[g], Good) => EndsWith(Append(toGuest[g], p), Good)
        /\ NoListing(toGuest[g]) => NoListing(Append(toGuest[g], p))
    BY <1>1, <2>1, <2>2, EndsOther
  <2>5. /\ EndsWith(toGuest[g], Good) => EndsWith(toGuest'[g], Good')
        /\ NoListing(toGuest[g]) => NoListing(toGuest'[g])
    BY <1>1, <2>3, <2>4
  <2> QED
    BY <1>1, <2>1, <2>5 DEF Current, Synced, UpToDate
<1>7. ASSUME NEW k, Decode(g, k)
      PROVE  /\ toGuest[g] \in Seq(Packet) /\ Head(toGuest[g]).kind = k
             /\ NoListing(toGuest[g]) => NoListing(toGuest'[g]) /\ ~IsListing(Head(toGuest[g]))
             /\ EndsWith(toGuest[g], Good) =>
                    \/ EndsWith(toGuest'[g], Good')
                    \/ /\ IsListing(Head(toGuest[g])) /\ NoListing(toGuest'[g])
                       /\ Head(toGuest[g]).list \in Good'
  <2>1. /\ toGuest[g] \in Seq(Packet) /\ toGuest[g] # <<>> /\ Head(toGuest[g]).kind = k
        /\ toGuest'[g] = Tail(toGuest[g])
    BY <1>1, <1>7 DEF Decode, Undecoded, DaemonTypes
  <2>2. /\ NoListing(toGuest[g]) => NoListing(Tail(toGuest[g])) /\ ~IsListing(Head(toGuest[g]))
        /\ EndsWith(toGuest[g], Good) =>
            \/ EndsWith(Tail(toGuest[g]), Good)
            \/ /\ IsListing(Head(toGuest[g])) /\ Head(toGuest[g]).list \in Good
               /\ NoListing(Tail(toGuest[g]))
    BY <1>1, <2>1, EndsRead
  <2> QED
    BY <1>1, <2>1, <2>2
<1>8. CASE UsersChanged(g) \/ DnsMappingsChanged(g)
  <2>1. /\ UNCHANGED <<answer, cache>>
        /\ Decode(g, "NotifyUsersChanged") \/ Decode(g, "NotifyDnsMappingsChanged")
    BY <1>8 DEF UsersChanged, DnsMappingsChanged, server, guestSide
  <2>2. ~IsListing(Head(toGuest[g]))
    BY <1>7, <2>1 DEF IsListing
  <2>3. /\ NoListing(toGuest[g]) => NoListing(toGuest'[g])
        /\ EndsWith(toGuest[g], Good) => EndsWith(toGuest'[g], Good')
    BY <1>7, <2>1, <2>2
  <2> QED
    BY <1>1, <2>1, <2>3 DEF Current, Synced, UpToDate
<1>9. CASE UpdateCache(g)
  <2>1. /\ UNCHANGED answer /\ Decode(g, "ShadowGetListResponse")
        /\ cache'[g] = <<Head(toGuest[g]).list>>
    BY <1>1, <1>9 DEF UpdateCache, server, DaemonTypes
  <2>2. IsListing(Head(toGuest[g]))
    BY <1>7, <2>1 DEF IsListing
  <2>3. cache'[g] # <<>> /\ cache'[g][1] = Head(toGuest[g]).list
    BY <2>1
  <2>4. ~NoListing(toGuest[g])
    BY <1>7, <2>1, <2>2
  <2>5. EndsWith(toGuest[g], Good) =>
            EndsWith(toGuest'[g], Good') \/ (NoListing(toGuest'[g]) /\ Synced(g)')
    BY <1>7, <2>1, <2>3 DEF Synced, Good, UpToDate
  <2> QED
    BY <1>1, <2>1, <2>4, <2>5 DEF Current, UpToDate
<1>10. ~(Forget({g}))
  BY ForgetEffect
<1>11. ~LosePacket(g)
  <2>1. ASSUME LosePacket(g) PROVE lost'[g]
    BY <1>1, <1>10, <2>1 DEF LosePacket, Drop, DaemonTypes
  <2> QED
    BY <2>1
<1>12. ~BreakLink(g) /\ ~NoticeBroken(g) /\ ~RestartDaemon(g)
  BY <1>10 DEF BreakLink, NoticeBroken, RestartDaemon, Drop
<1> QED
  BY <1>3, <1>4, <1>5, <1>6, <1>8, <1>9, <1>11, <1>12
     DEF GuestStep, ServerTasks, ForwarderTask, DaemonTask

\* A guest that is connected is up to date, or will be.
LEMMA InformedStep ==
    ASSUME TypeOK, NEW g \in Guest, Single(g), Informed(g), GuestStep(g), IsPrefix(announced, users)
    PROVE  Informed(g)'
<1> SUFFICES ASSUME link'[g] = "up", ~lagged'[g], ~lost'[g]
             PROVE  Pending(g)' \/ Current(g)'
  BY DEF Informed
<1>1. /\ LinkTypes /\ DaemonTypes /\ users \in Listing
      /\ announced' = announced /\ users' = users
  BY TypeParts, OthersKept DEF RegistryTypes, Registry!TypeOK, Listing
<1>2. CASE Connect(g)
  <2>1. toServer'[g] = Hello /\ Hello[2] = "ShadowGetList" /\ 2 \in DOMAIN Hello
    BY <1>1, <1>2 DEF Connect, LinkTypes, Hello
  <2> QED
    BY <2>1 DEF Pending, ToSet
<1>3. CASE ~Connect(g)
  <2>1. Pending(g) \/ Current(g)
    BY <1>3, MarksKept DEF Informed
  <2>2. CASE Current(g)
    BY <1>3, <2>2, CurrentStep
  <2>3. CASE "ShadowGetList" \in ToSet(toServer[g])
    <3>1. CASE HandleShadowGetList(g)
      <4>1. answer'[g] # <<>> /\ answer'[g][1] = users
        BY <1>1, <3>1 DEF HandleShadowGetList, LinkTypes
      <4> QED
        BY <1>1, <4>1, PrefixReflexive DEF Current, UpToDate, Listing
    <3> QED
      BY <2>3, <3>1, RequestStep DEF Pending
  <2>4. CASE Coming(g, "NotifyUsersChanged")
    <3>1. CASE UsersChanged(g)
      <4>1. toServer'[g] = Append(toServer[g], "ShadowGetList") /\ toServer[g] \in Seq(Request)
        BY <1>1, <3>1 DEF UsersChanged, LinkTypes, guestSide
      <4>2. "ShadowGetList" \in ToSet(toServer'[g])
        BY <4>1, AppendMembers DEF Request
      <4> QED
        BY <4>2 DEF Pending
    <3>2. CASE ~UsersChanged(g)
      <4>1. Coming(g, "NotifyUsersChanged")'
        BY <2>4, <3>2, ComingStep DEF Notification
      <4> QED
        BY <4>1 DEF Pending
    <3> QED
      BY <3>1, <3>2
  <2> QED
    BY <2>1, <2>2, <2>3, <2>4 DEF Pending
<1> QED
  BY <1>2, <1>3

\* The listings of a guest stay sorted, and the cache is replaced by a newer one.
LEMMA OrderedStep ==
    ASSUME TypeOK, NEW g \in Guest, Single(g), Ordered(g), GuestStep(g)
    PROVE  /\ Ordered(g)'
           /\ stops = 0 => \/ cache'[g] = <<>> \/ cache'[g] = cache[g]
                          \/ \A old \in ToSet(cache[g]) : IsPrefix(old, cache'[g][1])
<1> DEFINE C == ToSet(cache[g])
           A == ToSet(answer[g])
           Goal == /\ Sorted(ToSet(cache'[g]), toGuest'[g], ToSet(answer'[g]), users)
                   /\ \/ cache'[g] = <<>> \/ cache'[g] = cache[g]
                      \/ \A old \in ToSet(cache[g]) : IsPrefix(old, cache'[g][1])
<1>1. /\ LinkTypes /\ DaemonTypes /\ users \in Listing /\ toGuest[g] \in Seq(Packet)
      /\ users' = users /\ stops' = stops
  BY TypeParts, OthersKept DEF RegistryTypes, Registry!TypeOK, Listing, DaemonTypes
<1> SUFFICES ASSUME stops = 0 PROVE Goal
  BY <1>1 DEF Ordered
<1>2. Sorted(C, toGuest[g], A, users)
  BY DEF Ordered
<1>3. ASSUME cache'[g] \in {cache[g], <<>>}, answer'[g] \in {answer[g], <<>>},
             toGuest'[g] \in {toGuest[g], <<>>}
      PROVE  Goal
  <2>1. ToSet(cache'[g]) \in SUBSET C /\ ToSet(answer'[g]) \in SUBSET A
    BY <1>3, NoMember
  <2>2. /\ Sorted(ToSet(cache'[g]), toGuest[g], ToSet(answer'[g]), users)
        /\ Sorted(ToSet(cache'[g]), <<>>, ToSet(answer'[g]), users)
    BY <1>2, <2>1, SortedFewer
  <2> QED
    BY <1>3, <2>2
<1>4. CASE HandleListen(g) \/ TakeNotification(g) \/ EndForwarder(g) \/ Connect(g) \/ Flushed(g)
  <2>1. UNCHANGED <<cache, answer, toGuest>>
    BY <1>4 DEF HandleListen, TakeNotification, EndForwarder, Connect, Flushed, server, guestSide
  <2> QED
    BY <1>3, <2>1
<1>5. CASE HandleShadowGetList(g)
  <2>1. answer[g] = <<>> /\ answer'[g] = <<users>> /\ UNCHANGED <<cache, toGuest>>
    BY <1>1, <1>5 DEF HandleShadowGetList, NextRequest, LinkTypes, guestSide
  <2>2. A = {} /\ ToSet(answer'[g]) = {users}
    BY <1>1, <2>1, NoMember, OneMember
  <2>3. Sorted(C, toGuest[g], {users}, users)
    BY <1>1, <1>2, <2>2, SortedListed
  <2> QED
    BY <2>1, <2>2, <2>3
<1>6. CASE SendAnswer(g)
  <2> DEFINE p == Response(answer[g][1])
  <2>1. /\ answer[g] # <<>> /\ answer'[g] = <<>> /\ UNCHANGED cache
        /\ answer[g] \in Seq(Listing) /\ Len(answer[g]) <= 1
        /\ toGuest' = [toGuest EXCEPT ![g] = Append(@, p)]
    BY <1>1, <1>6 DEF SendAnswer, Sent, LinkTypes, Single, guestSide
  <2>2. A = {answer[g][1]} /\ answer[g][1] \in Listing /\ ToSet(answer'[g]) = {}
    BY <2>1, AtMostOneMember, NoMember
  <2>3. p \in Packet /\ IsListing(p) /\ p.list \in A
    BY <2>2, PacketTypes
  <2> HIDE DEF p
  <2>4. toGuest'[g] = Append(toGuest[g], p)
    BY <2>1, <2>3, SendEffect
  <2>5. Sorted(C, Append(toGuest[g], p), {}, users)
    BY <1>1, <1>2, <2>3, SortedSent
  <2> QED
    BY <2>1, <2>2, <2>4, <2>5
<1>7. CASE SendNotification(g)
  <2> DEFINE p == Event(hand[g][1])
  <2>1. /\ UNCHANGED <<answer, cache>> /\ hand[g][1] \in Notification
        /\ toGuest' = [toGuest EXCEPT ![g] = Append(@, p)]
    BY <1>1, <1>7, SentPackets DEF SendNotification, Sent, server, guestSide
  <2>2. p \in Packet /\ ~IsListing(p)
    BY <2>1, PacketTypes DEF IsListing, Notification
  <2> HIDE DEF p
  <2>3. toGuest'[g] = Append(toGuest[g], p)
    BY <2>1, <2>2, SendEffect
  <2>4. Sorted(C, Append(toGuest[g], p), A, users)
    BY <1>1, <1>2, <2>2, SortedSent
  <2> QED
    BY <2>1, <2>3, <2>4
<1>8. ASSUME toGuest[g] # <<>>, toGuest' = [toGuest EXCEPT ![g] = Tail(@)]
      PROVE  /\ Sorted(C, toGuest'[g], A, users)
             /\ IsListing(Head(toGuest[g])) =>
                    /\ Sorted({Head(toGuest[g]).list}, toGuest'[g], A, users)
                    /\ \A old \in C : IsPrefix(old, Head(toGuest[g]).list)
  <2>1. toGuest'[g] = Tail(toGuest[g])
    BY <1>8, DecodeEffect
  <2> QED
    BY <1>1, <1>2, <1>8, <2>1, SortedRead
<1>9. CASE UsersChanged(g) \/ DnsMappingsChanged(g)
  <2>1. /\ UNCHANGED <<answer, cache>> /\ toGuest[g] # <<>>
        /\ toGuest' = [toGuest EXCEPT ![g] = Tail(@)]
    BY <1>9 DEF UsersChanged, DnsMappingsChanged, Decode, Undecoded, server, guestSide
  <2> QED
    BY <1>8, <2>1
<1>10. CASE UpdateCache(g)
  <2> DEFINE list == Head(toGuest[g]).list
  <2>1. /\ UNCHANGED answer /\ toGuest[g] # <<>> /\ IsListing(Head(toGuest[g]))
        /\ toGuest' = [toGuest EXCEPT ![g] = Tail(@)] /\ cache'[g] = <<list>>
    BY <1>1, <1>10 DEF UpdateCache, Decode, Undecoded, IsListing, server, DaemonTypes
  <2>2. list \in Listing
    <3>1. Head(toGuest[g]) \in Packet
      BY <1>1, <2>1, TailProperties
    <3> QED
      BY <3>1 DEF Packet
  <2>3. /\ Sorted({list}, toGuest'[g], A, users) /\ \A old \in C : IsPrefix(old, list)
    BY <1>8, <2>1
  <2> HIDE DEF list
  <2>4. ToSet(cache'[g]) = {list} /\ cache'[g][1] = list
    BY <2>1, <2>2, OneMember
  <2> QED
    BY <2>1, <2>3, <2>4
<1>11. ASSUME Drop(g), cache'[g] \in {cache[g], <<>>} PROVE Goal
  <2>1. answer'[g] = <<>> /\ toGuest'[g] = <<>>
    BY <1>11, DropEffect
  <2> QED
    BY <1>3, <1>11, <2>1
<1>12. CASE LosePacket(g)
  <2>1. UNCHANGED cache
    BY <1>12 DEF LosePacket
  <2>2. CASE Drop(g)
    BY <1>11, <2>1, <2>2
  <2>3. CASE ~Drop(g)
    <3>1. /\ UNCHANGED answer /\ toGuest[g] # <<>>
          /\ toGuest' = [toGuest EXCEPT ![g] = Tail(@)]
      BY <1>12, <2>3 DEF LosePacket
    <3> QED
      BY <1>8, <2>1, <3>1
  <2> QED
    BY <2>2, <2>3
<1>13. CASE BreakLink(g)
  <2>1. answer'[g] = <<>> /\ UNCHANGED <<toGuest, cache>>
    BY <1>13, ForgetEffect DEF BreakLink
  <2> QED
    BY <1>3, <2>1
<1>14. CASE NoticeBroken(g)
  BY <1>11, <1>14 DEF NoticeBroken
<1>15. CASE RestartDaemon(g)
  <2>1. Drop(g) /\ cache'[g] = <<>>
    BY <1>1, <1>15 DEF RestartDaemon, DaemonTypes
  <2> QED
    BY <1>11, <2>1
<1> QED
  BY <1>4, <1>5, <1>6, <1>7, <1>9, <1>10, <1>12, <1>13, <1>14, <1>15
     DEF GuestStep, ServerTasks, ForwarderTask, DaemonTask

-----------------------------------------------------------------------------
(* A step of the registry.                                                 *)

\* Who is told of nothing keeps everything.
LEMMA InvKept ==
    ASSUME NEW h \in Guest, InvAt(h), announced' = announced, users' = users, stops' = stops,
           link'[h] = link[h], toServer'[h] = toServer[h], answer'[h] = answer[h],
           listening'[h] = listening[h], unread'[h] = unread[h],
           lagged'[h] = lagged[h], hand'[h] = hand[h], lost'[h] = lost[h],
           toGuest'[h] = toGuest[h], daemon'[h] = daemon[h],
           cache'[h] = cache[h], dns'[h] = dns[h]
    PROVE  InvAt(h)'
<1>1. Single(h)' /\ Idle(h)' /\ Greeting(h)'
  BY DEF InvAt, Single, Idle, Greeting
<1>2. \A n : Coming(h, n)' <=> Coming(h, n)
  BY DEF Coming
<1>3. Flushing(h)' /\ Ordered(h)'
  BY <1>2 DEF InvAt, Flushing, Ordered
<1>4. Current(h) => Current(h)'
  BY DEF Current, Synced, Good, UpToDate
<1>5. Informed(h)'
  BY <1>2, <1>4 DEF InvAt, Informed, Pending
<1> QED
  BY <1>1, <1>3, <1>5 DEF InvAt

\* A registration: guests that listen are told, those that do not will ask.
LEMMA RegisterStep ==
    ASSUME TypeOK, Serving, NEW h \in Guest, InvAt(h), NEW n \in Name,
           RegisterUser(n) \/ RegisterUnannounced(n)
    PROVE  InvAt(h)'
<1>1. LinkTypes /\ DaemonTypes /\ RegistryTypes
  BY TypeParts
<1>2. /\ UNCHANGED <<link, toServer, answer, hand, listening, toGuest, daemon, lost, cache, dns, stops>>
      /\ Registry!Register(n)
  BY DEF RegisterUser, RegisterUnannounced, Broadcast, channel, guestSide, bounds
<1> DEFINE x == [id |-> FirstId + Len(users), name |-> n]
<1>3. users \in Listing /\ users' = Append(users, x) /\ x \in Registry!User
  BY <1>1, <1>2, RegisteredType DEF RegistryTypes, Registry!Register, Listing
<1> HIDE DEF x
<1>4. Ordered(h)'
  <2>1. /\ ToSet(cache[h]) \in SUBSET Listing /\ ToSet(answer[h]) \in SUBSET Listing
        /\ toGuest[h] \in Seq(Packet)
    BY <1>1 DEF LinkTypes, DaemonTypes, ToSet
  <2>2. stops = 0 => Sorted(ToSet(cache[h]), toGuest[h], ToSet(answer[h]), Append(users, x))
    BY <1>3, <2>1, SortedRegistered DEF InvAt, Ordered
  <2> QED
    BY <1>2, <1>3, <2>2 DEF Ordered
<1>5. Single(h)' /\ Idle(h)'
  BY <1>2 DEF InvAt, Single, Idle
<1>6. CASE RegisterUnannounced(n)
  <2>1. UNCHANGED <<announced, unread, lagged>>
    BY <1>6 DEF RegisterUnannounced, channel
  <2>2. \A m : Coming(h, m)' <=> Coming(h, m)
    BY <1>2, <2>1 DEF Coming
  <2>3. Greeting(h)' /\ Flushing(h)'
    BY <1>2, <2>1, <2>2 DEF InvAt, Greeting, Flushing
  <2>4. \A list \in Listing : UpToDate(list) => UpToDate(list)'
    <3>1. ASSUME NEW list \in Listing, IsPrefix(list, users) PROVE IsPrefix(list, users')
      BY <1>3, <3>1, PrefixAppend DEF Listing
    <3> QED
      BY <2>1, <3>1 DEF UpToDate
  <2>6. Current(h) => Current(h)'
    <3>1. Good \subseteq Good'
      BY <2>4 DEF Good
    <3>2. EndsWith(toGuest[h], Good) => EndsWith(toGuest'[h], Good')
      BY <1>2, <3>1, EndsMore
    <3>3. /\ answer[h] # <<>> => answer[h][1] \in Listing
          /\ cache[h] # <<>> => cache[h][1] \in Listing
      BY <1>1 DEF LinkTypes, DaemonTypes
    <3>4. Synced(h) => Synced(h)'
      BY <1>2, <2>4, <3>3 DEF Synced
    <3> QED
      BY <1>2, <2>4, <3>2, <3>3, <3>4 DEF Current
  <2>5. Informed(h)'
    BY <1>2, <2>1, <2>2, <2>6 DEF InvAt, Informed, Pending
  <2> QED
    BY <1>4, <1>5, <2>3, <2>5 DEF InvAt
<1>7. CASE RegisterUser(n)
  <2>1. /\ listening[h] => "NotifyUsersChanged" \in ToSet(unread'[h])
        /\ ~listening[h] => lagged'[h] = lagged[h]
        /\ ~lagged'[h] => ~lagged[h] /\ ToSet(unread[h]) \subseteq ToSet(unread'[h])
    BY <1>7, BroadcastEffect DEF RegisterUser, Notification
  <2>2. ~lagged'[h] => \A m : Coming(h, m) => Coming(h, m)'
    BY <1>2, <2>1 DEF Coming
  <2>3. Greeting(h)' /\ Flushing(h)'
    BY <1>2, <2>1, <2>2 DEF InvAt, Greeting, Flushing
  <2>4. ASSUME listening[h] PROVE Informed(h)'
    BY <2>1, <2>4 DEF Informed, Pending, Coming
  <2>5. ASSUME ~listening[h] PROVE Informed(h)'
    <3>1. Hello[2] = "ShadowGetList" /\ 2 \in DOMAIN Hello
      BY DEF Hello
    <3> QED
      BY <1>2, <2>1, <2>5, <3>1 DEF InvAt, Greeting, Informed, Pending, ToSet
  <2>6. Informed(h)'
    BY <2>4, <2>5
  <2> QED
    BY <1>4, <1>5, <2>3, <2>6 DEF InvAt
<1> QED
  BY <1>6, <1>7

\* A mapping: guests that listen are told.
LEMMA MapStep ==
    ASSUME TypeOK, NEW h \in Guest, InvAt(h), MapHost
    PROVE  InvAt(h)'
<1>1. LinkTypes /\ DaemonTypes /\ RegistryTypes
  BY TypeParts
<1>2. /\ UNCHANGED <<link, toServer, answer, hand, listening, toGuest, daemon, lost, cache>>
      /\ UNCHANGED <<users, announced, stops>>
      /\ dns'[h] = "stale" => listening[h]
  BY DEF MapHost, Broadcast, registryVars
<1>3. /\ listening[h] => "NotifyDnsMappingsChanged" \in ToSet(unread'[h])
      /\ ~listening[h] => lagged'[h] = lagged[h]
      /\ ~lagged'[h] => ~lagged[h] /\ ToSet(unread[h]) \subseteq ToSet(unread'[h])
  BY BroadcastEffect DEF MapHost, Notification
<1>4. Single(h)' /\ Idle(h)' /\ Ordered(h)'
  BY <1>2 DEF InvAt, Single, Idle, Ordered
<1>5. Greeting(h)' /\ Flushing(h)'
  BY <1>2, <1>3 DEF InvAt, Greeting, Flushing, Coming
<1>6. Pending(h) /\ ~lagged'[h] => Pending(h)'
  BY <1>2, <1>3 DEF Pending, Coming
<1>7. Current(h) => Current(h)'
  BY <1>2 DEF Current, Synced, Good, UpToDate
<1>8. Informed(h)'
  BY <1>2, <1>3, <1>6, <1>7 DEF InvAt, Informed
<1> QED
  BY <1>4, <1>5, <1>8 DEF InvAt

\* The server stops, or starts again: it has no connections.
LEMMA RestartStep ==
    ASSUME TypeOK, Serving, NEW h \in Guest, InvAt(h), StopServer \/ StartServer
    PROVE  InvAt(h)'
<1>1. LinkTypes /\ DaemonTypes /\ RegistryTypes
  BY TypeParts
<1>2. CASE StopServer
  <2>1. /\ link'[h] # "up" /\ ~listening'[h] /\ answer'[h] = <<>> /\ hand'[h] = <<>>
    BY <1>2, ForgetEffect DEF StopServer
  <2>2. UNCHANGED <<toGuest, daemon>> /\ dns'[h] # "stale" /\ stops' # 0
    BY <1>1, <1>2 DEF StopServer, MissFlush, RegistryTypes
  <2>3. Len(<<>>) = 0
    OBVIOUS
  <2> QED
    BY <2>1, <2>2, <2>3 DEF InvAt, Single, Idle, Greeting, Informed, Flushing, Ordered
<1>3. CASE StartServer
  <2>1. /\ status = "down" /\ link[h] # "up" /\ stops # 0
    BY <1>3 DEF StartServer, Registry!Start, Serving
  <2>2. UNCHANGED <<link, listening, answer, hand, unread, lagged, toGuest, daemon, lost, dns, stops>>
    BY <1>3 DEF StartServer, channel, guestSide, bounds
  <2>3. \A n : Coming(h, n)' <=> Coming(h, n)
    BY <2>2 DEF Coming
  <2> QED
    BY <2>1, <2>2, <2>3 DEF InvAt, Single, Idle, Greeting, Informed, Flushing, Ordered
<1> QED
  BY <1>2, <1>3

\* What was announced is in the registry, which serves while it is up.
LEMMA ServingStep ==
    ASSUME TypeOK, Serving, [Next]_vars
    PROVE  Serving'
<1>1. LinkTypes /\ DaemonTypes /\ RegistryTypes /\ users \in Seq(Registry!User)
  BY TypeParts DEF RegistryTypes, Registry!TypeOK
<1>2. ASSUME NEW n \in Name, RegisterUser(n) \/ RegisterUnannounced(n) PROVE Serving'
  <2>1. /\ UNCHANGED <<link, stops>> /\ Registry!Register(n)
        /\ announced' = users' \/ announced' = announced
    BY <1>2 DEF RegisterUser, RegisterUnannounced, bounds
  <2> DEFINE x == [id |-> FirstId + Len(users), name |-> n]
  <2>2. users' = Append(users, x) /\ x \in Registry!User /\ status' = status
    BY <1>1, <2>1, RegisteredType DEF RegistryTypes, Registry!Register
  <2> HIDE DEF x
  <2>3. IsPrefix(announced', users')
    <3>1. announced \in Listing /\ users \in Listing /\ users' \in Seq(Registry!User)
      BY <1>1, <2>2, AppendProperties DEF RegistryTypes, Listing
    <3>2. IsPrefix(announced, Append(users, x)) /\ IsPrefix(users', users')
      BY <2>2, <3>1, PrefixAppend, PrefixReflexive DEF Serving, Listing
    <3> QED
      BY <2>1, <2>2, <3>2
  <2> QED
    BY <2>1, <2>2, <2>3 DEF Serving
<1>3. CASE MapHost
  BY <1>3 DEF MapHost, registryVars, Serving
<1>4. CASE StopServer
  <2>1. \A g \in Guest : link'[g] # "up"
    BY <1>4 DEF StopServer, Forget
  <2>2. stops' # 0 /\ UNCHANGED <<users, announced>>
    BY <1>1, <1>4 DEF StopServer, Registry!Stop, RegistryTypes
  <2> QED
    BY <2>1, <2>2 DEF Serving
<1>5. CASE StartServer
  <2>1. /\ status = "down" /\ UNCHANGED <<link, stops>> /\ announced' = users'
    BY <1>5 DEF StartServer, Registry!Start, bounds
  <2>2. users' \in Seq(Registry!User)
    BY <1>5, RegistryTypesStep DEF Next, RegistryTypes, Registry!TypeOK
  <2>3. IsPrefix(users', users')
    BY <2>2, PrefixReflexive
  <2> QED
    BY <2>1, <2>3 DEF Serving
<1>6. ASSUME NEW g \in Guest, GuestStep(g) PROVE Serving'
  <2>1. UNCHANGED <<status, users, announced, stops>>
    BY <1>6, OthersKept
  <2>2. \A h \in Guest \ {g} : link'[h] = link[h]
    BY <1>6, OthersKept
  <2>3. link'[g] = "up" => link[g] = "up" \/ status = "up"
    BY <1>6, MarksKept DEF Connect
  <2> QED
    BY <2>1, <2>2, <2>3 DEF Serving
<1>7. CASE UNCHANGED vars
  BY <1>7 DEF vars, server, registryVars, bounds, Serving
<1> QED
  BY <1>2, <1>3, <1>4, <1>5, <1>6, <1>7 DEF Next, GuestStep

-----------------------------------------------------------------------------
(* The theorems.                                                           *)

\* The first state.
LEMMA InitInv ==
    ASSUME Init
    PROVE  IInv
<1>1. /\ <<>> \in Seq(Registry!User) /\ <<>> \in Seq(Request) /\ <<>> \in Seq(Listing)
      /\ <<>> \in Seq(Notification) /\ <<>> \in Seq(Packet) /\ Len(<<>>) = 0
  OBVIOUS
<1>0. IsPrefix(<<>>, <<>>)
  BY <1>1, PrefixReflexive
<1>2. TypeOK
  <2>1. RegistryTypes
    BY <1>1, ParameterAssumption DEF Init, Registry!Init, RegistryTypes, Registry!TypeOK, Listing
  <2>2. LinkTypes
    BY <1>1, ParameterAssumption DEF Init, LinkTypes
  <2>3. DaemonTypes
    BY <1>1 DEF Init, DaemonTypes
  <2> QED
    BY <2>1, <2>2, <2>3, TypeParts
<1>3. Serving
  BY <1>0, <1>1 DEF Init, Registry!Init, Serving
<1>4. ASSUME NEW g \in Guest PROVE InvAt(g)
  <2>1. /\ link[g] = "none" /\ ~listening[g] /\ answer[g] = <<>> /\ hand[g] = <<>>
        /\ toGuest[g] = <<>> /\ cache[g] = <<>> /\ dns[g] = "fresh"
    BY <1>4 DEF Init
  <2>2. Single(g) /\ Idle(g) /\ Greeting(g) /\ Informed(g) /\ Flushing(g)
    BY <1>1, <2>1 DEF Single, Idle, Greeting, Informed, Flushing
  <2>3. Sorted({}, <<>>, {}, users)
    BY <1>1 DEF Sorted
  <2>4. Ordered(g)
    BY <2>1, <2>3, NoMember DEF Ordered
  <2> QED
    BY <2>2, <2>4 DEF InvAt
<1> QED
  BY <1>2, <1>3, <1>4 DEF IInv

\* Every step keeps the invariant.
LEMMA InvStep ==
    ASSUME IInv, [Next]_vars
    PROVE  IInv'
<1>1. TypeOK /\ TypeOK' /\ Serving /\ Serving' /\ \A g \in Guest : InvAt(g)
  BY TypeStep, ServingStep DEF IInv
<1>2. ASSUME NEW n \in Name, RegisterUser(n) \/ RegisterUnannounced(n)
      PROVE  \A h \in Guest : InvAt(h)'
  BY <1>1, <1>2, RegisterStep
<1>3. ASSUME MapHost PROVE \A h \in Guest : InvAt(h)'
  BY <1>1, <1>3, MapStep
<1>4. ASSUME StopServer \/ StartServer PROVE \A h \in Guest : InvAt(h)'
  BY <1>1, <1>4, RestartStep
<1>5. ASSUME NEW g \in Guest, GuestStep(g) PROVE \A h \in Guest : InvAt(h)'
  <2>1. InvAt(g) /\ IsPrefix(announced, users)
    BY <1>1 DEF Serving
  <2>2. Connected(g)'
    BY <1>1, <1>5, <2>1, ConnectedStep DEF InvAt, Connected
  <2>3. Informed(g)' /\ Flushing(g)' /\ Ordered(g)'
    BY <1>1, <1>5, <2>1, InformedStep, FlushingStep, OrderedStep DEF InvAt
  <2>4. InvAt(g)'
    BY <2>2, <2>3 DEF InvAt, Connected
  <2>5. ASSUME NEW h \in Guest \ {g} PROVE InvAt(h)'
    <3>1. InvAt(h)
      BY <1>1
    <3> QED
      BY <1>1, <1>5, <3>1, OthersKept, InvKept
  <2> QED
    BY <2>4, <2>5
<1>6. ASSUME UNCHANGED vars PROVE \A h \in Guest : InvAt(h)'
  <2>1. ASSUME NEW h \in Guest PROVE InvAt(h)'
    BY <1>1, <1>6, InvKept
       DEF vars, server, registryVars, bounds, channel, guestSide
  <2> QED
    BY <2>1
<1>7. \A h \in Guest : InvAt(h)'
  BY <1>2, <1>3, <1>4, <1>5, <1>6 DEF Next, GuestStep
<1> QED
  BY <1>1, <1>7 DEF IInv

\* The invariant on which the theorems below rest holds in every state: who has
\* to learn of something will be told, and listings arrive in the order in which
\* they were taken.
THEOREM Inductive == Spec => []IInv
<1>1. Init => IInv
  BY InitInv
<1>2. IInv /\ [Next]_vars => IInv'
  BY InvStep
<1> QED
  BY <1>1, <1>2, PTL DEF Spec

\* Every variable has its type.
THEOREM TypeCorrect == Spec => []TypeOK
<1>1. IInv => TypeOK
  BY DEF IInv
<1> QED
  BY <1>1, Inductive, PTL

\* No update of the users is lost between a listing and the notification of what
\* changed since, however many guests connect, reconnect and restart (run_daemon
\* subscribes before it asks for the list).
THEOREM UpdatesComing == Spec => []UpdateOnTheWay
<1>1. ASSUME IInv PROVE UpdateOnTheWay
  <2>1. ASSUME NEW g \in Guest, link[g] = "up", ~lagged[g], ~lost[g], ~Synced(g)
        PROVE  OnTheWay(g)
    <3>1. /\ InvAt(g) /\ answer[g] \in Seq(Listing) /\ toGuest[g] \in Seq(Packet)
      BY <1>1, TypeParts DEF IInv, LinkTypes, DaemonTypes
    <3>2. Pending(g) \/ Current(g)
      BY <2>1, <3>1 DEF InvAt, Informed
    <3>3. CASE Pending(g)
      BY <3>3 DEF Pending, OnTheWay
    <3>4. CASE Current(g) /\ answer[g] # <<>>
      <4>1. ToSet(answer[g]) = {answer[g][1]} /\ UpToDate(answer[g][1])
        BY <3>1, <3>4, AtMostOneMember DEF Current, InvAt, Single
      <4> QED
        BY <4>1 DEF OnTheWay
    <3>5. CASE Current(g) /\ answer[g] = <<>>
      <4>1. PICK i \in 1..Len(toGuest[g]) :
                IsListing(toGuest[g][i]) /\ toGuest[g][i].list \in Good
        BY <2>1, <3>5 DEF Current, EndsWith
      <4>2. toGuest[g][i] \in ToSet(toGuest[g])
        BY <3>1, <4>1 DEF ToSet
      <4> QED
        BY <4>1, <4>2 DEF OnTheWay, Good, IsListing
    <3> QED
      BY <3>2, <3>3, <3>4, <3>5
  <2> QED
    BY <2>1 DEF UpdateOnTheWay
<1> QED
  BY <1>1, Inductive, PTL

\* A guest that was connected when a mapping was made, and still is, is about to
\* flush its resolver (handle_dns_mappings_changed).
THEOREM FlushesComing == Spec => []FlushOnTheWay
<1>1. IInv => FlushOnTheWay
  BY DEF IInv, InvAt, Flushing, FlushOnTheWay
<1> QED
  BY <1>1, Inductive, PTL

\* As long as the server runs, the cache of a guest is only replaced by a listing
\* that has all users of the old one, over any number of connections.
THEOREM CacheGrows == Spec => CacheNeverGoesBack
<1> DEFINE Grows(g) == stops = 0 /\ cache[g] # <<>> /\ cache'[g] # <<>> =>
                            IsPrefix(cache[g][1], cache'[g][1])
<1>1. ASSUME IInv, [Next]_vars PROVE [\A g \in Guest : Grows(g)]_cache
  <2>1. TypeOK /\ \A g \in Guest : InvAt(g)
    BY <1>1 DEF IInv
  <2>2. ASSUME NEW g \in Guest PROVE cache[g] \in Seq(Listing)
    BY <2>1, TypeParts DEF DaemonTypes
  <2>3. ASSUME NEW g \in Guest, cache[g] # <<>>
        PROVE  cache[g][1] \in ToSet(cache[g]) /\ IsPrefix(cache[g][1], cache[g][1])
    <3>1. cache[g] \in Seq(Listing)
      BY <2>2
    <3>2. /\ Head(cache[g]) = cache[g][1] /\ cache[g][1] \in Listing
          /\ ToSet(cache[g]) = {Head(cache[g])} \cup ToSet(Tail(cache[g]))
      BY <2>3, <3>1, TailProperties, TailMembers
    <3> QED
      BY <3>2, PrefixReflexive DEF Listing
  <2>4. ASSUME NEW g \in Guest, GuestStep(g) PROVE \A h \in Guest : Grows(h)
    <3>1. Single(g) /\ Ordered(g)
      BY <2>1 DEF InvAt
    <3>2. stops = 0 => \/ cache'[g] = <<>> \/ cache'[g] = cache[g]
                      \/ \A old \in ToSet(cache[g]) : IsPrefix(old, cache'[g][1])
      BY <2>1, <2>4, <3>1, OrderedStep
    <3>3. Grows(g)
      BY <2>3, <3>2
    <3>4. ASSUME NEW h \in Guest \ {g} PROVE Grows(h)
      BY <2>1, <2>3, <2>4, OthersKept
    <3> QED
      BY <3>3, <3>4
  <2>5. ASSUME NEW n \in Name, RegisterUser(n) \/ RegisterUnannounced(n) PROVE UNCHANGED cache
    BY <2>5 DEF RegisterUser, RegisterUnannounced, guestSide
  <2>6. CASE MapHost \/ StopServer \/ StartServer
    BY <2>6 DEF MapHost, StopServer, StartServer, guestSide
  <2>7. CASE UNCHANGED vars
    BY <2>7 DEF vars, guestSide
  <2> QED
    BY <1>1, <2>4, <2>5, <2>6, <2>7 DEF Next, GuestStep
<1> QED
  BY <1>1, Inductive, PTL DEF Spec, CacheNeverGoesBack

=============================================================================
