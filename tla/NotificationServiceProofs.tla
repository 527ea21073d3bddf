--------------------- MODULE NotificationServiceProofs ---------------------
(***************************************************************************)
(* Proofs about NotificationService, for any connections, capacities and   *)
(* numbers of notifications and requests.                                  *)
(***************************************************************************)
EXTENDS NotificationService, SequenceLemmas, TLAPS

-----------------------------------------------------------------------------
(* The inductive invariant.                                                *)

Piece == [of : Packet, part : {"tag", "rest"}]

\* A task is in the queue for the mutex while it sends, and once only.
Queued(c) ==
    /\ Distinct(mutex[c])
    /\ "forwarder" \in Elements(mutex[c]) => forwarder[c] = "sending"
    /\ "handler" \in Elements(mutex[c]) => handler[c] \in {"sending", "shutdown"}

\* A packet is half written by a holder of the mutex that is sending it.
HalfWritten(c) ==
    tagged[c] => mutex[c] # <<>> /\ (Head(mutex[c]) = "handler" => handler[c] = "sending")

\* The pieces of a wire follow each other as those of whole packets.
Follows(p, q) ==
    IF p.part = "tag" THEN q = [of |-> p.of, part |-> "rest"] ELSE q.part = "tag"

AllFollow(w) == \A i \in 1..Len(w) - 1 : Follows(w[i], w[i + 1])

Whole(c) == AllFollow(wire[c])

\* The end of the wire of a connection that can be written to.
Boundary(c) ==
    LET last == wire[c][Len(wire[c])]
    IN  Writable(c) /\ wire[c] # <<>> =>
            IF tagged[c]
            THEN last = [of |-> packet[c][Head(mutex[c])], part |-> "tag"]
            ELSE last.part = "rest"

\* A connection that nobody made yet.
Fresh(c) == link[c] = "new" => wire[c] = <<>> /\ handler[c] = "none"

\* What was forwarded, with the notification that is on its way.
Out(c) ==
    IF forwarder[c] = "sending" /\ packet[c]["forwarder"] \in Notification
    THEN Append(forwarded[c], packet[c]["forwarder"])
    ELSE forwarded[c]

Accounted(c) ==
    /\ forwarder[c] = "none" => unread[c] = <<>> /\ due[c] = <<>> /\ forwarded[c] = <<>>
    /\ Subscribed(c) /\ ~lagged[c] => due[c] = Out(c) \o unread[c]
    /\ Subscribed(c) => IsPrefix(Out(c), due[c])
    /\ IsPrefix(forwarded[c], due[c])

InvAt(c) ==
    Queued(c) /\ HalfWritten(c) /\ Fresh(c) /\ Whole(c) /\ Boundary(c) /\ Accounted(c)

IInv == TypeOK /\ \A c \in Conn : InvAt(c)

-----------------------------------------------------------------------------
(* Type correctness.                                                       *)

\* What a step of connection c is.
Step(c) ==
    \/ Listen(c) \/ Respond(c) \/ HandlerEnds(c) \/ Answer(c) \/ Forwarder(c)
    \/ Connect(c) \/ PeerReads(c) \/ PeerLeaves(c)

\* The channel holds at most Capacity notifications for a receiver.
LEMMA PushedProperties ==
    ASSUME NEW q \in Seq(Notification), Len(q) <= Capacity, NEW n \in Notification
    PROVE  Pushed(q, n) \in Seq(Notification) /\ Len(Pushed(q, n)) <= Capacity
<1>1. CASE Len(q) < Capacity
  BY <1>1, CapacityAssumption, AppendProperties DEF Pushed
<1>2. CASE ~(Len(q) < Capacity)
  <2>1. q # <<>> /\ Len(q) = Capacity /\ Len(q) \in Nat
    BY <1>2, CapacityAssumption
  <2>2. Tail(q) \in Seq(Notification) /\ Len(Tail(q)) = Capacity - 1
    BY <2>1, TailProperties
  <2>3. Pushed(q, n) = Append(Tail(q), n)
    BY <1>2 DEF Pushed
  <2> QED
    BY <2>2, <2>3, CapacityAssumption, AppendProperties
<1> QED
  BY <1>1, <1>2

\* The counters and the channel.
Counted ==
    /\ sent \in 0..MaxSent
    /\ unread \in [Conn -> Seq(Notification)]
    /\ \A c \in Conn : Len(unread[c]) <= Capacity
    /\ lagged \in [Conn -> BOOLEAN]
    /\ requests \in [Conn -> 0..MaxRequests]
    /\ due \in [Conn -> Seq(Notification)]
    /\ forwarded \in [Conn -> Seq(Notification)]

\* The tasks and the connection.
Located ==
    /\ handler \in [Conn -> {"none", "recv", "sending", "shutdown", "closed"}]
    /\ forwarder \in [Conn -> {"none", "select", "sending", "ended"}]
    /\ packet \in [Conn -> [Sender -> Packet]]
    /\ mutex \in [Conn -> Seq(Sender)]
    /\ tagged \in [Conn -> BOOLEAN]
    /\ wire \in [Conn -> Seq(Piece)]
    /\ link \in [Conn -> {"new", "open", "gone"}]

\* They are the type invariant.
LEMMA TypeParts == TypeOK <=> Counted /\ Located
BY DEF TypeOK, Counted, Located, Piece

\* Every step keeps counters and channel in their bounds.
LEMMA CountedStep ==
    ASSUME TypeOK, [Next]_vars
    PROVE  Counted'
<1> USE DEF Counted
<1>1. Counted /\ Located
  BY TypeParts
<1>2. ASSUME NEW n \in Notification, Notify(n) PROVE Counted'
  <2>1. sent' \in 0..MaxSent /\ UNCHANGED <<requests, forwarded>>
    BY <1>1, <1>2, BoundAssumption DEF Notify
  <2>2. /\ unread' \in [Conn -> Seq(Notification)]
        /\ \A c \in Conn : Len(unread'[c]) <= Capacity
    BY <1>1, <1>2, PushedProperties DEF Notify
  <2>3. due' \in [Conn -> Seq(Notification)]
    BY <1>1, <1>2, AppendProperties DEF Notify
  <2>4. lagged' \in [Conn -> BOOLEAN]
    BY <1>1, <1>2 DEF Notify
  <2> QED
    BY <1>1, <2>1, <2>2, <2>3, <2>4
<1>3. ASSUME NEW c \in Conn, Listen(c) \/ Respond(c) PROVE Counted'
  <2>1. requests' = [requests EXCEPT ![c] = requests[c] + 1] /\ requests[c] < MaxRequests
        /\ UNCHANGED <<channelVars, due, forwarded>>
    BY <1>3 DEF Listen, Respond
  <2>2. requests' \in [Conn -> 0..MaxRequests]
    BY <1>1, <2>1, BoundAssumption
  <2> QED
    BY <1>1, <2>1, <2>2 DEF channelVars
<1>4. ASSUME NEW c \in Conn, TakeNotification(c) PROVE Counted'
  <2>1. /\ unread[c] # <<>> /\ unread' = [unread EXCEPT ![c] = Tail(unread[c])]
        /\ UNCHANGED <<sent, lagged, counts>>
    BY <1>4 DEF TakeNotification
  <2>2. Tail(unread[c]) \in Seq(Notification) /\ Len(Tail(unread[c])) <= Capacity
    BY <1>1, <2>1, CapacityAssumption, TailProperties
  <2> QED
    BY <1>1, <2>1, <2>2 DEF counts
<1>5. ASSUME NEW c \in Conn, ForwarderRest(c) PROVE Counted'
  <2>1. /\ forwarded' = [forwarded EXCEPT ![c] = IF packet[c]["forwarder"] \in Notification
                            THEN Append(forwarded[c], packet[c]["forwarder"]) ELSE forwarded[c]]
        /\ UNCHANGED <<channelVars, requests, due>>
    BY <1>5 DEF ForwarderRest
  <2>2. packet[c]["forwarder"] \in Notification =>
            Append(forwarded[c], packet[c]["forwarder"]) \in Seq(Notification)
    BY <1>1, AppendProperties
  <2>3. forwarded' \in [Conn -> Seq(Notification)]
    BY <1>1, <2>1, <2>2
  <2> QED
    BY <1>1, <2>1, <2>3 DEF channelVars
<1>6. ASSUME UNCHANGED <<channelVars, counts>> PROVE Counted'
  BY <1>1, <1>6 DEF channelVars, counts
<1>7. ASSUME NEW c \in Conn, Step(c) PROVE Counted'
  BY <1>3, <1>4, <1>5, <1>6, <1>7
     DEF Step, HandlerEnds, Answer, HandlerTag, HandlerRest, HandlerFails, Shutdown, Forwarder,
         TakeLagged, TakePing, ForwarderTag, ForwarderFails, Connect, PeerReads, PeerLeaves
<1>8. CASE UNCHANGED vars
  BY <1>6, <1>8 DEF vars
<1> QED
  BY <1>2, <1>7, <1>8 DEF Next, Step

\* A packet that is queued is one that was there to send.
LEMMA StartSendProperties ==
    ASSUME TypeOK, NEW c \in Conn, NEW s \in Sender, NEW p \in Packet, StartSend(c, s, p)
    PROVE  /\ packet' = [packet EXCEPT ![c][s] = p] /\ packet' \in [Conn -> [Sender -> Packet]]
           /\ mutex' = [mutex EXCEPT ![c] = Append(mutex[c], s)]
           /\ mutex' \in [Conn -> Seq(Sender)]
<1>1. packet \in [Conn -> [Sender -> Packet]] /\ mutex \in [Conn -> Seq(Sender)]
  BY TypeParts DEF Located
<1>2. Append(mutex[c], s) \in Seq(Sender)
  BY <1>1, AppendProperties
<1>3. /\ packet' = [packet EXCEPT ![c][s] = p]
      /\ mutex' = [mutex EXCEPT ![c] = Append(mutex[c], s)]
  BY DEF StartSend
<1> QED
  BY <1>1, <1>2, <1>3

\* What giving the mutex back does.
LEMMA ReleaseProperties ==
    ASSUME TypeOK, NEW c \in Conn, NEW s, HoldsTx(c, s), ReleaseTx(c)
    PROVE  /\ mutex' = [mutex EXCEPT ![c] = Tail(mutex[c])] /\ mutex' \in [Conn -> Seq(Sender)]
           /\ tagged' = [tagged EXCEPT ![c] = FALSE] /\ tagged' \in [Conn -> BOOLEAN]
<1>1. mutex \in [Conn -> Seq(Sender)] /\ tagged \in [Conn -> BOOLEAN] /\ mutex[c] # <<>>
  BY TypeParts DEF Located, HoldsTx
<1>2. Tail(mutex[c]) \in Seq(Sender)
  BY <1>1, TailProperties
<1> QED
  BY <1>1, <1>2 DEF ReleaseTx

\* What a write does to the wire.
LEMMA WriteProperties ==
    ASSUME TypeOK, NEW c \in Conn, NEW s \in Sender, NEW part \in {"tag", "rest"},
           wire' = [wire EXCEPT ![c] = Append(@, [of |-> packet[c][s], part |-> part])]
    PROVE  /\ [of |-> packet[c][s], part |-> part] \in Piece
           /\ wire' \in [Conn -> Seq(Piece)]
<1>1. wire \in [Conn -> Seq(Piece)] /\ packet[c][s] \in Packet
  BY TypeParts DEF Located
<1>2. [of |-> packet[c][s], part |-> part] \in Piece
  BY <1>1 DEF Piece
<1>3. Append(wire[c], [of |-> packet[c][s], part |-> part]) \in Seq(Piece)
  BY <1>1, <1>2, AppendProperties
<1> QED
  BY <1>1, <1>2, <1>3

\* Every step keeps the types of the tasks and of the connection.
LEMMA LocatedStep ==
    ASSUME TypeOK, [Next]_vars
    PROVE  Located'
<1> USE DEF Located
<1>1. Counted /\ Located
  BY TypeParts
<1>2. ASSUME UNCHANGED <<handler, forwarder, tx, wire, link>> PROVE Located'
  BY <1>1, <1>2 DEF tx
<1>3. ASSUME NEW c \in Conn, Listen(c) PROVE Located'
  BY <1>1, <1>3 DEF Listen, tx
<1>4. ASSUME NEW c \in Conn, Respond(c) PROVE Located'
  <2>1. /\ handler' = [handler EXCEPT ![c] = "sending"] /\ UNCHANGED <<forwarder, tagged, wire, link>>
        /\ StartSend(c, "handler", "Response")
    BY <1>4 DEF Respond
  <2>2. packet' \in [Conn -> [Sender -> Packet]] /\ mutex' \in [Conn -> Seq(Sender)]
    BY <2>1, StartSendProperties DEF Sender, Packet
  <2> QED
    BY <1>1, <2>1, <2>2
<1>5. ASSUME NEW c \in Conn, HandlerEnds(c) PROVE Located'
  <2>1. Append(mutex[c], "handler") \in Seq(Sender)
    BY <1>1, AppendProperties DEF Sender
  <2> QED
    BY <1>1, <1>5, <2>1 DEF HandlerEnds
<1>6. ASSUME NEW c \in Conn, NEW s \in Sender, WriteTag(c, s),
             UNCHANGED <<handler, forwarder, packet, mutex, link>>
      PROVE  Located'
  <2>1. wire' \in [Conn -> Seq(Piece)]
    BY <1>6, WriteProperties DEF WriteTag
  <2> QED
    BY <1>1, <1>6, <2>1 DEF WriteTag
<1>7. ASSUME NEW c \in Conn, NEW s \in Sender, WriteRest(c, s)
      PROVE  /\ wire' \in [Conn -> Seq(Piece)] /\ mutex' \in [Conn -> Seq(Sender)]
             /\ tagged' \in [Conn -> BOOLEAN]
  BY <1>7, WriteProperties, ReleaseProperties DEF WriteRest
<1>8. ASSUME NEW c \in Conn, Answer(c) PROVE Located'
  <2>1. CASE HandlerTag(c)
    BY <1>6, <2>1 DEF HandlerTag, Sender
  <2>2. CASE HandlerRest(c)
    <3>1. /\ wire' \in [Conn -> Seq(Piece)] /\ mutex' \in [Conn -> Seq(Sender)]
          /\ tagged' \in [Conn -> BOOLEAN]
      BY <1>7, <2>2 DEF HandlerRest, Sender
    <3> QED
      BY <1>1, <2>2, <3>1 DEF HandlerRest
  <2>3. CASE HandlerFails(c)
    <3>1. mutex[c] # <<>>
      BY <2>3 DEF HandlerFails, HoldsTx
    <3>2. Append(Tail(mutex[c]), "handler") \in Seq(Sender)
      BY <1>1, <3>1, TailProperties, AppendProperties DEF Sender
    <3> QED
      BY <1>1, <2>3, <3>2 DEF HandlerFails
  <2>4. CASE Shutdown(c)
    <3>1. mutex' \in [Conn -> Seq(Sender)] /\ tagged' \in [Conn -> BOOLEAN]
      BY <2>4, ReleaseProperties DEF Shutdown
    <3> QED
      BY <1>1, <2>4, <3>1 DEF Shutdown
  <2> QED
    BY <1>8, <2>1, <2>2, <2>3, <2>4 DEF Answer
<1>9. ASSUME NEW c \in Conn, Forwarder(c) PROVE Located'
  <2>1. CASE TakeNotification(c)
    <3>1. Head(unread[c]) \in Packet /\ StartSend(c, "forwarder", Head(unread[c]))
      BY <1>1, <2>1, TailProperties DEF TakeNotification, Counted, Packet
    <3>2. packet' \in [Conn -> [Sender -> Packet]] /\ mutex' \in [Conn -> Seq(Sender)]
      BY <3>1, StartSendProperties DEF Sender
    <3> QED
      BY <1>1, <2>1, <3>2 DEF TakeNotification
  <2>2. CASE TakeLagged(c)
    BY <1>1, <2>2 DEF TakeLagged, tx
  <2>3. CASE TakePing(c)
    <3>1. packet' \in [Conn -> [Sender -> Packet]] /\ mutex' \in [Conn -> Seq(Sender)]
      BY <2>3, StartSendProperties DEF TakePing, Sender, Packet
    <3> QED
      BY <1>1, <2>3, <3>1 DEF TakePing
  <2>4. CASE ForwarderTag(c)
    BY <1>6, <2>4 DEF ForwarderTag, Sender
  <2>5. CASE ForwarderRest(c)
    <3>1. /\ wire' \in [Conn -> Seq(Piece)] /\ mutex' \in [Conn -> Seq(Sender)]
          /\ tagged' \in [Conn -> BOOLEAN]
      BY <1>7, <2>5 DEF ForwarderRest, Sender
    <3> QED
      BY <1>1, <2>5, <3>1 DEF ForwarderRest
  <2>6. CASE ForwarderFails(c)
    <3>1. mutex' \in [Conn -> Seq(Sender)] /\ tagged' \in [Conn -> BOOLEAN]
      BY <2>6, ReleaseProperties DEF ForwarderFails, WriteFails
    <3> QED
      BY <1>1, <2>6, <3>1 DEF ForwarderFails
  <2> QED
    BY <1>9, <2>1, <2>2, <2>3, <2>4, <2>5, <2>6 DEF Forwarder
<1>10. ASSUME NEW c \in Conn, Connect(c) \/ PeerLeaves(c) PROVE Located'
  BY <1>1, <1>10 DEF Connect, PeerLeaves, tx
<1>11. ASSUME NEW c \in Conn, PeerReads(c) PROVE Located'
  <2>1. Tail(wire[c]) \in Seq(Piece)
    BY <1>1, <1>11, TailProperties DEF PeerReads
  <2> QED
    BY <1>1, <1>11, <2>1 DEF PeerReads, tx
<1>12. ASSUME NEW n \in Notification, Notify(n) PROVE Located'
  BY <1>2, <1>12 DEF Notify
<1>13. CASE UNCHANGED vars
  BY <1>2, <1>13 DEF vars
<1> QED
  BY <1>3, <1>4, <1>5, <1>8, <1>9, <1>10, <1>11, <1>12, <1>13 DEF Next

\* The type invariant is kept.
LEMMA TypeStep ==
    ASSUME TypeOK, [Next]_vars
    PROVE  TypeOK'
<1>1. Counted' /\ Located'
  BY CountedStep, LocatedStep
<1> QED
  BY <1>1, TypeParts, PTL

\* A step of one connection leaves the others alone.
LEMMA OthersKept ==
    ASSUME TypeOK, NEW c \in Conn, Step(c), NEW d \in Conn \ {c}
    PROVE  /\ unread'[d] = unread[d] /\ lagged'[d] = lagged[d]
           /\ handler'[d] = handler[d] /\ forwarder'[d] = forwarder[d]
           /\ packet'[d] = packet[d] /\ mutex'[d] = mutex[d] /\ tagged'[d] = tagged[d]
           /\ wire'[d] = wire[d] /\ link'[d] = link[d]
           /\ due'[d] = due[d] /\ forwarded'[d] = forwarded[d]
<1> USE DEF TypeOK, channelVars, tx, counts, StartSend, ReleaseTx
<1>1. CASE Listen(c) \/ Respond(c) \/ HandlerEnds(c)
  BY <1>1 DEF Listen, Respond, HandlerEnds
<1>2. CASE HandlerTag(c) \/ HandlerRest(c)
  BY <1>2 DEF HandlerTag, HandlerRest, WriteTag, WriteRest
<1>3. CASE HandlerFails(c) \/ Shutdown(c)
  BY <1>3 DEF HandlerFails, Shutdown
<1>4. CASE TakeNotification(c) \/ TakeLagged(c) \/ TakePing(c)
  BY <1>4 DEF TakeNotification, TakeLagged, TakePing
<1>5. CASE ForwarderTag(c) \/ ForwarderRest(c)
  BY <1>5 DEF ForwarderTag, ForwarderRest, WriteTag, WriteRest
<1>6. CASE ForwarderFails(c)
  BY <1>6 DEF ForwarderFails, WriteFails
<1>7. CASE Connect(c) \/ PeerReads(c) \/ PeerLeaves(c)
  BY <1>7 DEF Connect, PeerReads, PeerLeaves
<1> QED
  BY <1>1, <1>2, <1>3, <1>4, <1>5, <1>6, <1>7 DEF Step, Answer, Forwarder

-----------------------------------------------------------------------------
(* The queue for the mutex.                                                *)

\* The queue holds the tasks that send, each once.
LEMMA QueuedStep ==
    ASSUME TypeOK, NEW c \in Conn, Queued(c), HalfWritten(c), Fresh(c), Step(c)
    PROVE  Queued(c)'
<1> USE DEF Queued
<1>1. /\ handler = [d \in Conn |-> handler[d]] /\ forwarder = [d \in Conn |-> forwarder[d]]
      /\ mutex = [d \in Conn |-> mutex[d]] /\ mutex[c] \in Seq(Sender)
      /\ "handler" \in Sender /\ "forwarder" \in Sender /\ "handler" # "forwarder"
  BY DEF TypeOK, Sender
<1>2. ASSUME UNCHANGED mutex, forwarder'[c] = forwarder[c] \/ forwarder[c] # "sending",
             handler'[c] = handler[c] \/ handler[c] \notin {"sending", "shutdown"}
      PROVE  Queued(c)'
  BY <1>2
<1>3. ASSUME NEW s \in Sender, mutex'[c] = Append(mutex[c], s), s \notin Elements(mutex[c]),
             forwarder'[c] = IF s = "forwarder" THEN "sending" ELSE forwarder[c],
             s = "forwarder" => handler'[c] = handler[c],
             s = "handler" => handler'[c] \in {"sending", "shutdown"}
      PROVE  Queued(c)'
  <2>1. Distinct(mutex'[c]) /\ Elements(mutex'[c]) = Elements(mutex[c]) \cup {s}
    BY <1>1, <1>3, AppendQueue
  <2> QED
    BY <1>1, <1>3, <2>1 DEF Sender
<1>4. ASSUME NEW s \in Sender, HoldsTx(c, s), mutex'[c] = Tail(mutex[c]),
             s = "forwarder" => handler'[c] = handler[c],
             s = "handler" => forwarder'[c] = forwarder[c]
      PROVE  Queued(c)'
  <2>1. /\ Distinct(mutex'[c]) /\ s \in Elements(mutex[c])
        /\ Elements(mutex'[c]) = Elements(mutex[c]) \ {s}
    BY <1>1, <1>4, TailQueue DEF HoldsTx
  <2> QED
    BY <1>1, <1>4, <2>1 DEF Sender
<1>5. CASE Respond(c)
  <2>1. /\ mutex' = [mutex EXCEPT ![c] = Append(mutex[c], "handler")] /\ handler[c] = "recv"
        /\ handler' = [handler EXCEPT ![c] = "sending"] /\ UNCHANGED forwarder
    BY <1>5 DEF Respond, StartSend
  <2> QED
    BY <1>1, <1>3, <2>1
<1>6. CASE HandlerEnds(c)
  <2>1. /\ mutex' = [mutex EXCEPT ![c] = Append(mutex[c], "handler")] /\ handler[c] = "recv"
        /\ handler' = [handler EXCEPT ![c] = "shutdown"] /\ UNCHANGED forwarder
    BY <1>6 DEF HandlerEnds
  <2> QED
    BY <1>1, <1>3, <2>1
<1>7. CASE TakeNotification(c) \/ TakePing(c)
  <2>1. /\ mutex' = [mutex EXCEPT ![c] = Append(mutex[c], "forwarder")] /\ forwarder[c] = "select"
        /\ forwarder' = [forwarder EXCEPT ![c] = "sending"] /\ UNCHANGED handler
    BY <1>7 DEF TakeNotification, TakePing, StartSend
  <2> QED
    BY <1>1, <1>3, <2>1
<1>8. CASE HandlerRest(c) \/ Shutdown(c)
  <2>1. HoldsTx(c, "handler") /\ UNCHANGED forwarder /\ mutex' = [mutex EXCEPT ![c] = Tail(mutex[c])]
    BY <1>8 DEF HandlerRest, Shutdown, WriteRest, ReleaseTx
  <2> QED
    BY <1>1, <1>4, <2>1
<1>9. CASE ForwarderRest(c) \/ ForwarderFails(c)
  <2>1. HoldsTx(c, "forwarder") /\ UNCHANGED handler /\ mutex' = [mutex EXCEPT ![c] = Tail(mutex[c])]
    BY <1>9 DEF ForwarderRest, ForwarderFails, WriteRest, WriteFails, ReleaseTx
  <2> QED
    BY <1>1, <1>4, <2>1
<1>10. CASE HandlerFails(c)
  <2> DEFINE t == Tail(mutex[c])
  <2>1. /\ mutex[c] # <<>> /\ Head(mutex[c]) = "handler" /\ UNCHANGED forwarder
        /\ mutex'[c] = Append(t, "handler") /\ handler'[c] = "shutdown"
    BY <1>1, <1>10 DEF HandlerFails, HoldsTx
  <2>2. /\ t \in Seq(Sender) /\ Distinct(t) /\ Elements(t) = Elements(mutex[c]) \ {"handler"}
    BY <1>1, <2>1, TailQueue, TailProperties
  <2> HIDE DEF t
  <2>3. /\ Distinct(mutex'[c]) /\ Elements(mutex'[c]) = Elements(t) \cup {"handler"}
    BY <1>1, <2>1, <2>2, AppendQueue
  <2> QED
    BY <1>1, <2>1, <2>2, <2>3
<1>11. CASE Listen(c) \/ TakeLagged(c) \/ ForwarderTag(c) \/ HandlerTag(c)
  BY <1>1, <1>2, <1>11 DEF Listen, TakeLagged, ForwarderTag, HandlerTag, tx
<1>12. CASE Connect(c)
  BY <1>1, <1>2, <1>12 DEF Connect, Fresh, tx
<1>13. CASE PeerReads(c) \/ PeerLeaves(c)
  BY <1>1, <1>2, <1>13 DEF PeerReads, PeerLeaves, tx
<1> QED
  BY <1>5, <1>6, <1>7, <1>8, <1>9, <1>10, <1>11, <1>12, <1>13 DEF Step, Answer, Forwarder

\* A packet stays half written only while its task holds the mutex and sends.
LEMMA HalfWrittenStep ==
    ASSUME TypeOK, NEW c \in Conn, HalfWritten(c), Fresh(c), Step(c)
    PROVE  HalfWritten(c)'
<1> USE DEF HalfWritten
<1>1. /\ handler = [d \in Conn |-> handler[d]] /\ mutex = [d \in Conn |-> mutex[d]]
      /\ tagged = [d \in Conn |-> tagged[d]] /\ mutex[c] \in Seq(Sender)
      /\ "handler" \in Sender /\ "forwarder" \in Sender /\ "handler" # "forwarder"
  BY DEF TypeOK, Sender
<1>2. ASSUME NEW s \in Sender, mutex' = [mutex EXCEPT ![c] = Append(mutex[c], s)], UNCHANGED tagged,
             handler'[c] = handler[c] \/ handler[c] = "recv"
      PROVE  HalfWritten(c)'
  <2>1. mutex[c] # <<>> => mutex'[c] # <<>> /\ Head(mutex'[c]) = Head(mutex[c])
    BY <1>1, <1>2, AppendHead, AppendProperties
  <2> QED
    BY <1>2, <2>1
<1>3. ASSUME tagged' = [tagged EXCEPT ![c] = FALSE] PROVE HalfWritten(c)'
  BY <1>1, <1>3
<1>4. CASE Respond(c)
  BY <1>1, <1>2, <1>4 DEF Respond, StartSend
<1>5. CASE HandlerEnds(c)
  BY <1>1, <1>2, <1>5 DEF HandlerEnds
<1>6. CASE TakeNotification(c) \/ TakePing(c)
  BY <1>1, <1>2, <1>6 DEF TakeNotification, TakePing, StartSend
<1>7. CASE HandlerRest(c) \/ Shutdown(c) \/ HandlerFails(c) \/ ForwarderRest(c) \/ ForwarderFails(c)
  BY <1>3, <1>7
     DEF HandlerRest, Shutdown, HandlerFails, ForwarderRest, ForwarderFails, WriteRest, WriteFails, ReleaseTx
<1>8. CASE HandlerTag(c) \/ ForwarderTag(c)
  BY <1>1, <1>8 DEF HandlerTag, ForwarderTag, WriteTag, HoldsTx
<1>9. CASE Connect(c)
  BY <1>1, <1>9 DEF Connect, Fresh, tx
<1>10. CASE Listen(c) \/ TakeLagged(c) \/ PeerReads(c) \/ PeerLeaves(c)
  BY <1>10 DEF Listen, TakeLagged, PeerReads, PeerLeaves, tx
<1> QED
  BY <1>4, <1>5, <1>6, <1>7, <1>8, <1>9, <1>10 DEF Step, Answer, Forwarder

\* Nothing happens on a connection that nobody made.
LEMMA FreshStep ==
    ASSUME TypeOK, NEW c \in Conn, HalfWritten(c), Fresh(c), Queued(c), Step(c)
    PROVE  Fresh(c)'
<1> USE DEF Fresh
<1>1. /\ link = [d \in Conn |-> link[d]] /\ mutex[c] \in Seq(Sender)
  BY DEF TypeOK
<1>2. CASE Listen(c) \/ Respond(c) \/ HandlerEnds(c)
  BY <1>2 DEF Listen, Respond, HandlerEnds
<1>3. CASE HandlerTag(c) \/ HandlerRest(c) \/ ForwarderTag(c) \/ ForwarderRest(c)
  BY <1>3 DEF HandlerTag, HandlerRest, ForwarderTag, ForwarderRest, WriteTag, WriteRest, Writable
<1>4. CASE HandlerFails(c)
  BY <1>4 DEF HandlerFails
<1>5. CASE Shutdown(c)
  BY <1>5 DEF Shutdown
<1>6. CASE TakeNotification(c) \/ TakeLagged(c) \/ TakePing(c) \/ ForwarderFails(c)
  BY <1>6 DEF TakeNotification, TakeLagged, TakePing, ForwarderFails
<1>7. CASE Connect(c) \/ PeerLeaves(c)
  BY <1>1, <1>7 DEF Connect, PeerLeaves
<1>8. CASE PeerReads(c)
  BY <1>8 DEF PeerReads
<1> QED
  BY <1>2, <1>3, <1>4, <1>5, <1>6, <1>7, <1>8 DEF Step, Answer, Forwarder

-----------------------------------------------------------------------------
(* The wire.                                                               *)

\* A piece that follows the last one leaves packets whole.
LEMMA FollowAppend ==
    ASSUME NEW w \in Seq(Piece), NEW e \in Piece, AllFollow(w),
           w # <<>> => Follows(w[Len(w)], e)
    PROVE  AllFollow(Append(w, e))
<1> DEFINE a == Append(w, e)
<1>1. /\ Len(w) \in Nat /\ Len(a) = Len(w) + 1 /\ a[Len(w) + 1] = e
      /\ \A i \in 1..Len(w) : a[i] = w[i]
  BY AppendProperties
<1>2. Len(w) = 0 => w = <<>>
  OBVIOUS
<1> HIDE DEF a
<1>3. ASSUME NEW i \in 1..Len(a) - 1 PROVE Follows(a[i], a[i + 1])
  <2>1. CASE i = Len(w)
    <3>1. w # <<>> /\ i \in 1..Len(w)
      BY <1>1, <2>1
    <3> QED
      BY <1>1, <2>1, <3>1
  <2>2. CASE i # Len(w)
    <3>1. i \in 1..Len(w) - 1 /\ i \in 1..Len(w) /\ i + 1 \in 1..Len(w)
      BY <1>1, <2>2
    <3> QED
      BY <1>1, <3>1 DEF AllFollow
  <2> QED
    BY <2>1, <2>2
<1> QED
  BY <1>3 DEF AllFollow, a

\* What is left after a read is whole, and ends as before.
LEMMA FollowTail ==
    ASSUME NEW w \in Seq(Piece), w # <<>>, AllFollow(w)
    PROVE  AllFollow(Tail(w)) /\ (Tail(w) # <<>> => Tail(w)[Len(Tail(w))] = w[Len(w)])
<1> DEFINE t == Tail(w)
<1>1. /\ Len(w) \in Nat \ {0} /\ t \in Seq(Piece) /\ Len(t) = Len(w) - 1
      /\ \A i \in 1..Len(w) - 1 : t[i] = w[i + 1]
  BY TailProperties
<1> HIDE DEF t
<1>2. ASSUME NEW i \in 1..Len(t) - 1 PROVE Follows(t[i], t[i + 1])
  <2>1. t[i] = w[i + 1] /\ t[i + 1] = w[i + 1 + 1] /\ i + 1 \in 1..Len(w) - 1
    BY <1>1
  <2> QED
    BY <2>1 DEF AllFollow
<1>3. t # <<>> => Len(t) # 0
  BY <1>1
<1>4. t # <<>> => t[Len(t)] = w[Len(w)]
  BY <1>1, <1>3
<1> QED
  BY <1>2, <1>4 DEF AllFollow, t

\* A step that writes nothing and hands the mutex to nobody leaves the wire as
\* it was; what is on the wire of a connection that takes no more does not matter.
LEMMA WireKept ==
    ASSUME NEW c \in Conn, Whole(c), Boundary(c), wire'[c] = wire[c],
           Writable(c)' =>
               /\ Writable(c) /\ tagged'[c] = tagged[c]
               /\ tagged[c] => packet'[c][Head(mutex'[c])] = packet[c][Head(mutex[c])]
    PROVE  Whole(c)' /\ Boundary(c)'
BY DEF Whole, Boundary

\* Who joins the queue changes neither the holder nor the packet of the holder.
LEMMA WireJoined ==
    ASSUME TypeOK, NEW c \in Conn, Queued(c), HalfWritten(c), Whole(c), Boundary(c),
           NEW s \in Sender, s \notin Elements(mutex[c]),
           mutex'[c] = Append(mutex[c], s), wire'[c] = wire[c], tagged'[c] = tagged[c],
           \A r \in Sender \ {s} : packet'[c][r] = packet[c][r],
           Writable(c)' => Writable(c)
    PROVE  Whole(c)' /\ Boundary(c)'
<1>1. mutex[c] \in Seq(Sender)
  BY TypeParts DEF Located
<1>2. ASSUME tagged[c] PROVE packet'[c][Head(mutex'[c])] = packet[c][Head(mutex[c])]
  <2>1. mutex[c] # <<>>
    BY <1>2 DEF HalfWritten
  <2>2. Head(mutex[c]) \in Elements(mutex[c]) /\ Head(mutex[c]) \in Sender
    BY <1>1, <2>1, TailQueue, TailProperties DEF Queued
  <2>3. Head(mutex'[c]) = Head(mutex[c])
    BY <1>1, <2>1, AppendHead
  <2> QED
    BY <2>2, <2>3
<1> QED
  BY <1>2, WireKept

\* A tag follows a whole packet.
LEMMA TagWritten ==
    ASSUME TypeOK, NEW c \in Conn, Whole(c), Boundary(c), NEW s \in Sender, WriteTag(c, s),
           UNCHANGED <<packet, mutex>>
    PROVE  Whole(c)' /\ Boundary(c)'
<1> DEFINE e == [of |-> packet[c][s], part |-> "tag"]
<1>1. /\ wire \in [Conn -> Seq(Piece)] /\ tagged \in [Conn -> BOOLEAN] /\ e \in Piece
  BY TypeParts, WriteProperties DEF Located, WriteTag
<1>2. /\ wire'[c] = Append(wire[c], e) /\ tagged'[c] = TRUE
      /\ ~tagged[c] /\ Writable(c) /\ Head(mutex'[c]) = s /\ packet'[c][s] = packet[c][s]
  BY <1>1 DEF WriteTag, HoldsTx
<1>3. wire[c] # <<>> => wire[c][Len(wire[c])].part = "rest"
  BY <1>2 DEF Boundary
<1>4. wire[c] # <<>> => Follows(wire[c][Len(wire[c])], e)
  BY <1>3 DEF Follows
<1> HIDE DEF e
<1>5. Whole(c)'
  BY <1>1, <1>2, <1>4, FollowAppend DEF Whole
<1>6. wire'[c][Len(wire'[c])] = e
  BY <1>1, <1>2, AppendProperties
<1>7. Boundary(c)'
  BY <1>2, <1>6 DEF Boundary, e
<1> QED
  BY <1>5, <1>7

\* The rest of a packet follows the tag of this packet.
LEMMA RestWritten ==
    ASSUME TypeOK, NEW c \in Conn, Whole(c), Boundary(c), NEW s \in Sender, WriteRest(c, s)
    PROVE  Whole(c)' /\ Boundary(c)'
<1> DEFINE e == [of |-> packet[c][s], part |-> "rest"]
<1>1. /\ wire \in [Conn -> Seq(Piece)] /\ tagged \in [Conn -> BOOLEAN] /\ e \in Piece
  BY TypeParts, WriteProperties DEF Located, WriteRest
<1>2. /\ wire'[c] = Append(wire[c], e) /\ tagged'[c] = FALSE
      /\ tagged[c] /\ Writable(c) /\ Head(mutex[c]) = s
  BY <1>1 DEF WriteRest, HoldsTx, ReleaseTx
<1>3. wire[c] # <<>> => wire[c][Len(wire[c])] = [of |-> packet[c][s], part |-> "tag"]
  BY <1>2 DEF Boundary
<1>4. wire[c] # <<>> => Follows(wire[c][Len(wire[c])], e)
  BY <1>3 DEF Follows
<1> HIDE DEF e
<1>5. Whole(c)'
  BY <1>1, <1>2, <1>4, FollowAppend DEF Whole
<1>6. wire'[c][Len(wire'[c])] = e
  BY <1>1, <1>2, AppendProperties
<1>7. Boundary(c)'
  BY <1>2, <1>6 DEF Boundary, e
<1> QED
  BY <1>5, <1>7

\* Every step leaves whole packets, and the end of the wire as it should be.
LEMMA WireStep ==
    ASSUME TypeOK, NEW c \in Conn, Queued(c), HalfWritten(c), Fresh(c), Whole(c), Boundary(c),
           Step(c)
    PROVE  Whole(c)' /\ Boundary(c)'
<1>1. Located
  BY TypeParts
<1>2. CASE Listen(c)
  BY <1>2, WireKept DEF Listen, tx, Writable
<1>3. CASE TakeLagged(c)
  BY <1>3, WireKept DEF TakeLagged, tx, Writable
<1>4. CASE PeerLeaves(c)
  BY <1>1, <1>4, WireKept DEF PeerLeaves, tx, Writable, Located
<1>5. CASE Connect(c)
  <2>1. wire[c] = <<>> /\ wire' = wire
    BY <1>5 DEF Connect, Fresh
  <2> QED
    BY <2>1 DEF Whole, Boundary, AllFollow
<1>6. CASE Respond(c)
  <2>1. /\ handler[c] = "recv" /\ link' = link /\ wire' = wire /\ tagged' = tagged
        /\ StartSend(c, "handler", "Response")
    BY <1>6 DEF Respond
  <2>2. "handler" \notin Elements(mutex[c])
    BY <2>1 DEF Queued
  <2>3. /\ mutex'[c] = Append(mutex[c], "handler")
        /\ \A r \in Sender \ {"handler"} : packet'[c][r] = packet[c][r]
    BY <1>1, <2>1 DEF StartSend, Located
  <2>4. Writable(c)' => Writable(c)
    BY <2>1 DEF Writable
  <2> QED
    BY <2>1, <2>2, <2>3, <2>4, WireJoined DEF Sender
<1>7. CASE HandlerEnds(c)
  <2>1. /\ handler[c] = "recv" /\ link' = link /\ wire' = wire /\ tagged' = tagged
        /\ packet' = packet /\ mutex'[c] = Append(mutex[c], "handler")
    BY <1>1, <1>7 DEF HandlerEnds, Located
  <2>2. "handler" \notin Elements(mutex[c])
    BY <2>1 DEF Queued
  <2>3. Writable(c)' => Writable(c)
    BY <2>1 DEF Writable
  <2> QED
    BY <2>1, <2>2, <2>3, WireJoined DEF Sender
<1>8. CASE TakeNotification(c) \/ TakePing(c)
  <2>1. /\ forwarder[c] = "select" /\ link' = link /\ wire' = wire /\ tagged' = tagged
        /\ handler' = handler
        /\ \E p : StartSend(c, "forwarder", p)
    BY <1>8 DEF TakeNotification, TakePing
  <2>2. "forwarder" \notin Elements(mutex[c])
    BY <2>1 DEF Queued
  <2>3. /\ mutex'[c] = Append(mutex[c], "forwarder")
        /\ \A r \in Sender \ {"forwarder"} : packet'[c][r] = packet[c][r]
    BY <1>1, <2>1 DEF StartSend, Located
  <2>4. Writable(c)' => Writable(c)
    BY <2>1 DEF Writable
  <2> QED
    BY <2>1, <2>2, <2>3, <2>4, WireJoined DEF Sender
<1>9. CASE HandlerTag(c) \/ ForwarderTag(c)
  BY <1>9, TagWritten DEF HandlerTag, ForwarderTag, Sender
<1>10. CASE HandlerRest(c) \/ ForwarderRest(c)
  BY <1>10, RestWritten DEF HandlerRest, ForwarderRest, Sender
<1>11. CASE HandlerFails(c)
  BY <1>11, WireKept DEF HandlerFails, Writable
<1>12. CASE ForwarderFails(c)
  BY <1>12, WireKept DEF ForwarderFails, WriteFails, Writable
<1>13. CASE Shutdown(c)
  BY <1>1, <1>13, WireKept DEF Shutdown, Writable, Located
<1>14. CASE PeerReads(c)
  <2>1. /\ wire[c] # <<>> /\ wire'[c] = Tail(wire[c]) /\ wire[c] \in Seq(Piece)
        /\ UNCHANGED <<handler, tx, link>>
    BY <1>1, <1>14 DEF PeerReads, Located
  <2>2. /\ AllFollow(wire'[c])
        /\ wire'[c] # <<>> => wire'[c][Len(wire'[c])] = wire[c][Len(wire[c])]
    BY <2>1, FollowTail DEF Whole
  <2>3. Boundary(c)'
    BY <2>1, <2>2 DEF Boundary, Writable, tx
  <2> QED
    BY <2>2, <2>3 DEF Whole
<1> QED
  BY <1>2, <1>3, <1>4, <1>5, <1>6, <1>7, <1>8, <1>9, <1>10, <1>11, <1>12, <1>13, <1>14
     DEF Step, Answer, Forwarder

-----------------------------------------------------------------------------
(* What is forwarded.                                                      *)

\* What was forwarded, with what is on its way, is a sequence of notifications.
LEMMA OutType ==
    ASSUME TypeOK, NEW c \in Conn
    PROVE  Out(c) \in Seq(Notification) /\ forwarded[c] \in Seq(Notification)
           /\ due[c] \in Seq(Notification) /\ unread[c] \in Seq(Notification)
           /\ lagged[c] \in BOOLEAN
<1>1. Counted
  BY TypeParts
<1>2. /\ forwarded[c] \in Seq(Notification) /\ due[c] \in Seq(Notification)
      /\ unread[c] \in Seq(Notification) /\ lagged[c] \in BOOLEAN
  BY <1>1 DEF Counted
<1>3. packet[c]["forwarder"] \in Notification =>
          Append(forwarded[c], packet[c]["forwarder"]) \in Seq(Notification)
  BY <1>2, AppendProperties
<1> QED
  BY <1>2, <1>3 DEF Out

\* A step that changes none of it.
LEMMA AccountKept ==
    ASSUME NEW c \in Conn, Accounted(c), forwarder'[c] = forwarder[c],
           packet'[c]["forwarder"] = packet[c]["forwarder"],
           unread'[c] = unread[c], lagged'[c] = lagged[c],
           due'[c] = due[c], forwarded'[c] = forwarded[c]
    PROVE  Accounted(c)'
<1>1. Out(c)' = Out(c)
  BY DEF Out
<1> QED
  BY <1>1 DEF Accounted, Subscribed

\* The forwarder ends: what it forwarded stays.
LEMMA AccountEnded ==
    ASSUME NEW c \in Conn, Accounted(c), forwarder'[c] = "ended",
           due'[c] = due[c], forwarded'[c] = forwarded[c]
    PROVE  Accounted(c)'
BY DEF Accounted, Subscribed

\* A notification that is sent is accounted for: it is unread, or the receiver
\* has lagged.
LEMMA NotifyAccounted ==
    ASSUME TypeOK, NEW c \in Conn, Accounted(c), NEW n \in Notification, Notify(n)
    PROVE  Accounted(c)'
<1>1. /\ Out(c) \in Seq(Notification) /\ forwarded[c] \in Seq(Notification)
      /\ due[c] \in Seq(Notification) /\ unread[c] \in Seq(Notification)
      /\ lagged[c] \in BOOLEAN
  BY OutType
<1>2. /\ forwarder' = forwarder /\ packet' = packet /\ forwarded' = forwarded
      /\ unread'[c] = IF Subscribed(c) THEN Pushed(unread[c], n) ELSE unread[c]
      /\ lagged'[c] = (lagged[c] \/ (Subscribed(c) /\ Len(unread[c]) >= Capacity))
      /\ due'[c] = IF Subscribed(c) THEN Append(due[c], n) ELSE due[c]
  BY DEF Notify, tx
<1>3. CASE ~Subscribed(c)
  <2>1. unread'[c] = unread[c] /\ due'[c] = due[c] /\ lagged'[c] = lagged[c]
    BY <1>1, <1>2, <1>3 DEF Subscribed
  <2> QED
    BY <1>2, <2>1, AccountKept
<1>4. CASE Subscribed(c)
  <2>1. Out(c)' = Out(c) /\ Subscribed(c)' /\ forwarder'[c] # "none"
    BY <1>2, <1>4 DEF Out, Subscribed
  <2>2. IsPrefix(Out(c)', due'[c]) /\ IsPrefix(forwarded'[c], due'[c])
    BY <1>1, <1>2, <1>4, <2>1, PrefixAppend DEF Accounted
  <2>3. ASSUME ~lagged'[c] PROVE due'[c] = Out(c)' \o unread'[c]
    <3>1. ~lagged[c] /\ Len(unread[c]) < Capacity
      <4>1. ~(lagged[c] \/ (Subscribed(c) /\ Len(unread[c]) >= Capacity))
        BY <1>2, <2>3
      <4>2. Len(unread[c]) \in Nat /\ Capacity \in Nat
        BY <1>1, CapacityAssumption
      <4> QED
        BY <1>4, <4>1, <4>2 DEF Subscribed
    <3>2. unread'[c] = Append(unread[c], n)
      BY <1>2, <1>4, <3>1 DEF Pushed
    <3>3. due[c] = Out(c) \o unread[c]
      BY <1>4, <3>1 DEF Accounted
    <3>4. Append(due[c], n) = Out(c) \o Append(unread[c], n)
      <4>1. ASSUME NEW s \in Seq(Notification), NEW t \in Seq(Notification)
            PROVE  Append(s \o t, n) = s \o Append(t, n)
        OBVIOUS
      <4> QED
        BY <1>1, <3>3, <4>1, Zenon
    <3>5. due'[c] = Append(due[c], n)
      BY <1>2, <1>4 DEF Subscribed
    <3> QED
      BY <2>1, <3>2, <3>4, <3>5
  <2> QED
    BY <2>1, <2>2, <2>3 DEF Accounted
<1> QED
  BY <1>3, <1>4

\* A receiver that starts has nothing due.
LEMMA ListenAccounted ==
    ASSUME TypeOK, NEW c \in Conn, Accounted(c), Listen(c)
    PROVE  Accounted(c)'
<1>1. /\ forwarder'[c] = "select" /\ forwarder[c] = "none"
      /\ UNCHANGED <<unread, lagged, due, forwarded>>
  BY TypeParts DEF Listen, channelVars, Located
<1>2. unread'[c] = <<>> /\ due'[c] = <<>> /\ forwarded'[c] = <<>>
  BY <1>1 DEF Accounted
<1>3. Out(c)' = <<>>
  BY <1>1, <1>2 DEF Out
<1>4. <<>> \in Seq(Notification) /\ <<>> = <<>> \o <<>>
  OBVIOUS
<1>5. IsPrefix(<<>>, <<>>)
  BY <1>4, PrefixReflexive
<1> QED
  BY <1>1, <1>2, <1>3, <1>4, <1>5 DEF Accounted

\* The notification taken from the channel is the next one due.
LEMMA TakeAccounted ==
    ASSUME TypeOK, NEW c \in Conn, Accounted(c), TakeNotification(c)
    PROVE  Accounted(c)'
<1> DEFINE n == Head(unread[c])
<1>1. /\ Out(c) \in Seq(Notification) /\ forwarded[c] \in Seq(Notification)
      /\ due[c] \in Seq(Notification) /\ unread[c] \in Seq(Notification)
  BY OutType
<1>2. /\ forwarder[c] = "select" /\ ~lagged[c] /\ unread[c] # <<>>
      /\ forwarder'[c] = "sending" /\ unread'[c] = Tail(unread[c])
      /\ packet'[c]["forwarder"] = n
      /\ UNCHANGED <<lagged, due, forwarded>>
  BY TypeParts DEF TakeNotification, StartSend, Located, Counted, counts, Sender
<1>3. n \in Notification /\ Tail(unread[c]) \in Seq(Notification)
  BY <1>1, <1>2, TailProperties
<1>4. Out(c) = forwarded[c] /\ due[c] = Out(c) \o unread[c]
  BY <1>2 DEF Out, Accounted, Subscribed
<1>5. Out(c)' = Append(forwarded[c], n) /\ Append(forwarded[c], n) \in Seq(Notification)
  BY <1>1, <1>2, <1>3, AppendProperties DEF Out
<1>6. due'[c] = Out(c)' \o unread'[c]
  BY <1>1, <1>2, <1>4, <1>5, ConcatHead
<1>7. IsPrefix(Out(c)', due'[c])
  BY <1>2, <1>3, <1>5, <1>6, ConcatPrefix
<1>8. IsPrefix(forwarded'[c], due'[c])
  BY <1>1, <1>2, <1>4, ConcatPrefix
<1> QED
  BY <1>2, <1>6, <1>7, <1>8 DEF Accounted

\* What was on its way has been forwarded.
LEMMA RestAccounted ==
    ASSUME TypeOK, NEW c \in Conn, Queued(c), Accounted(c), ForwarderRest(c)
    PROVE  Accounted(c)'
<1>1. Located /\ Counted
  BY TypeParts
<1>2. /\ HoldsTx(c, "forwarder") /\ forwarder'[c] = "select"
      /\ forwarded'[c] = IF packet[c]["forwarder"] \in Notification
                         THEN Append(forwarded[c], packet[c]["forwarder"]) ELSE forwarded[c]
      /\ UNCHANGED <<unread, lagged, due>>
  BY <1>1 DEF ForwarderRest, WriteRest, Located, Counted, channelVars
<1>3. "forwarder" \in Elements(mutex[c])
  BY <1>1, <1>2, TailQueue DEF HoldsTx, Located, Queued
<1>4. forwarder[c] = "sending"
  BY <1>3 DEF Queued
<1>5. Out(c)' = Out(c) /\ forwarded'[c] = Out(c)
  BY <1>2, <1>4 DEF Out
<1> QED
  BY <1>2, <1>4, <1>5 DEF Accounted, Subscribed

\* Every step of a connection keeps the account.
LEMMA AccountedStep ==
    ASSUME TypeOK, NEW c \in Conn, Queued(c), Fresh(c), Accounted(c), Step(c)
    PROVE  Accounted(c)'
<1>1. Located
  BY TypeParts
<1>2. CASE Respond(c)
  <2>1. packet'[c]["forwarder"] = packet[c]["forwarder"]
    BY <1>1, <1>2 DEF Respond, StartSend, Located, Sender
  <2> QED
    BY <1>2, <2>1, AccountKept DEF Respond, channelVars
<1>3. CASE HandlerEnds(c) \/ HandlerTag(c) \/ HandlerRest(c) \/ HandlerFails(c) \/ Shutdown(c)
  BY <1>3, AccountKept
     DEF HandlerEnds, HandlerTag, HandlerRest, HandlerFails, Shutdown, channelVars, counts
<1>4. CASE ForwarderTag(c) \/ Connect(c) \/ PeerReads(c) \/ PeerLeaves(c)
  BY <1>4, AccountKept DEF ForwarderTag, Connect, PeerReads, PeerLeaves, channelVars, counts, tx
<1>5. CASE TakeLagged(c) \/ ForwarderFails(c)
  BY <1>1, <1>5, AccountEnded DEF TakeLagged, ForwarderFails, counts, Located
<1>6. CASE TakePing(c)
  <2>1. /\ forwarder[c] = "select" /\ forwarder'[c] = "sending"
        /\ packet'[c]["forwarder"] = "ControlPing"
        /\ UNCHANGED <<unread, lagged, due, forwarded>>
    BY <1>1, <1>6 DEF TakePing, StartSend, Located, counts, channelVars, Sender
  <2>2. Out(c)' = Out(c)
    BY <2>1 DEF Out, Notification
  <2> QED
    BY <2>1, <2>2 DEF Accounted, Subscribed
<1> QED
  BY <1>2, <1>3, <1>4, <1>5, <1>6, ListenAccounted, TakeAccounted, RestAccounted
     DEF Step, Answer, Forwarder

-----------------------------------------------------------------------------
(* The theorems.                                                           *)

\* The first state.
LEMMA InitInv ==
    ASSUME Init
    PROVE  IInv
<1>1. /\ 0 \in 0..MaxSent /\ 0 \in 0..MaxRequests /\ 0 <= Capacity
  BY BoundAssumption, CapacityAssumption
<1>2. TypeOK
  <2>1. <<>> \in Seq(Notification) /\ <<>> \in Seq(Sender) /\ <<>> \in Seq(Piece) /\ Len(<<>>) = 0
    OBVIOUS
  <2>2. Counted
    BY <1>1, <2>1 DEF Init, Counted
  <2>3. Located
    BY <2>1 DEF Init, Located, Packet
  <2> QED
    BY <2>2, <2>3, TypeParts
<1>3. ASSUME NEW c \in Conn PROVE InvAt(c)
  <2>1. /\ mutex[c] = <<>> /\ tagged[c] = FALSE /\ wire[c] = <<>> /\ handler[c] = "none"
        /\ forwarder[c] = "none" /\ unread[c] = <<>> /\ due[c] = <<>> /\ forwarded[c] = <<>>
    BY DEF Init
  <2>2. Queued(c)
    BY <2>1 DEF Queued, Distinct, Elements
  <2>3. HalfWritten(c) /\ Fresh(c) /\ Boundary(c)
    BY <2>1 DEF HalfWritten, Fresh, Boundary
  <2>4. Whole(c)
    BY <2>1 DEF Whole, AllFollow
  <2>5. <<>> \in Seq(Notification)
    OBVIOUS
  <2>6. Accounted(c)
    BY <2>1, <2>5, PrefixReflexive DEF Accounted, Subscribed
  <2> QED
    BY <2>2, <2>3, <2>4, <2>6 DEF InvAt
<1> QED
  BY <1>2, <1>3 DEF IInv

\* Nothing of what concerns a connection has changed.
LEMMA Unchanged ==
    ASSUME NEW d \in Conn, InvAt(d),
           unread'[d] = unread[d], lagged'[d] = lagged[d],
           handler'[d] = handler[d], forwarder'[d] = forwarder[d],
           packet'[d] = packet[d], mutex'[d] = mutex[d], tagged'[d] = tagged[d],
           wire'[d] = wire[d], link'[d] = link[d],
           due'[d] = due[d], forwarded'[d] = forwarded[d]
    PROVE  InvAt(d)'
<1>1. Queued(d)' /\ HalfWritten(d)' /\ Fresh(d)'
  BY DEF InvAt, Queued, HalfWritten, Fresh
<1>2. Writable(d)' = Writable(d)
  BY DEF Writable
<1>3. Whole(d)' /\ Boundary(d)'
  BY <1>2 DEF InvAt, Whole, Boundary
<1>4. Accounted(d)'
  BY AccountKept DEF InvAt
<1> QED
  BY <1>1, <1>3, <1>4 DEF InvAt

\* Every step keeps the invariant.
LEMMA InvStep ==
    ASSUME IInv, [Next]_vars
    PROVE  IInv'
<1>1. TypeOK /\ TypeOK' /\ \A c \in Conn : InvAt(c)
  BY TypeStep DEF IInv
<1>2. ASSUME NEW n \in Notification, Notify(n) PROVE IInv'
  <2>1. ASSUME NEW c \in Conn PROVE InvAt(c)'
    <3>1. InvAt(c) /\ Accounted(c)'
      BY <1>1, <1>2, NotifyAccounted DEF InvAt
    <3>2. UNCHANGED <<handler, forwarder, packet, mutex, tagged, wire, link>>
      BY <1>2 DEF Notify, tx
    <3>3. Queued(c)' /\ HalfWritten(c)' /\ Fresh(c)'
      BY <3>1, <3>2 DEF InvAt, Queued, HalfWritten, Fresh
    <3>4. Whole(c)' /\ Boundary(c)'
      BY <3>1, <3>2 DEF InvAt, Whole, Boundary, Writable
    <3> QED
      BY <3>1, <3>3, <3>4 DEF InvAt
  <2> QED
    BY <1>1, <2>1 DEF IInv
<1>3. ASSUME NEW c \in Conn, Step(c) PROVE IInv'
  <2>1. InvAt(c)
    BY <1>1
  <2>2. InvAt(c)'
    BY <1>1, <1>3, <2>1, QueuedStep, HalfWrittenStep, FreshStep, WireStep, AccountedStep DEF InvAt
  <2>3. ASSUME NEW d \in Conn \ {c} PROVE InvAt(d)'
    <3>1. /\ unread'[d] = unread[d] /\ lagged'[d] = lagged[d]
          /\ handler'[d] = handler[d] /\ forwarder'[d] = forwarder[d]
          /\ packet'[d] = packet[d] /\ mutex'[d] = mutex[d] /\ tagged'[d] = tagged[d]
          /\ wire'[d] = wire[d] /\ link'[d] = link[d]
          /\ due'[d] = due[d] /\ forwarded'[d] = forwarded[d]
      BY <1>1, <1>3, OthersKept
    <3>2. InvAt(d)
      BY <1>1
    <3> QED
      BY <3>1, <3>2, Unchanged
  <2> QED
    BY <1>1, <2>2, <2>3 DEF IInv
<1>4. CASE UNCHANGED vars
  <2>1. ASSUME NEW c \in Conn PROVE InvAt(c)'
    BY <1>1, <1>4, Unchanged DEF vars, channelVars, tx, counts
  <2> QED
    BY <1>1, <2>1 DEF IInv
<1> QED
  BY <1>2, <1>3, <1>4 DEF Next, Step

\* The invariant on which the theorems below rest holds in every state: the
\* queue for the mutex, the end of each wire and the account of what each
\* listener is owed are as the connection's two tasks expect.
THEOREM Inductive == Spec => []IInv
<1>1. Init => IInv
  BY InitInv
<1>2. IInv /\ [Next]_vars => IInv'
  BY InvStep
<1> QED
  BY <1>1, <1>2, PTL DEF Spec

\* Every variable has its type, and no receiver holds more than Capacity
\* notifications (notification.rs:11).
THEOREM TypeCorrect == Spec => []TypeOK
<1>1. IInv => TypeOK
  BY DEF IInv
<1> QED
  BY <1>1, Inductive, PTL

\* The peer of a connection reads whole packets, whatever its request handler
\* and its forwarder do in between, and however many connections there are.
THEOREM PacketsAreWhole == Spec => []PacketsWhole
<1>1. IInv => PacketsWhole
  BY DEF IInv, InvAt, Whole, AllFollow, Follows, PacketsWhole
<1> QED
  BY <1>1, Inductive, PTL

\* A listener gets the notifications since it subscribed in order and without a
\* gap, for every capacity of the channel.
THEOREM NothingLeftOut == Spec => []NoGaps
<1>1. IInv => NoGaps
  BY DEF IInv, InvAt, Accounted, NoGaps
<1> QED
  BY <1>1, Inductive, PTL

=============================================================================
