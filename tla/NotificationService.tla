------------------------ MODULE NotificationService -------------------------
(***************************************************************************)
(* How the API server pushes events to the guests: the broadcast channel   *)
(* of NotificationService, one forwarder task per listening connection,    *)
(* and the write half of the connection (PeerTx), which the forwarder      *)
(* shares with the task that answers the requests of that connection       *)
(* (bin/lapas_api_server/src/api_services/notification.rs, mod.rs,         *)
(* api_server.rs).                                                         *)
(*                                                                         *)
(* A packet is encoded by one write or several, with an await after each,  *)
(* and the socket may take any of them in pieces; a packet is modelled by  *)
(* two pieces, its tag (or the first bytes of it) and the rest.  The peer  *)
(* is the environment: it sends requests, asks for events at most once as  *)
(* the daemon of a guest does, reads, and goes away.                       *)
(***************************************************************************)
EXTENDS Integers, SequencesExt

CONSTANTS
    Conn,           \* connections; each is used once
    Capacity,       \* of the broadcast channel
    SocketBuffer,   \* writes a socket takes before the writer has to wait
    MaxSent,        \* bound on the number of notifications
    MaxRequests     \* bound on the requests of a connection

ASSUME CapacityAssumption == Capacity \in Nat \ {0} /\ SocketBuffer \in Nat \ {0}
ASSUME BoundAssumption == MaxSent \in Nat /\ MaxRequests \in Nat

VARIABLES
    sent,           \* notifications sent so far
    unread,         \* per receiver: what the channel still holds for it
    lagged,         \* per receiver: whether the channel has dropped some
    handler,        \* task of the connection, see TypeOK
    forwarder,      \* forwarder task of the connection, see TypeOK
    packet,         \* the packet each of the two is sending
    mutex,          \* PeerTx.tx: its holder, then those waiting
    tagged,         \* whether the holder has written the tag of its packet
    wire,           \* written to the socket, not read by the peer
    link,           \* "new", "open", or "gone": closed or lost by the peer
    requests,       \* requests received on each connection
    due,            \* notifications sent since the connection subscribed
    forwarded       \* notifications sent out on the connection

channelVars == <<sent, unread, lagged>>
tx == <<packet, mutex, tagged>>
counts == <<requests, due, forwarded>>
vars == <<channelVars, handler, forwarder, tx, wire, link, counts>>

Notification == {"NotifyUsersChanged", "NotifyDnsMappingsChanged"}
Packet == Notification \union {"ControlPing", "Response"}
Sender == {"handler", "forwarder"}

Init ==
    /\ sent = 0
    /\ unread = [c \in Conn |-> <<>>]
    /\ lagged = [c \in Conn |-> FALSE]
    /\ handler = [c \in Conn |-> "none"]
    /\ forwarder = [c \in Conn |-> "none"]
    /\ packet = [c \in Conn |-> [s \in Sender |-> "ControlPing"]]
    /\ mutex = [c \in Conn |-> <<>>]
    /\ tagged = [c \in Conn |-> FALSE]
    /\ wire = [c \in Conn |-> <<>>]
    /\ link = [c \in Conn |-> "new"]
    /\ requests = [c \in Conn |-> 0]
    /\ due = [c \in Conn |-> <<>>]
    /\ forwarded = [c \in Conn |-> <<>>]

-----------------------------------------------------------------------------
(* The broadcast channel.                                                  *)

\* A receiver exists while its forwarder runs.
Subscribed(c) == forwarder[c] \in {"select", "sending"}

\* Mutant: the channel has no bound.
PushedUnbounded(queue, n) == Append(queue, n)

\* A receiver that still has Capacity notifications to read loses the oldest.
Pushed(queue, n) == Append(IF Len(queue) < Capacity THEN queue ELSE Tail(queue), n)

\* notifier.send; a receiver that lost a notification will be told so.
Notify(n) ==
    /\ sent < MaxSent
    /\ sent' = sent + 1
    /\ unread' = [c \in Conn |->
            IF Subscribed(c) THEN Pushed(unread[c], n) ELSE unread[c]]
    /\ lagged' = [c \in Conn |->
            lagged[c] \/ (Subscribed(c) /\ Len(unread[c]) >= Capacity)]
    /\ due' = [c \in Conn |-> IF Subscribed(c) THEN Append(due[c], n) ELSE due[c]]
    /\ UNCHANGED <<handler, forwarder, tx, wire, link, requests, forwarded>>

-----------------------------------------------------------------------------
(* PeerTx.send and PeerTx.shutdown.                                        *)

\* Task s of connection c starts to send p: it queues for the mutex.
StartSend(c, s, p) ==
    /\ packet' = [packet EXCEPT ![c][s] = p]
    /\ mutex' = [mutex EXCEPT ![c] = Append(@, s)]

\* Mutant: whoever waits may write.
WaitsForTx(c, s) == s \in ToSet(mutex[c])

HoldsTx(c, s) == mutex[c] # <<>> /\ Head(mutex[c]) = s

ReleaseTx(c) ==
    /\ mutex' = [mutex EXCEPT ![c] = Tail(@)]
    /\ tagged' = [tagged EXCEPT ![c] = FALSE]

\* A socket takes writes until the peer is gone or this side shut it down.
Writable(c) == link[c] = "open" /\ handler[c] # "closed"

WriteTag(c, s) ==
    /\ HoldsTx(c, s)
    /\ ~tagged[c]
    /\ Writable(c)
    /\ Len(wire[c]) < SocketBuffer
    /\ wire' = [wire EXCEPT ![c] = Append(@, [of |-> packet[c][s], part |-> "tag"])]
    /\ tagged' = [tagged EXCEPT ![c] = TRUE]

WriteRest(c, s) ==
    /\ HoldsTx(c, s)
    /\ tagged[c]
    /\ Writable(c)
    /\ Len(wire[c]) < SocketBuffer
    /\ wire' = [wire EXCEPT ![c] = Append(@, [of |-> packet[c][s], part |-> "rest"])]
    /\ ReleaseTx(c)

\* A write fails, and with it the whole send.
WriteFails(c, s) ==
    /\ HoldsTx(c, s)
    /\ ~Writable(c)
    /\ ReleaseTx(c)

-----------------------------------------------------------------------------
(* The forwarder: forward_notifications.                                   *)

\* ControlListenEvents, which a daemon sends once: subscribe and spawn the
\* forwarder.
Listen(c) ==
    /\ link[c] = "open"
    /\ handler[c] = "recv"
    /\ requests[c] < MaxRequests
    /\ forwarder[c] = "none"
    /\ forwarder' = [forwarder EXCEPT ![c] = "select"]
    /\ requests' = [requests EXCEPT ![c] = @ + 1]
    /\ UNCHANGED <<channelVars, handler, tx, wire, link, due, forwarded>>

\* select! takes the notification: send it on.
TakeNotification(c) ==
    /\ forwarder[c] = "select"
    /\ ~lagged[c]
    /\ unread[c] # <<>>
    /\ forwarder' = [forwarder EXCEPT ![c] = "sending"]
    /\ unread' = [unread EXCEPT ![c] = Tail(@)]
    /\ StartSend(c, "forwarder", Head(unread[c]))
    /\ UNCHANGED <<sent, lagged, handler, tagged, wire, link, counts>>

\* Mutant: the error is ignored and the loop goes on.
IgnoreLagged(c) ==
    /\ forwarder[c] = "select"
    /\ lagged[c]
    /\ lagged' = [lagged EXCEPT ![c] = FALSE]
    /\ UNCHANGED <<sent, unread, handler, forwarder, tx, wire, link, counts>>

\* select! takes RecvError::Lagged, which `notification?` returns: the task
\* ends, the connection stays open.
TakeLagged(c) ==
    /\ forwarder[c] = "select"
    /\ lagged[c]
    /\ forwarder' = [forwarder EXCEPT ![c] = "ended"]
    /\ UNCHANGED <<channelVars, handler, tx, wire, link, counts>>

\* Mutant: no pings once the peer is gone.
TakePingWhileOpen(c) ==
    /\ forwarder[c] = "select"
    /\ link[c] = "open"
    /\ forwarder' = [forwarder EXCEPT ![c] = "sending"]
    /\ StartSend(c, "forwarder", "ControlPing")
    /\ UNCHANGED <<channelVars, handler, tagged, wire, link, counts>>

\* select! takes the elapsed sleep.
TakePing(c) ==
    /\ forwarder[c] = "select"
    /\ forwarder' = [forwarder EXCEPT ![c] = "sending"]
    /\ StartSend(c, "forwarder", "ControlPing")
    /\ UNCHANGED <<channelVars, handler, tagged, wire, link, counts>>

ForwarderTag(c) ==
    /\ WriteTag(c, "forwarder")
    /\ UNCHANGED <<channelVars, handler, forwarder, packet, mutex, link, counts>>

ForwarderRest(c) ==
    /\ WriteRest(c, "forwarder")
    /\ forwarder' = [forwarder EXCEPT ![c] = "select"]
    /\ forwarded' = [forwarded EXCEPT ![c] =
            IF packet[c]["forwarder"] \in Notification
            THEN Append(@, packet[c]["forwarder"]) ELSE @]
    /\ UNCHANGED <<channelVars, handler, packet, link, requests, due>>

ForwarderFails(c) ==
    /\ WriteFails(c, "forwarder")
    /\ forwarder' = [forwarder EXCEPT ![c] = "ended"]
    /\ UNCHANGED <<channelVars, handler, packet, wire, link, counts>>

-----------------------------------------------------------------------------
(* The task of the connection: handle_client, then tx.shutdown.            *)

\* Any request with a response; the response is ready when it wants the tx.
Respond(c) ==
    /\ link[c] = "open"
    /\ handler[c] = "recv"
    /\ requests[c] < MaxRequests
    /\ requests' = [requests EXCEPT ![c] = @ + 1]
    /\ handler' = [handler EXCEPT ![c] = "sending"]
    /\ StartSend(c, "handler", "Response")
    /\ UNCHANGED <<channelVars, forwarder, tagged, wire, link, due, forwarded>>

HandlerTag(c) ==
    /\ handler[c] = "sending"
    /\ WriteTag(c, "handler")
    /\ UNCHANGED <<channelVars, handler, forwarder, packet, mutex, link, counts>>

\* Mutant: the mutex is kept after the response.
HandlerRestLocked(c) ==
    /\ handler[c] = "sending"
    /\ HoldsTx(c, "handler")
    /\ tagged[c]
    /\ Writable(c)
    /\ Len(wire[c]) < SocketBuffer
    /\ wire' = [wire EXCEPT ![c] = Append(@, [of |-> "Response", part |-> "rest"])]
    /\ tagged' = [tagged EXCEPT ![c] = FALSE]
    /\ handler' = [handler EXCEPT ![c] = "recv"]
    /\ UNCHANGED <<channelVars, forwarder, packet, mutex, link, counts>>

HandlerRest(c) ==
    /\ handler[c] = "sending"
    /\ WriteRest(c, "handler")
    /\ handler' = [handler EXCEPT ![c] = "recv"]
    /\ UNCHANGED <<channelVars, forwarder, packet, link, counts>>

\* The send fails: handle_client returns the error, the tx is asked for again.
HandlerFails(c) ==
    /\ handler[c] = "sending"
    /\ HoldsTx(c, "handler")
    /\ ~Writable(c)
    /\ tagged' = [tagged EXCEPT ![c] = FALSE]
    /\ mutex' = [mutex EXCEPT ![c] = Append(Tail(@), "handler")]
    /\ handler' = [handler EXCEPT ![c] = "shutdown"]
    /\ UNCHANGED <<channelVars, forwarder, packet, wire, link, counts>>

\* recv fails, or a request is refused: handle_client returns.
HandlerEnds(c) ==
    /\ handler[c] = "recv"
    /\ handler' = [handler EXCEPT ![c] = "shutdown"]
    /\ mutex' = [mutex EXCEPT ![c] = Append(@, "handler")]
    /\ UNCHANGED <<channelVars, forwarder, packet, tagged, wire, link, counts>>

Shutdown(c) ==
    /\ handler[c] = "shutdown"
    /\ HoldsTx(c, "handler")
    /\ ReleaseTx(c)
    /\ handler' = [handler EXCEPT ![c] = "closed"]
    /\ UNCHANGED <<channelVars, forwarder, packet, wire, link, counts>>

-----------------------------------------------------------------------------
(* The peer.                                                               *)

Connect(c) ==
    /\ link[c] = "new"
    /\ link' = [link EXCEPT ![c] = "open"]
    /\ handler' = [handler EXCEPT ![c] = "recv"]
    /\ UNCHANGED <<channelVars, forwarder, tx, wire, counts>>

PeerReads(c) ==
    /\ wire[c] # <<>>
    /\ wire' = [wire EXCEPT ![c] = Tail(@)]
    /\ UNCHANGED <<channelVars, handler, forwarder, tx, link, counts>>

PeerLeaves(c) ==
    /\ link[c] = "open"
    /\ link' = [link EXCEPT ![c] = "gone"]
    /\ UNCHANGED <<channelVars, handler, forwarder, tx, wire, counts>>

Forwarder(c) ==
    \/ TakeNotification(c)
    \/ TakeLagged(c)
    \/ TakePing(c)
    \/ ForwarderTag(c)
    \/ ForwarderRest(c)
    \/ ForwarderFails(c)

Answer(c) == HandlerTag(c) \/ HandlerRest(c) \/ HandlerFails(c) \/ Shutdown(c)

Next ==
    \/ \E n \in Notification : Notify(n)
    \/ \E c \in Conn :
        \/ Listen(c) \/ Respond(c) \/ HandlerEnds(c)
        \/ Answer(c)
        \/ Forwarder(c)
        \/ Connect(c) \/ PeerReads(c) \/ PeerLeaves(c)

Spec == Init /\ [][Next]_vars

\* The runtime polls the tasks; a fresh sleep is never ready when select! polls
\* first, so a notification that waits is taken sooner or later.  A connection
\* whose peer is gone fails to recv.  Peers that are there read.
FairSpec ==
    /\ Spec
    /\ \A c \in Conn :
        /\ WF_vars(Forwarder(c))
        /\ SF_vars(TakeNotification(c) \/ TakeLagged(c))
        /\ WF_vars(Answer(c))
        /\ WF_vars(HandlerEnds(c) /\ link[c] = "gone")
        /\ WF_vars(PeerReads(c))

-----------------------------------------------------------------------------
(* Properties.                                                             *)

TypeOK ==
    /\ sent \in 0..MaxSent
    /\ unread \in [Conn -> Seq(Notification)]
    /\ \A c \in Conn : Len(unread[c]) <= Capacity
    /\ lagged \in [Conn -> BOOLEAN]
    /\ handler \in [Conn -> {"none", "recv", "sending", "shutdown", "closed"}]
    /\ forwarder \in [Conn -> {"none", "select", "sending", "ended"}]
    /\ packet \in [Conn -> [Sender -> Packet]]
    /\ mutex \in [Conn -> Seq(Sender)]
    /\ tagged \in [Conn -> BOOLEAN]
    /\ wire \in [Conn -> Seq([of : Packet, part : {"tag", "rest"}])]
    /\ link \in [Conn -> {"new", "open", "gone"}]
    /\ requests \in [Conn -> 0..MaxRequests]
    /\ due \in [Conn -> Seq(Notification)]
    /\ forwarded \in [Conn -> Seq(Notification)]

\* What the peer reads is a sequence of whole packets: the writes of a response
\* and of a notification are never interleaved, although both tasks of a
\* connection write to it and are suspended in the middle of a packet
\* (PeerTx.send holds the mutex across encode, mod.rs:25-29).
PacketsWhole ==
    \A c \in Conn : \A i \in 1..Len(wire[c]) - 1 :
        IF wire[c][i].part = "tag"
        THEN wire[c][i + 1] = [of |-> wire[c][i].of, part |-> "rest"]
        ELSE wire[c][i + 1].part = "tag"

\* A listener is sent the notifications since it subscribed, in order, none
\* twice and none left out in between: when the channel has dropped one, the
\* listener is sent nothing more (notification.rs:29-31).
NoGaps == \A c \in Conn : IsPrefix(forwarded[c], due[c])

\* Every notification reaches a listener that has not lagged and is not closed.
NotificationsForwarded ==
    \A c \in Conn : \A n \in 1..MaxSent :
        Len(due[c]) >= n ~>
            Len(forwarded[c]) >= n \/ lagged[c] \/ forwarder[c] = "ended"

\* The forwarder of a connection that was shut down ends too, although no one
\* tells it: its next notification or ping fails (notification.rs:33-35).
ForwardersEnd ==
    \A c \in Conn : handler[c] = "closed" ~> ~Subscribed(c)

\* A listener that stays connected is sent something again and again, so that
\* it notices when the connection is dead (ControlPing, lib.rs:17-19).
KeepsSending ==
    \A c \in Conn :
        (forwarder[c] # "none" /\ handler[c] = "recv") ~>
            (forwarder[c] = "sending" \/ handler[c] \in {"shutdown", "closed"})

=============================================================================
