----------------------------- MODULE GuestSync ------------------------------
(***************************************************************************)
(* How the guests keep up with the registered users: the registry of the   *)
(* API server (by its abstract specification, UserRegistry), the           *)
(* notifications and answers the server sends on each connection, and the  *)
(* daemon of each guest with its cache (bin/lapas_api_client/src/          *)
(* daemon.rs), which the login of the guest is served from.                *)
(*                                                                         *)
(* A connection belongs to one guest and carries whole packets in order    *)
(* (NotificationService!PacketsWhole); what the server keeps for a         *)
(* connection that broke has no effect any more and is dropped at once     *)
(* (NotificationService!ForwardersEnd).  Pings carry nothing and are left  *)
(* out but for their purpose, to notice a broken connection.               *)
(***************************************************************************)
EXTENDS Integers, SequencesExt

CONSTANTS
    Guest,          \* the guests that run a daemon
    Name,           \* user names
    FirstId,        \* id of the first user
    Capacity,       \* of the broadcast channel
    DiskFaults,     \* whether a registration may fail after it took effect
    SlowLink,       \* whether the daemon's timer may hit a packet half read
    MaxMappings,    \* bound on DNS mappings
    MaxBreaks,      \* bound on lost connections, lost packets, restarted daemons
    MaxStops        \* bound on restarts of the server

ASSUME ParameterAssumption ==
    /\ FirstId \in Nat
    /\ Capacity \in Nat \ {0}
    /\ DiskFaults \in BOOLEAN /\ SlowLink \in BOOLEAN
    /\ MaxMappings \in Nat /\ MaxBreaks \in Nat /\ MaxStops \in Nat

VARIABLES
    status, users,  \* the registry: see UserRegistry
    announced,      \* the users at the last NotifyUsersChanged
    mappings, breaks, stops,
    link,           \* connection of each guest: "none", "up" or "broken"
    toServer,       \* requests the server has not handled
    answer,         \* listing the server is about to send: none or one
    listening,      \* whether a forwarder serves the connection
    unread,         \* notifications the channel holds for the forwarder
    lagged,         \* whether the channel dropped one
    lost,           \* whether a packet was lost on the connection
    hand,           \* notification the forwarder is about to send: none or one
    toGuest,        \* packets the daemon has not read
    daemon,         \* "connect", "loop" or "flush": where the daemon is
    cache,          \* UserCache: none or one listing
    dns             \* the resolver of the guest: "fresh", or it may answer from
                    \* before a mapping: "stale" until the guest is told of it,
                    \* "missed" when the guest was away or could not flush

registryVars == <<status, users, announced>>
bounds == <<mappings, breaks, stops>>
channel == <<listening, unread, lagged, hand>>
server == <<registryVars, bounds, toServer, answer>>
guestSide == <<daemon, lost, cache, dns>>
vars == <<server, link, channel, toGuest, guestSide>>

Registry == INSTANCE UserRegistry

Notification == {"NotifyUsersChanged", "NotifyDnsMappingsChanged"}
Listing == Seq(Registry!User)
Response(list) == [kind |-> "ShadowGetListResponse", list |-> list]

Event(n) == [kind |-> n, list |-> <<>>]
Packet == [kind : Notification \union {"ShadowGetListResponse"}, list : Listing]

Init ==
    /\ Registry!Init
    /\ announced = <<>>
    /\ mappings = 0 /\ breaks = 0 /\ stops = 0
    /\ link = [g \in Guest |-> "none"]
    /\ toServer = [g \in Guest |-> <<>>]
    /\ answer = [g \in Guest |-> <<>>]
    /\ listening = [g \in Guest |-> FALSE]
    /\ unread = [g \in Guest |-> <<>>]
    /\ lagged = [g \in Guest |-> FALSE]
    /\ hand = [g \in Guest |-> <<>>]
    /\ lost = [g \in Guest |-> FALSE]
    /\ toGuest = [g \in Guest |-> <<>>]
    /\ daemon = [g \in Guest |-> "connect"]
    /\ cache = [g \in Guest |-> <<>>]
    /\ dns = [g \in Guest |-> "fresh"]

-----------------------------------------------------------------------------
(* The server: registrations, mappings, notifications.                     *)

\* Mutant: a channel without a bound.
PushedUnbounded(queue, n) == Append(queue, n)

\* tokio's broadcast channel drops the oldest notification when it is full.
Pushed(queue, n) == Append(IF Len(queue) < Capacity THEN queue ELSE Tail(queue), n)

\* NotificationService.send.
Broadcast(n) ==
    /\ unread' = [g \in Guest |->
            IF listening[g] THEN Pushed(unread[g], n) ELSE unread[g]]
    /\ lagged' = [g \in Guest |->
            lagged[g] \/ (listening[g] /\ Len(unread[g]) >= Capacity)]
    /\ UNCHANGED <<listening, hand>>

\* add_user returns Ok.
RegisterUser(n) ==
    /\ Registry!Register(n)
    /\ announced' = users'
    /\ Broadcast("NotifyUsersChanged")
    /\ UNCHANGED <<bounds, link, toServer, answer, toGuest, guestSide>>

\* add_user returns Err after the user entered the index.
RegisterUnannounced(n) ==
    /\ DiskFaults
    /\ Registry!Register(n)
    /\ UNCHANGED <<announced, bounds, link, toServer, answer, channel, toGuest, guestSide>>

\* create_user_host_mapping returns Ok.
MapHost ==
    /\ status = "up"
    /\ mappings < MaxMappings
    /\ mappings' = mappings + 1
    /\ Broadcast("NotifyDnsMappingsChanged")
    /\ dns' = [g \in Guest |-> IF listening[g] THEN "stale" ELSE "missed"]
    /\ UNCHANGED <<registryVars, breaks, stops, link, toServer, answer, toGuest,
                   daemon, lost, cache>>

\* What the server keeps for the connection of g is gone.
Forget(G) ==
    /\ link' = [g \in Guest |-> IF g \in G /\ link[g] = "up" THEN "broken" ELSE link[g]]
    /\ toServer' = [g \in Guest |-> IF g \in G THEN <<>> ELSE toServer[g]]
    /\ answer' = [g \in Guest |-> IF g \in G THEN <<>> ELSE answer[g]]
    /\ listening' = [g \in Guest |-> listening[g] /\ g \notin G]
    /\ unread' = [g \in Guest |-> IF g \in G THEN <<>> ELSE unread[g]]
    /\ lagged' = [g \in Guest |-> lagged[g] /\ g \notin G]
    /\ hand' = [g \in Guest |-> IF g \in G THEN <<>> ELSE hand[g]]

\* The guests in G are told nothing more of what was sent to them.
MissFlush(G) ==
    dns' = [g \in Guest |-> IF g \in G /\ dns[g] = "stale" THEN "missed" ELSE dns[g]]

StopServer ==
    /\ stops < MaxStops
    /\ stops' = stops + 1
    /\ Registry!Stop
    /\ Forget(Guest)
    /\ MissFlush(Guest)
    /\ UNCHANGED <<announced, mappings, breaks, toGuest, daemon, lost, cache>>

StartServer ==
    /\ Registry!Start
    /\ announced' = users'
    /\ UNCHANGED <<bounds, link, toServer, answer, channel, toGuest, guestSide>>

-----------------------------------------------------------------------------
(* The server: the tasks of a connection.                                  *)

\* handle_client reads the next request once the previous one is answered.
NextRequest(g, r) ==
    /\ link[g] = "up"
    /\ answer[g] = <<>>
    /\ toServer[g] # <<>>
    /\ Head(toServer[g]) = r
    /\ toServer' = [toServer EXCEPT ![g] = Tail(@)]

HandleListen(g) ==
    /\ NextRequest(g, "ControlListenEvents")
    /\ listening' = [listening EXCEPT ![g] = TRUE]
    /\ UNCHANGED <<registryVars, bounds, link, answer, unread, lagged, hand,
                   toGuest, guestSide>>

\* shadow_all: the listing is taken before the task waits for its turn to send.
HandleShadowGetList(g) ==
    /\ NextRequest(g, "ShadowGetList")
    /\ answer' = [answer EXCEPT ![g] = <<users>>]
    /\ UNCHANGED <<registryVars, bounds, link, channel, toGuest, guestSide>>

\* Mutant: a packet overtakes what was sent before.
SentFirst(queue, p) == <<p>> \o queue

Sent(queue, p) == Append(queue, p)

SendAnswer(g) ==
    /\ answer[g] # <<>>
    /\ toGuest' = [toGuest EXCEPT ![g] = Sent(@, Response(answer[g][1]))]
    /\ answer' = [answer EXCEPT ![g] = <<>>]
    /\ UNCHANGED <<registryVars, bounds, toServer, link, channel, guestSide>>

\* The forwarder takes the next notification and waits for its turn to send.
TakeNotification(g) ==
    /\ listening[g] /\ ~lagged[g]
    /\ hand[g] = <<>>
    /\ unread[g] # <<>>
    /\ hand' = [hand EXCEPT ![g] = <<Head(unread[g])>>]
    /\ unread' = [unread EXCEPT ![g] = Tail(@)]
    /\ UNCHANGED <<server, link, listening, lagged, toGuest, guestSide>>

SendNotification(g) ==
    /\ hand[g] # <<>>
    /\ toGuest' = [toGuest EXCEPT ![g] = Sent(@, Event(hand[g][1]))]
    /\ hand' = [hand EXCEPT ![g] = <<>>]
    /\ UNCHANGED <<server, link, listening, unread, lagged, guestSide>>

\* RecvError::Lagged ends the forwarder.
EndForwarder(g) ==
    /\ listening[g] /\ lagged[g]
    /\ hand[g] = <<>>
    /\ listening' = [listening EXCEPT ![g] = FALSE]
    /\ UNCHANGED <<server, link, unread, lagged, hand, toGuest, guestSide>>

-----------------------------------------------------------------------------
(* The daemon of a guest.                                                  *)

\* Mutant: the daemon asks for the list before it subscribes.
HelloListFirst == <<"ShadowGetList", "ControlListenEvents">>

Hello == <<"ControlListenEvents", "ShadowGetList">>

\* run_daemon up to its loop.
Connect(g) ==
    /\ daemon[g] = "connect"
    /\ status = "up"
    /\ link' = [link EXCEPT ![g] = "up"]
    /\ toServer' = [toServer EXCEPT ![g] = Hello]
    /\ daemon' = [daemon EXCEPT ![g] = "loop"]
    /\ UNCHANGED <<registryVars, bounds, answer, channel, toGuest, lost, cache, dns>>

\* Mutant: decode buffers what it reads and drops the buffer.
UndecodedBuffered(queue) == <<>>

Undecoded(queue) == Tail(queue)

\* The loop decodes a packet of the given kind.
Decode(g, kind) ==
    /\ daemon[g] = "loop"
    /\ toGuest[g] # <<>>
    /\ Head(toGuest[g]).kind = kind
    /\ toGuest' = [toGuest EXCEPT ![g] = Undecoded(@)]

UsersChanged(g) ==
    /\ Decode(g, "NotifyUsersChanged")
    /\ toServer' = IF link[g] = "up"
                   THEN [toServer EXCEPT ![g] = Append(@, "ShadowGetList")]
                   ELSE toServer
    /\ UNCHANGED <<registryVars, bounds, answer, link, channel, guestSide>>

\* The daemon runs resolvectl, whose failure is only logged, and reads nothing
\* meanwhile.  What is mapped from now on may have come too late for it.
DnsMappingsChanged(g) ==
    /\ Decode(g, "NotifyDnsMappingsChanged")
    /\ daemon' = [daemon EXCEPT ![g] = "flush"]
    /\ \/ dns' = [dns EXCEPT ![g] = "fresh"]
       \/ MissFlush({g})
    /\ UNCHANGED <<server, link, channel, lost, cache>>

Flushed(g) ==
    /\ daemon[g] = "flush"
    /\ daemon' = [daemon EXCEPT ![g] = "loop"]
    /\ UNCHANGED <<server, link, channel, toGuest, lost, cache, dns>>

\* The listing is Ok: shadow_all has no other answer for a daemon that has the
\* password, so that the arm which ends run_daemon is not taken.
UpdateCache(g) ==
    /\ Decode(g, "ShadowGetListResponse")
    /\ cache' = [cache EXCEPT ![g] = <<Head(toGuest[g]).list>>]
    /\ UNCHANGED <<server, link, channel, lost, daemon, dns>>

\* run_daemon returns an error, which closes the connection; the daemon will
\* connect again, without a flush.
Drop(g) ==
    /\ Forget({g})
    /\ MissFlush({g})
    /\ toGuest' = [toGuest EXCEPT ![g] = <<>>]
    /\ lost' = [lost EXCEPT ![g] = FALSE]
    /\ daemon' = [daemon EXCEPT ![g] = "connect"]

\* Mutant: without pings, only a read notices.
NoticedByRead(g) == link[g] = "broken" /\ toGuest[g] # <<>>

\* A read or the next ping fails.
Noticed(g) == link[g] = "broken"

NoticeBroken(g) ==
    /\ daemon[g] = "loop"
    /\ Noticed(g)
    /\ Drop(g)
    /\ UNCHANGED <<registryVars, bounds, cache>>

\* The sleep of select! elapses while a packet is half read; decode is dropped
\* with what it has read and the rest is taken for the next packet: an error,
\* or something that is ignored (three bytes or less, which are no tag, are
\* dropped in the same way when nothing follows them for another second).
LosePacket(g) ==
    /\ SlowLink
    /\ breaks < MaxBreaks
    /\ breaks' = breaks + 1
    /\ daemon[g] = "loop"
    /\ toGuest[g] # <<>>
    /\ \/ Drop(g)
       \/ /\ toGuest' = [toGuest EXCEPT ![g] = Tail(@)]
          /\ lost' = [lost EXCEPT ![g] = TRUE]
          /\ UNCHANGED <<link, toServer, answer, channel, daemon, dns>>
    /\ UNCHANGED <<registryVars, mappings, stops, cache>>

\* The network fails between the two ends of the connection.
BreakLink(g) ==
    /\ breaks < MaxBreaks
    /\ link[g] = "up"
    /\ breaks' = breaks + 1
    /\ Forget({g})
    /\ MissFlush({g})
    /\ UNCHANGED <<registryVars, mappings, stops, toGuest, daemon, lost, cache>>

\* The guest reboots, or its daemon is restarted.
RestartDaemon(g) ==
    /\ breaks < MaxBreaks
    /\ breaks' = breaks + 1
    /\ Drop(g)
    /\ cache' = [cache EXCEPT ![g] = <<>>]
    /\ UNCHANGED <<registryVars, mappings, stops>>

ServerTasks(g) ==
    \/ HandleListen(g) \/ HandleShadowGetList(g) \/ SendAnswer(g)

ForwarderTask(g) ==
    \/ TakeNotification(g) \/ SendNotification(g) \/ EndForwarder(g)

DaemonTask(g) ==
    \/ Connect(g)
    \/ UsersChanged(g) \/ DnsMappingsChanged(g) \/ Flushed(g) \/ UpdateCache(g)
    \/ NoticeBroken(g)

Next ==
    \/ \E n \in Name : RegisterUser(n) \/ RegisterUnannounced(n)
    \/ MapHost
    \/ StopServer \/ StartServer
    \/ \E g \in Guest :
        \/ ServerTasks(g) \/ ForwarderTask(g) \/ DaemonTask(g)
        \/ LosePacket(g) \/ BreakLink(g) \/ RestartDaemon(g)

Spec == Init /\ [][Next]_vars

\* Tasks that can continue do; a broken connection is noticed, by a ping if by
\* nothing else.  Nobody has to register users or to start the server again.
FairSpec ==
    /\ Spec
    /\ \A g \in Guest :
        WF_vars(ServerTasks(g)) /\ WF_vars(ForwarderTask(g)) /\ WF_vars(DaemonTask(g))

-----------------------------------------------------------------------------
(* Properties.                                                             *)

TypeOK ==
    /\ Registry!TypeOK
    /\ announced \in Listing
    /\ mappings \in 0..MaxMappings /\ breaks \in 0..MaxBreaks /\ stops \in 0..MaxStops
    /\ link \in [Guest -> {"none", "up", "broken"}]
    /\ toServer \in [Guest -> Seq({"ControlListenEvents", "ShadowGetList"})]
    /\ answer \in [Guest -> Seq(Listing)]
    /\ listening \in [Guest -> BOOLEAN]
    /\ unread \in [Guest -> Seq(Notification)]
    /\ \A g \in Guest : Len(unread[g]) <= Capacity
    /\ lagged \in [Guest -> BOOLEAN]
    /\ hand \in [Guest -> Seq(Notification)]
    /\ lost \in [Guest -> BOOLEAN]
    /\ toGuest \in [Guest -> Seq(Packet)]
    /\ daemon \in [Guest -> {"connect", "loop", "flush"}]
    /\ cache \in [Guest -> Seq(Listing)]
    /\ dns \in [Guest -> {"fresh", "stale", "missed"}]

\* A listing that has every user that was announced, and none that the server
\* does not know, as one from before a restart may.
UpToDate(list) == IsPrefix(announced, list) /\ IsPrefix(list, users)

Synced(g) == cache[g] # <<>> /\ UpToDate(cache[g][1])

\* A notification n that the daemon of g will read.
Coming(g, n) ==
    \/ n \in ToSet(unread[g]) \union ToSet(hand[g])
    \/ \E p \in ToSet(toGuest[g]) : p.kind = n

\* Something that will make the daemon of g ask for the users, or a listing.
OnTheWay(g) ==
    \/ "ShadowGetList" \in ToSet(toServer[g])
    \/ \E list \in ToSet(answer[g]) : UpToDate(list)
    \/ \E p \in ToSet(toGuest[g]) :
            p.kind = "ShadowGetListResponse" /\ UpToDate(p.list)
    \/ Coming(g, "NotifyUsersChanged")

\* No update is lost between a listing and the notification of what changed
\* since: a connected guest whose cache is out of date has something under way
\* that will bring it up to date, unless the channel dropped a notification
\* for it or the daemon lost a packet (run_daemon subscribes before it asks for
\* the list, add_user notifies before it lets anyone list).
UpdateOnTheWay ==
    \A g \in Guest :
        link[g] = "up" /\ ~lagged[g] /\ ~lost[g] /\ ~Synced(g) => OnTheWay(g)

\* A guest that listened when a mapping was made and that is still on the same
\* connection is about to flush its resolver, however the notification queues
\* behind others, unless the channel dropped it or the daemon lost a packet.
\* Only what a guest missed stays wrong: no one tells it again, not even when
\* it connects (run_daemon fetches the users, but does not flush).
FlushOnTheWay ==
    \A g \in Guest :
        dns[g] = "stale" /\ ~lagged[g] /\ ~lost[g] =>
            Coming(g, "NotifyDnsMappingsChanged")

\* Until the server is restarted, the cache of a guest never goes back to an
\* older list, although answers wait behind notifications and connections are
\* replaced (the answers of one connection are sent and read in order).
CacheNeverGoesBack ==
    [][\A g \in Guest :
          stops = 0 /\ cache[g] # <<>> /\ cache'[g] # <<>> =>
              IsPrefix(cache[g][1], cache'[g][1])]_cache

\* As long as the server is up, every guest comes to know all users that were
\* announced, and forgets those that a restart of the server has lost, unless
\* one of its notifications was dropped.  (A packet that the daemon lost is
\* excused too: GuestsLearnOfUsers shows what becomes of it.)
EventuallySynced ==
    \A g \in Guest : []<>(status # "up" \/ lagged[g] \/ lost[g] \/ Synced(g))

\* Every guest comes to know all users that were announced.
GuestsLearnOfUsers ==
    \A g \in Guest : []<>(status # "up" \/ Synced(g))

=============================================================================
