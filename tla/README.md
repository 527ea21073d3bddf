# A TLA+ model of LAPAS

LAPAS turns one machine into the netboot server of a LAN party.  Guests boot a
shared, read-only image from it; user homes are ext4 images on the server; a
small API server keeps the registered users, and a daemon on every guest keeps
a copy of them so that players can log in.  This directory holds the model of
the parts whose behaviour depends on concurrency, on failures and on the order
of events, the TLC configurations that check it, and proofs about it.

Paths below are relative to the repository.  "US", "NS", "GS" and "AS" stand
for `UserService`, `NotificationService`, `GuestSync` and `ApiServer`.

## 1. Inventory

| Part | State | Operations | Interacts with | Hard to get right |
|---|---|---|---|---|
| User registry: `api_services/user.rs`, `state.rs` | `UserIndex` in memory, file `USER_INDEX`, the mutex around the service | `add_user`, `passwd_all`, `shadow_all`, `new` | notifies through the notification service; file operations on tokio's thread pool | requests interleave at awaits; the write is not flushed; an error after the user was pushed; stops and restarts |
| Notification service: `notification.rs` | broadcast channel of capacity 1, one forwarder task per listener | `send`, `add`, `forward_notifications` | shares each connection's write half with the request handler | a receiver that lags; two writers of one socket; forwarders that outlive connections |
| Requests: `api_server.rs`, `api_services/mod.rs`, `state.rs` | one task per connection, `PeerTx` | handshake, authentication, request loop, `shutdown` | all services | error paths that have to end the loop; answers that are lost after the request took effect |
| DNS mappings: `dns.rs` | one host file per user, read by dnsmasq | `create_mapping` | notifies | two guests of the same user; a file left empty; stale caches |
| Wire protocol: `lapas_api_proto` | none | `encode`, `decode` | both ends | `decode` is not cancel safe |
| Guest daemon: `lapas_api_client/src/daemon.rs` | `UserCache`, the connection, the resolver's cache | `run_daemon`, `UserCache::get`/`set`, AuthServ socket | API server, NSS module | reconnection, missed events, answers that are already out of date |
| Client commands: `lapas_api_client/src/main.rs` | none | one request and its answer | API server | a connection that breaks after the request was handled, or falls silent |
| NSS module: `lapas_nss` | none | lookups through AuthServ | guest daemon | empty answers, 64-bit ids as 32-bit uids |
| `keepEngine` | decision graph of the `.keep` rules | `add_rule`, `get_action`, `traverse` | run by `mountHome.sh` and `initCleanHomeBase.sh` | precedence of rules, `**`, what is deleted when something fails |
| Home mounting: `mountHome.sh` | images, mounts, `.keepApplied` | log-in hook | keepEngine, DNS mappings | power loss between steps, two log-ins of one user, substring tests on the mount table |
| Hook helpers: `userdata.py`, `userdata.sh`, `tmpfolder.py` | links between bottles and user data, pid files | `setupSymlink`, `lock` | bottle managers | second boots, races on the lock |
| Home base cleanup: `initCleanHomeBase.sh` and its hooks | the shared home base | run at boot of the admin mode | keepEngine | a boot that is interrupted half-way |
| Bottle managers: `lapasUmuManager`, `lapasWineManager` | bottles and runners on disk | dialogs | hook helpers | little beyond the helpers |
| Installer and boot scripts | configuration, boot menus | run once or by hand | system tools | little to interleave |

What makes each part correct:

* registry: ids and names stay unique; nobody sees half a registration; a
  restart finds some earlier state and nothing else; every request is answered;
* notifications: packets are whole, in order, without gaps; nothing is sent to
  the dead for ever; everything due is sent in the end;
* requests: nothing is done for a client that failed the handshake or the
  authentication; success is reported once and truly; commands end;
* host files: they hold what was announced once nobody writes them;
* guests: a cache that is out of date has something under way that will mend
  it; it never goes back; in the end it knows all users;
* keepEngine: the last matching rule decides, and nothing else is deleted;
* homes: an image is formatted once and cleaned once a boot, before it is used;
  who is let in has a home;
* hook helpers: a link has its data behind it, user data survive any number of
  boots; one holder per lock.

## 2. Plan

| Module | Models | State |
|---|---|---|
| `UserRegistry`, `UserService`, `UserServiceProofs` | the registry, abstract and detailed | done, proved |
| `NotificationService`, `NotificationServiceProofs` | forwarders and connection writers | done, proved |
| `SequenceLemmas` | facts about prefixes and queues that proofs share | done, proved |
| `GuestSync`, `GuestSyncProofs` | registry, channel, connections and daemons composed | done, proved |
| `ApiServer`, `ApiServerProofs` | commands, request handling, host files | done, proved |
| `DecisionGraph`, `DecisionGraphProofs` | the rules of keepEngine as a graph | done, proved |
| `KeepEngine`, `KeepEngineProofs` | reading the rules and the traversal | done, proved |
| `Homes`, `HomesProofs` | log-in script and user data over several boots | done, proved |
| `TmpLock` | the pid file lock of `tmpfolder.py` | left |
| `HomeBase` | the cleanup of the base between its hooks | left |

How the modules compose.  `GuestSync` puts together the registry (through the
abstract `UserRegistry`, which `UserService` is proved to implement), the
channel, the connections (whole packets in order, which NS checks) and the
daemons.  `ApiServer` takes the addition of a user as one step, since US shows
that its inside is not seen, and a restart as one that may come back without
users, since US shows which it recovers; it leaves the long-lived connection of the daemon
to NS and GS.  `KeepEngine` extends `DecisionGraph`; `Homes` takes a run of
keepEngine as one step with the effect that the shipped `.keep` file has.

## 3. Modules

**UserRegistry** is what the user service promises: a list of users that grows
by one atomic registration at a time while the server is up.  A restart comes
back with a prefix of the list, or with the registration that was in progress
as well, or not at all.

**UserService** is the service itself.  A connection's `pc` says at which await
its task is suspended:

| `pc` | in the code |
|---|---|
| `idle` | `handle_client` waits for the next request |
| `lock` | waits for `State.user_service` |
| `create` | `File::create` in `write_user_index` |
| `write` | about to run `write_all` |
| `chmod` | `metadata` and `set_permissions` |

The runtime is single-threaded, so everything between two awaits is one action:
`PushUser` is `add_user` from the lock to `File::create`, `UserAdded` is the end
of `write_user_index`, `State::add_user` and the answer.  `mutex` is the FIFO
queue of tokio's mutex; the inner mutex of `UserService` is never contended
because the outer one is held.

tokio's `File` hands a write to a thread and returns; nothing flushes it and
`metadata` does not wait for it.  `writes` holds the indexes on their way;
`WriteLands` puts one into the file at any later time.  Writes start at offset
0 and an index with more users is longer, so a file is described by the index
written last (`head`) and the number of users of the longest since it was
truncated (`size`); it parses when they agree.  `Crash` loses `writes`;
`Restart` reads the file, `RestartFails` is the start that cannot parse it.
Password hashes and timestamps are left out.

**NotificationService** has per connection the task of `handle_client`
(`handler`), the forwarder, the mutex of `PeerTx` and the socket.  A packet is
two pieces on the wire.  `unread` and `lagged` are the receiver of the broadcast
channel: a notification beyond `Capacity` drops the oldest and marks the
receiver.  `due` and `forwarded` are history variables.  Requests before the
listener exists and requests that are refused are covered by `Respond` and
`HandlerEnds`.

**GuestSync** follows one list of users from the registry through channel,
forwarder, answers and socket to the cache of each daemon.  `LosePacket` is the
`select!` in `run_daemon` that drops a half-finished `decode`: what is left of
the packet is an error, which ends the connection, or is ignored, and then the
packet is `lost` (a rest of three bytes or less is dropped by the next sleep in
the same way).  A restart of the server may come back with fewer users, so a
list counts as `UpToDate` by what is in it: all users that were `announced`, and
none that the server does not know.  The daemon's arm for a listing that is an
error is left out, because `shadow_all` never returns one.  `BreakLink`,
`RestartDaemon` and `StopServer` are the faults.  A connection's server side is
dropped at once when the connection breaks; NS checks that it does end.
`dns` is the cache of the guest's resolver: a mapping makes it `stale` on a
guest that listens and `missed` on one that does not; `resolvectl` makes it
`fresh` or fails, which is only logged; whatever loses the notification turns
`stale` into `missed`, and connecting again does not flush.

**ApiServer** has one run of a command per client.  `pc` is where the command
is (`lapas_connect`, the request, or how it ended), `handler` is where
`handle_client` is with the connection; `lock`, `create`, `write` and `flush`
are the awaits of `create_user_host_mapping`, which holds the mutex `dns`.  A
client that is not `orderly` is a program of another make (`Stranger...`): it
sends handshakes and its request in any order and whatever it is answered, which
is what the error paths of the loop are for.
`HandleHandshake`, `HandleUnexpected`, `HandleIgnored`, `HandleRefused`,
`HandleQuery`, `HandleUserRegister` and `HandleUserDnsMapping` are the arms of
the handshake and of the request loop with the error paths of `handle_request!`;
`Respond` ends the loop when the answer cannot be sent.  A connection is reset
(`broken`: both ends get an error) or falls `silent` (what is sent is never
delivered, nobody is told).  The host file is `empty` from `File::create` on; a
thread writes the mapping (`LandHostFile`), `flush` waits for it, and only then
are the guests told (`AnnounceMapping`), so that a restart may come between any
two of these.  `torn` remembers the names for which a failure or a restart cut
this short, `mapped` what was announced last.  A restart may lose any users;
`forgotten` remembers them.

**DecisionGraph** is the graph of keepEngine with `add_rule` and `get_action`:
the shared nodes, the replacement of children with an equal pattern, the panics
on an index out of range.  Both descend, so both are functions of the height of
the nodes they work on (`TraverseAdd`, `NodeAction`): what they do on one level
is an operator (`AddedTo`, `Visited`) that is given the function one level down.
`get_action` writes into one result that is passed on from node to node, which
`InTurn` is.  `LastRule` is the reference: what the rules mean without a graph.
Regular expressions are a table from segment patterns to segments (`Glob`).

**KeepEngine** is one run of the program: lines become rules until the file
ends, then the traversal with its stack of directories, one entry per step.
Removing a file or a directory may fail and leave any part of it; opening a
directory, or asking what an entry is, may fail, which ends the traversal; an
error while a directory is iterated is dropped and the entry passed over
(`SkipEntry`); paths that are not UTF-8 panic.  `leftover` is what removals and
the iteration left behind.

**Homes** is one guest over several boots.  Every command of `mountHome.sh` is a
step of a session, with the errors that `assertSuccessfull` turns into a
rejected log-in, and those whose result it does not look at: `rm` and `touch` may
fail, and keepEngine may leave something out and still exit with 0.  An image is
a file without a file system (`blank`), a fresh file system (`ext4`) or one with
the folders of the overlay (`layers`).  Nothing is unmounted at log-out; `Grep`
is the search in the mount table for a piece of text.  `setupSymlink` is entered
by a game's hook, with the strategies Move, Empty and TplSrc step by step;
`SaveGame` writes through the link; `Boot` cuts off whatever runs and keeps the
disk.  `pending`
(the image was mounted, its old marker may still be there) and `missed` (the
cleanup of this boot was skipped for that marker, or left something out) are
history variables of one boot.  mkfs and its check that the image is not mounted
are one step.

## 4. Checks

| Run | Instance | Distinct states | Shows |
|---|---|---|---|
| `user_service` | 2 connections, 2 names, disk faults, 1 restart | about 145,000 | US is consistent, answers every request and implements UserRegistry |
| `user_not_persisted` | same, no restart | until violated | finding 1 |
| `user_unannounced` | same, no restart | until violated | finding 2 |
| `notifications` | 1 connection, capacity 1, 3 notifications, 3 requests, socket of 2 pieces | about 64,000 | packets whole, no gaps, forwarders end |
| `listener_silent` | same, smaller | until violated | finding 3 |
| `guest_sync` | 1 guest, 2 names, 1 mapping, 2 faults of the connection, 1 restart of the server | about 244,000 | guests come to hold the server's list and flush their resolvers |
| `guest_lags` | 1 guest, 1 name, 1 mapping, no faults | until violated | finding 4 |
| `keep_engine` | all files of up to 3 rules over 7 patterns, both modes, 2 folders of 3 levels | about 653,000 | the last rule decides, what is kept survives, what is to be deleted goes |
| `keep_engine_doublestar` | 3 rules, `a/**/b` | until violated | finding 5 |
| `homes` | 2 sessions, 2 users, strategies TplSrc and Empty, 3 boots | about 2,390,000 | no image with data formatted, homes mounted and cleaned before use, no dangling link |
| `homes_overwritten` | strategy Move, 2 boots | until violated | finding 6 |
| `api_server` | 2 clients, one user name, 10 kinds of command, 3 faults | about 123,000 | success once and truly, only for the authorised; host files settle; commands end |

Why the bounds are enough.

* US: two connections are what it takes for one request to run, another to wait
  and a write of the first to be late; two names give a registration that
  overtakes another, a duplicate name and a listing of two users.  After one
  restart the process is in the same situation as after the first start, with a
  file.
* NS: connections share nothing but the channel, whose receivers are independent
  of each other, so one is enough; three notifications fill the channel, make it
  drop one and leave one to come.
* GS: guests are independent as well; two users and a DNS mapping make the
  channel drop each kind, and two faults let a reconnection fail again.  With
  one mapping, a second mapping during the flush of the first is not in the run.
* AS: two commands race for one name or one host file; three faults let a
  command lose its answer, the server restart and a second command fail too.
  Names are independent of each other.  Both requests that change something come
  with and without the password and the right version, from a stranger as well.
* KeepEngine: three rules and the enforced fourth let a rule be overridden, be
  restored and share nodes with another; three levels have a directory inside
  one that is deleted.  `**` is only the last segment of a pattern, as in the
  shipped `.keep` file; what happens otherwise is finding 5.  `MaxLength` is
  the length of the longest pattern, which is the height of the graph.
* Homes: two sessions of one user or of two; bob's name is the start of
  bobby's, as the search in the mount table needs; three boots let a boot be
  cut short, the next clean up after it and a third start from the result.  A
  user starts one game at a time.

The counters that guards bound, each by a named constant, are `crashes`
(`MaxCrashes`), `sent` (`MaxSent`), `requests` (`MaxRequests`), `mappings`
(`MaxMappings`), `breaks` (`MaxBreaks`), `stops` (`MaxStops`), `faults`
(`MaxFaults`), `boots` (`MaxBoots`) and the number of rules (`MaxRules`).
`CHECK_DEADLOCK FALSE` in the passing runs: a server that could not be started
stays down, a peer that is gone sends nothing, a guest with nothing to learn
waits, a command or a keepEngine that ended does nothing more, and a last boot
leaves sessions with nothing to do.

Some properties excuse what the code really does, each by a history variable
that says exactly when it did.  `CleanedBeforeUse` leaves out the homes in
`missed`: the script removes the old marker only after it mounted the image, so
a log-in cut short in between, or a second one overtaking it, finds the marker
and skips the cleanup of this boot, as does one whose `rm` failed; and
keepEngine does not tell what it left out.  `SessionsHaveHomes` leaves out users
whose home another's was taken for: `grep` finds bob's path in the mount of
bobby's home, and bob is let in without his own.  `HostsSettled` leaves out
`torn` files, which nobody mends until the next mapping.  `SuccessIsOnce` leaves
out users that a restart has `forgotten`: finding 1 is why there can be any.
`DeletedPathsAreGone` leaves out what is `leftover`.  The properties of GS leave
out receivers that `lagged`, which is finding 4, and connections that `lost` a
packet: the daemon stays connected and does not ask again, so that
`GuestsLearnOfUsers` fails by this as well (`MCGuestSyncLag.cfg` with `SlowLink`
TRUE, `Capacity` 4 and `MaxBreaks` 1 shows it).

One state of `Homes` is worth knowing although no property is about it: a first
log-in cut short between truncate and mkfs leaves a `blank` image, which no
log-in formats or can mount, and locks the user out until someone deletes it
(`mountHome.sh:41-45`).

Each property of a passing run has a mutant, an operator that stands before the
definition it changes the way a plausible mistake would; the property fails
under it.

**Fairness.** A tokio task that can continue is polled (weak fairness of each
task's steps), the thread pool finishes what it was given (weak fairness of
`WriteLands` or `WriteFails`), and peers that are there read: a peer that stays
and does not read blocks the server's end of its own connection, and no property
is about that connection then.  In NS the forwarder also gets strong fairness
for taking a notification: a `sleep` that `select!` has just made is never ready
in the first poll, so pings cannot win for ever.  In GS a broken connection is
noticed in the end because the daemon sends a ping every second.  In AS commands
and handlers go on (weak fairness of `ClientStep` and `HandlerStep`), and weak
fairness is enough for the mutex: each of the finitely many commands takes it
once, and no stranger of the run has the password (in the code the mutex is
FIFO).  A command on a silent connection waits for ever, since the client sets
no time limit; `CommandsEnd` excuses those.  Nobody is obliged to register
users, to send requests or to start the server again, and every liveness
property of the passing runs of US, NS and GS excuses a server that is down.
Nothing is assumed fair in `KeepEngine` and `Homes`.

### Findings

1. `SuccessMeansPersisted`: "successfully created" is answered before the write
   has happened, and its error is dropped (`user.rs:55`).
2. `ChangesAnnounced`: a registration that fails at the file's creation or
   permissions has changed the list already; guests are not told (`user.rs:126`).
3. `KeepsSending`: the forwarder of a lagged receiver ends and takes the pings
   with it (`notification.rs:30`).
4. `GuestsLearnOfUsers`: two notifications in quick succession are enough for
   that, and the guest does not learn of the user (`notification.rs:14`).
5. `LastRuleDecides` with `**` before the last segment: the loop over how much
   `**` consumes counts the node's children instead of the path's segments, so
   `a/**/b` is not applied to what it matches (`decisiongraph.rs:119`).
6. `SavedDataSurvives`: `setupSymlink` is documented as a no-op when the target
   exists; with Move it overwrites what the game has saved once a cleanup has
   taken the link away (`userdata.py:30`, documented in line 98).

## 5. Proofs

### UserServiceProofs

For every set of connections, every set of names, any first id and any number
of restarts (assumptions: `FirstId` is a natural number, short names are names,
the fault constants have their types):

* `TypeCorrect`: `TypeOK` always holds;
* `Inductive`: `IInv` always holds;
* `IdentitiesAreUnique`, `PersistedStatesAreOld`, `ListingsAreSettled`: the
  three invariants of the run `user_service`;
* `Refinement`: US implements `UserRegistry`.

None of the three invariants is inductive: a file is consistent only because
the write that made it was, a listing is settled only because no one but the
holder of the mutex registers.  `IInv` therefore also says that every write on
its way and the head of the file, whether it parses or not, are consistent
prefixes of the index (`Persisted`); that a task in the middle of a
registration holds the mutex and has pushed a user (`Exclusive`); and that
listings are prefixes of what everyone sees (`Settled`) even while the server
is down.  The refinement maps the list to `Visible`: the index without its last
user while a registration is in progress.  `LastUser` shows that this last user
is what the abstract registration would append, from which the end of a
registration (`RegistryRegister`) and a restart in the middle of one
(`RegistryStart`) follow.

### ApiServerProofs

For every set of clients and names, any commands and any number of faults
(assumptions: a command is one of the four types with its fields, the values
for nobody, no file and an empty file are not clients, `MaxFaults` is a natural
number):

* `TypeCorrect`: one packet at most on a connection, none on one that is down,
  and the mutex of the host files is held by whoever is at them;
* `Inductive`: `IInv` always holds;
* `SuccessOnce`, `AuthorisedOnly`, `HostsAreSettled`: the three invariants of
  the run `api_server`, for orderly clients and strangers alike.

That success is told once is not inductive: the answer is on its way before the
command ends with it.  `IInv` counts a command as registering a name
(`Registers`) from the moment its positive answer is sent; `RegistersOnce` says
that its name is then taken and that no other command registers it.
`GrantedStep` shows that an answer becomes positive only in the handler that
serves the request, and for a registration only when the name was free; from
this and from the fact that a user is only ever moved to the forgotten ones
(`Stable`) the step follows.
`AuthorisedOnly` needs the same with `GrantedAreAuthorised`.  What a client may
conclude from a positive answer depends on which request it answers:
`Protocol` says what the two ends of a connection may be doing given what it
carries, so that the answer to the handshake is never taken for that of a
request.  `HostsSettled` holds only because the mutex keeps a second writer out:
`HostWritten` says what the one that holds it has left in the host file at each
of its awaits, truncated or its own mapping.

### NotificationServiceProofs

For every set of connections, every capacity of the channel and of the sockets
and any number of notifications and requests (assumptions: the two capacities
are positive, the two bounds are natural numbers):

* `TypeCorrect`: `TypeOK`, with it the bound of the channel;
* `Inductive`: `IInv` always holds;
* `PacketsAreWhole` and `NothingLeftOut`: the invariants `PacketsWhole` and
  `NoGaps` of the run `notifications`.

That packets are whole says nothing of what is written next.  `IInv` adds that a
task is in the queue for the mutex while it sends, and once (`Queued`), that a
packet is half written only by a holder that is sending it (`HalfWritten`), and
that the end of the wire is the tag of the holder's packet then, and the end of
a packet otherwise (`Boundary`), unless nothing can be written any more: a send
that fails leaves half a packet, and only because no other write can succeed
after it (`WireKept`) is it never followed by another packet.  That
nothing is left out needs the account of what is due (`Accounted`): while the
receiver has not lagged, what is due is what was forwarded, the notification
on its way (`Out`) and what is unread, in this order; once it has lagged, the
first two are a prefix of it, and nothing more is taken.

`SequenceLemmas` has what these proofs and those of the other modules use of
sequences: prefixes element by element, what joining and leaving a queue does to
its members, how concatenation splits.  It also has induction stated with sets in
place of predicates (over the natural numbers, up to a number, over sequences),
and that a function defined by primitive recursion satisfies its definition.

### GuestSyncProofs

For every set of guests and of names, any first id, any capacity of the channel
and any number of mappings, breaks and restarts (assumptions: the first id and
the bounds are natural numbers, the capacity is positive):

* `TypeCorrect`: `TypeOK`;
* `Inductive`: `IInv` always holds;
* `UpdatesComing`, `FlushesComing`, `CacheGrows`: the invariants
  `UpdateOnTheWay` and `FlushOnTheWay` and the action property
  `CacheNeverGoesBack` of the run `guest_sync`.

`UpdateOnTheWay` is not inductive: a guest that is up to date could still read
an old listing that is queued behind, with nothing after it.  `Informed` says
that there is no such thing: a request or a notification is on its way, or the
last listing that the guest has or will read is up to date (`Current`).  That
a listing which the server has just taken is up to date is `Serving`; that a
guest which does not listen yet has not asked yet either is `Greeting`, which
is where the order of the two requests in `run_daemon` is used; that nothing
of an old connection can turn up on a new one is `Idle`.  `CacheGrows` needs all
listings of a guest sorted by age, in the cache, in the packets it has not read
and in the answer the server is about to send (`Sorted`).  All of these compare lists by what is in them: that a
listing taken since the last notification has the announced users and no others
(`Good`) is what a restart that lost users would break, if anything taken before
it could still be read after it.

### HomesProofs

For every set of users, whatever their names, games and strategies, every set of
sessions and any number of boots (assumptions: every user's name starts with
itself, kinds and strategies are those of the code, the bound on boots is
positive):

* `TypeCorrect`: `TypeOK`, with it that only file systems are mounted and that
  a home has its two parts, although `Grep` confuses names;
* `Inductive`: `IInv` always holds;
* `HomesAreFound`, `CleanedFirst`, `LinksAlwaysResolve`, `DataIsKept`: the
  invariants `SessionsHaveHomes` and `LinksResolve` and the action properties
  `CleanedBeforeUse` and `ImagesKeepData` of the run `homes`.

`CleanedBeforeUse` needs to know what a session that is about to mount a home
has behind it (`Cleaned`), and why it may trust a marker: in a mounted image that
is not in use yet, the bottle is clean, or known not to be, or the marker may be
an old one (`Marked`), which whoever finds it records.  `LinksResolve` looks at one step only, so the hook
that is about to link must know that the target is there (`Linkable`), and that
no log-in of the same user empties it in between: who is in a hook is in a home
(`Playing`), whose image is mounted, and mkfs refuses that.  That hooks of one
user run one at a time (`OneHook`) and that they find what they move
(`Movable`) is what types need.  `DataIsKept` follows from `Kept`: an image
with user data is a file system, and while it is not mounted no log-in is on its
way to format it, since only an image that is missing is created.

`SavedDataSurvives` is not proved: finding 6 shows that it fails for the
strategy Move.

### DecisionGraphProofs

For any segments, any table `Glob` and any length of patterns (assumptions:
UTF-8 names are names, a segment pattern matches names only, `**` alone matches
every one, the longest pattern has at least one segment):

* `RuleRepresented`: a graph that stands for some rules stands for these and one
  more when the rule has been added;
* `GetActionFinds`: in such a graph `get_action` panics on paths that are not
  UTF-8 and on no other, finds the actions of the last rule that matches, and
  these actions hold for all that is below the path unless it says `descend`.

Both are about rules with a `**` at their end only (`Trailing`), as the shipped
`.keep` file has them; without this they are false, which is finding 5.

The graph stands for rules (`Represents`) when a search in it ends with the
actions of the last rule that matches, for every path.  `add_rule` keeps this
for three reasons, each a lemma about a search from some level on.  The children
that a last segment replaces, with all below them, concern only paths that the
new leaf matches, which comes last and decides them all (`ReplacedSearch`,
`AddedLast`).  A child appended without actions decides nothing (`GrownSearch`).
And a rule that goes down into all children with its first segment changes each
of them in the same way, and the last of them, after which nothing follows that
could decide otherwise, is among them (`ChangedSearch`): this is why the
comparison is with the last child only, and the mutant of `LastRuleDecides`
drops it.  `AddedSearch` puts them together by induction on the height.  For
`descend`, two paths one below the other are searched side by side: as long as
the search for the upper one has not said `descend`, both have found the same
(`SameBelow`, `BelowFromSearch`).

### KeepEngineProofs

For any names, folders, patterns, numbers of rules and failures (assumptions:
those of `DecisionGraph`; a folder holds the directory of each of its paths;
`.keep` is a segment pattern).  Without any condition on the rules:

* `ShapeHolds`: `ShapeInv` always holds;
* `TypeCorrect`: `TypeOK`.

Under the hypothesis `TrailingPatterns`, that rules have `**` at their end only:

* `Inductive`: `IInv` always holds;
* `LastRuleAlwaysDecides`, `DeletedAreGone`, `KeptAreKept`: the invariants
  `LastRuleDecides` and `DeletedPathsAreGone` and the action property
  `KeptPathsSurvive` of the run `keep_engine`.

`TypeOK` says that what a call of `traverse` still has to handle is there,
whatever was removed meanwhile.  This needs that the calls are on directories
one inside the other, each the entry that the call around it is handling
(`StackInv`), so that a removal below one entry takes nothing from another
(`NotBelow`); and since a path that could not be removed must not be lost track
of, that nothing is left over where something is still to be handled
(`LeftInv`).  With the rules, `GraphInv` carries what `DecisionGraphProofs`
shows from rule to rule.  `KeptAreKept` then follows where the traversal
removes: it removes a whole entry only if it does not descend, when nothing
below is kept (`NotEntered`), and a directory it has descended into only if
nothing is in it.  `DeletedAreGone` needs an account of what the traversal has
been through: below the directory of a call everything is settled or below an
entry still to be handled (`HandledInv`), and a call that reports its directory
as not empty has met a path that is kept (`EmptyInv`), so that a directory
is not removed only if it should stay or something in it was left over.

### What is only model-checked

Liveness (`RequestsAnswered`, `NotificationsForwarded`, `ForwardersEnd`,
`EventuallySynced`, `CommandsEnd`) is out of the prover's reach.  All other
properties of the passing runs are proved.  What keepEngine does with a `**`
before the last segment is not: there the code and its rules disagree, and TLC
shows how (finding 5).

## 6. Not modelled

* `tmpfolder.py`: a pid file lock around one scratch folder of a bottle.
  Planned; its race is listed as a hazard.
* The cleanup of the home base: one call of keepEngine in mode `base`, which
  `KeepEngine` covers, between two hooks, at the boot of the admin mode.
* The encoding of packets field by field, NSS and AuthServ: conversions and
  lookups without state of their own.  What NSS may be told is the cache of GS;
  that a uid is the lower half of an id is a hazard no property is about.
* `NotifyRootChanged`: the daemon handles it, but no code of this server sends
  it.
* Two guests that mount one image: the code neither prevents nor detects it, and
  what ext4 does then is undefined; `Homes` has one guest.
* The shell version of the user data helper, for the older wine manager.
* The installer, the boot scripts and the bottle managers: sequences of system
  commands or dialogs run by one person at a time.  Password hashing, logging
  and configuration parsing carry no property of interest.
