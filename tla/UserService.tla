---------------------------- MODULE UserService -----------------------------
(***************************************************************************)
(* The registry of users of the LAPAS API server: State and UserService    *)
(* (bin/lapas_api_server/src/state.rs, api_services/user.rs), with the     *)
(* file USER_INDEX it is persisted in.                                     *)
(*                                                                         *)
(* Every connection is a task of the single-threaded tokio runtime and     *)
(* handles one request at a time.  Tasks interleave at awaits only.  The   *)
(* mutex around the user service is held from the start of a request to    *)
(* its end, notification included, and is granted in FIFO order.           *)
(*                                                                         *)
(* File operations run on other threads.  write_user_index does not flush: *)
(* write_all returns when the data has been handed to a thread, so the     *)
(* write may land after the request was answered, after the truncation by  *)
(* the next request, after that request's own write, or, when the process  *)
(* stops or the disk refuses, not at all.                                  *)
(***************************************************************************)
EXTENDS Integers, FiniteSets, SequencesExt

CONSTANTS
    Conn,           \* connections to the server
    Name,           \* user names that requests may carry
    ShortName,      \* those of fewer than three bytes
    FirstId,        \* UserIndex::default().next_id
    DiskFaults,     \* whether file operations may fail
    MaxCrashes      \* bound on the number of times the server stops

ASSUME FirstIdAssumption == FirstId \in Nat
ASSUME NameAssumption == ShortName \subseteq Name
ASSUME FaultAssumption == DiskFaults \in BOOLEAN /\ MaxCrashes \in Nat

VARIABLES
    server,         \* "up", "down", or "failed": UserService::new returned Err
    index,          \* UserService.user_index
    file,           \* USER_INDEX: see File
    writes,         \* indexes handed to write_all that are not in the file yet
    mutex,          \* State.user_service: its holder, then those waiting
    pc,             \* where each connection's task is suspended
    req,            \* the request each connection handles
    listed,         \* the listing each connection was sent last
    acked,          \* names of the users whose registration was answered Ok
    announced,      \* number of users at the last NotifyUsersChanged
    crashes

vars == <<server, index, file, writes, mutex, pc, req, listed, acked,
          announced, crashes>>

-----------------------------------------------------------------------------
User == [id : Nat, name : Name]

UserIndex == [next_id : Nat, users : Seq(User)]

DefaultIndex == [next_id |-> FirstId, users |-> <<>>]

\* A request to register a user, or to list the users (passwd or shadow).
AddRequest == [op : {"add"}, name : Name, password : {"", "secret"}]
ListRequest == [op : {"list"}]
Request == AddRequest \union ListRequest

NoRequest == [op |-> "none"]

Names(users) == {users[i].name : i \in DOMAIN users}

\* Every write starts at offset 0 and an index with more users is longer, so
\* the file is described by the write that landed last since the file was
\* truncated (head) and by the longest one (size, in users).
File == [exists : BOOLEAN, head : UserIndex, size : Nat]

NoFile == [exists |-> FALSE, head |-> DefaultIndex, size |-> 0]
EmptyFile == [exists |-> TRUE, head |-> DefaultIndex, size |-> 0]

Overwrite(f, ix) ==
    [exists |-> TRUE,
     head   |-> ix,
     size   |-> IF Len(ix.users) > f.size THEN Len(ix.users) ELSE f.size]

\* serde_json refuses an empty file, and a shorter index followed by the tail
\* of a longer one.
Parses(f) == f.size > 0 /\ f.size = Len(f.head.users)

Readable(f) == f.exists => Parses(f)

\* read_user_index of a readable file.
ReadIndex(f) == IF f.exists THEN f.head ELSE DefaultIndex

-----------------------------------------------------------------------------
Init ==
    /\ server = "up"
    /\ index = DefaultIndex
    /\ file = NoFile
    /\ writes = {}
    /\ mutex = <<>>
    /\ pc = [c \in Conn |-> "idle"]
    /\ req = [c \in Conn |-> NoRequest]
    /\ listed = [c \in Conn |-> <<>>]
    /\ acked = {}
    /\ announced = 0
    /\ crashes = 0

\* The task of c holds the mutex and continues from await point p.
Holds(c, p) ==
    /\ server = "up"
    /\ mutex # <<>>
    /\ Head(mutex) = c
    /\ pc[c] = p

\* The request of c is answered, which releases the mutex.
Done(c) ==
    /\ mutex' = Tail(mutex)
    /\ pc' = [pc EXCEPT ![c] = "idle"]
    /\ req' = [req EXCEPT ![c] = NoRequest]

\* A request arrives and its task queues for the mutex.
Receive(c, r) ==
    /\ server = "up"
    /\ pc[c] = "idle"
    /\ req' = [req EXCEPT ![c] = r]
    /\ mutex' = Append(mutex, c)
    /\ pc' = [pc EXCEPT ![c] = "lock"]
    /\ UNCHANGED <<server, index, file, writes, listed, acked, announced, crashes>>

\* Mutant: the name is not looked up.
ValidRequestUnchecked(r) == r.name \notin ShortName /\ r.password # ""

ValidRequest(r) ==
    /\ r.name \notin ShortName
    /\ r.name \notin Names(index.users)
    /\ r.password # ""

\* add_user fails its validation: Err, nothing changed.
RejectUser(c) ==
    /\ Holds(c, "lock")
    /\ req[c].op = "add"
    /\ ~ValidRequest(req[c])
    /\ Done(c)
    /\ UNCHANGED <<server, index, file, writes, listed, acked, announced, crashes>>

\* Mutant: next_id is not incremented.
PushUserSameId(c) ==
    /\ Holds(c, "lock")
    /\ req[c].op = "add"
    /\ ValidRequest(req[c])
    /\ index' = [index EXCEPT !.users =
                    Append(@, [id |-> index.next_id, name |-> req[c].name])]
    /\ pc' = [pc EXCEPT ![c] = "create"]
    /\ UNCHANGED <<server, file, writes, mutex, req, listed, acked, announced, crashes>>

\* add_user up to the await of File::create: the index in memory has the user.
PushUser(c) ==
    /\ Holds(c, "lock")
    /\ req[c].op = "add"
    /\ ValidRequest(req[c])
    /\ index' = [next_id |-> index.next_id + 1,
                 users   |-> Append(index.users,
                                    [id |-> index.next_id, name |-> req[c].name])]
    /\ pc' = [pc EXCEPT ![c] = "create"]
    /\ UNCHANGED <<server, file, writes, mutex, req, listed, acked, announced, crashes>>

\* File::create truncates the file on its thread.
CreateFile(c) ==
    /\ Holds(c, "create")
    /\ file' = EmptyFile
    /\ pc' = [pc EXCEPT ![c] = "write"]
    /\ UNCHANGED <<server, index, writes, mutex, req, listed, acked, announced, crashes>>

\* Mutant: an await is added that nothing continues.
SubmitWriteFlush(c) ==
    /\ Holds(c, "write")
    /\ writes' = writes \union {index}
    /\ pc' = [pc EXCEPT ![c] = "flush"]
    /\ UNCHANGED <<server, index, file, mutex, req, listed, acked, announced, crashes>>

\* The task hands the serialised index to a thread and awaits the metadata.
SubmitWrite(c) ==
    /\ Holds(c, "write")
    /\ writes' = writes \union {index}
    /\ pc' = [pc EXCEPT ![c] = "chmod"]
    /\ UNCHANGED <<server, index, file, mutex, req, listed, acked, announced, crashes>>

\* Permissions are set: add_user returns Ok, the guests are notified.
UserAdded(c) ==
    /\ Holds(c, "chmod")
    /\ acked' = acked \union {req[c].name}
    /\ announced' = Len(index.users)
    /\ Done(c)
    /\ UNCHANGED <<server, index, file, writes, listed, crashes>>

\* Mutant: the user is taken out of memory again.
AddFailsRollback(c) ==
    /\ DiskFaults
    /\ Holds(c, "create") \/ Holds(c, "chmod")
    /\ index' = [next_id |-> index.next_id - 1, users |-> Front(index.users)]
    /\ Done(c)
    /\ UNCHANGED <<server, file, writes, listed, acked, announced, crashes>>

\* Mutant: the error path keeps the mutex.
AddFailsLocked(c) ==
    /\ DiskFaults
    /\ Holds(c, "create") \/ Holds(c, "chmod")
    /\ pc' = [pc EXCEPT ![c] = "idle"]
    /\ req' = [req EXCEPT ![c] = NoRequest]
    /\ UNCHANGED <<server, index, file, writes, mutex, listed, acked, announced, crashes>>

\* File::create, metadata or set_permissions fails: Err, no notification, but
\* the index in memory keeps the user.
AddFails(c) ==
    /\ DiskFaults
    /\ Holds(c, "create") \/ Holds(c, "chmod")
    /\ Done(c)
    /\ UNCHANGED <<server, index, file, writes, listed, acked, announced, crashes>>

\* Mutant: listings do not wait for the mutex.
ListUsersUnlocked(c) ==
    /\ server = "up"
    /\ pc[c] = "lock"
    /\ req[c].op = "list"
    /\ listed' = [listed EXCEPT ![c] = index.users]
    /\ mutex' = SelectSeq(mutex, LAMBDA d : d # c)
    /\ pc' = [pc EXCEPT ![c] = "idle"]
    /\ req' = [req EXCEPT ![c] = NoRequest]
    /\ UNCHANGED <<server, index, file, writes, acked, announced, crashes>>

\* passwd_all and shadow_all: no await while the mutex is held.
ListUsers(c) ==
    /\ Holds(c, "lock")
    /\ req[c].op = "list"
    /\ listed' = [listed EXCEPT ![c] = index.users]
    /\ Done(c)
    /\ UNCHANGED <<server, index, file, writes, acked, announced, crashes>>

\* A write reaches the file, whoever truncated or wrote it in the meantime.
WriteLands(w) ==
    /\ server = "up"
    /\ file' = Overwrite(file, w)
    /\ writes' = writes \ {w}
    /\ UNCHANGED <<server, index, mutex, pc, req, listed, acked, announced, crashes>>

\* A write fails; its error is dropped with the file handle.
WriteFails(w) ==
    /\ DiskFaults
    /\ server = "up"
    /\ writes' = writes \ {w}
    /\ UNCHANGED <<server, index, file, mutex, pc, req, listed, acked, announced, crashes>>

\* The process stops; the file stays.  What is left in the memory variables
\* is read by nothing but the refinement mapping until Restart resets it.
Crash ==
    /\ server = "up"
    /\ crashes < MaxCrashes
    /\ server' = "down"
    /\ writes' = {}
    /\ crashes' = crashes + 1
    /\ UNCHANGED <<index, file, mutex, pc, req, listed, acked, announced>>

\* State::init reads the file.
Restart ==
    /\ server = "down"
    /\ Readable(file)
    /\ server' = "up"
    /\ index' = ReadIndex(file)
    /\ mutex' = <<>>
    /\ pc' = [c \in Conn |-> "idle"]
    /\ req' = [c \in Conn |-> NoRequest]
    /\ listed' = [c \in Conn |-> <<>>]
    /\ announced' = Len(ReadIndex(file).users)
    /\ UNCHANGED <<file, writes, acked, crashes>>

\* The file does not parse: main returns the error.
RestartFails ==
    /\ server = "down"
    /\ ~Readable(file)
    /\ server' = "failed"
    /\ UNCHANGED <<index, file, writes, mutex, pc, req, listed, acked, announced, crashes>>

Step(c) ==
    \/ RejectUser(c)
    \/ PushUser(c)
    \/ CreateFile(c)
    \/ SubmitWrite(c)
    \/ UserAdded(c)
    \/ AddFails(c)
    \/ ListUsers(c)

Next ==
    \/ \E c \in Conn, r \in Request : Receive(c, r)
    \/ \E c \in Conn : Step(c)
    \/ \E w \in writes : WriteLands(w) \/ WriteFails(w)
    \/ Crash
    \/ Restart
    \/ RestartFails

Spec == Init /\ [][Next]_vars

\* The runtime polls every task that can continue, and the threads of its
\* pool finish the file operations they were given, one way or the other.
FairSpec ==
    /\ Spec
    /\ \A c \in Conn : WF_vars(Step(c))
    /\ WF_vars(\E w \in writes : WriteLands(w) \/ WriteFails(w))

-----------------------------------------------------------------------------
(* Properties.                                                             *)

\* A registration of c is in progress.
Busy(c) == pc[c] \in {"create", "write", "chmod"}

TypeOK ==
    /\ server \in {"up", "down", "failed"}
    /\ index \in UserIndex
    /\ file \in File
    /\ writes \subseteq UserIndex
    /\ mutex \in Seq(Conn)
    /\ pc \in [Conn -> {"idle", "lock", "create", "write", "chmod"}]
    /\ req \in [Conn -> Request \union {NoRequest}]
    /\ \A c \in Conn : Busy(c) => req[c] \in AddRequest
    /\ listed \in [Conn -> Seq(User)]
    /\ acked \subseteq Name
    /\ announced \in Nat
    /\ crashes \in Nat

Consistent(ix) ==
    /\ ix.next_id = FirstId + Len(ix.users)
    /\ \A i \in DOMAIN ix.users : ix.users[i].id = FirstId + i - 1
    /\ \A i, j \in DOMAIN ix.users : ix.users[i].name = ix.users[j].name => i = j

\* No two users ever share an id or a name, in memory or in a file that a
\* restart would accept, however requests, file operations and restarts
\* interleave: the home image of a user is found by name and its files are
\* owned by id (add_user, user.rs:96-132).
IdentitiesUnique ==
    /\ Consistent(index)
    /\ Readable(file) => Consistent(ReadIndex(file))

\* Whatever is in the file or on its way there was in memory first and in the
\* same order, so late and overtaken writes can lose the newest users or spoil
\* the file, but a restart never sees a user the server did not register or
\* gives an id two meanings within one run of the server (write_user_index).
PersistedIsPrefix ==
    server = "up" =>
        /\ \A w \in writes : IsPrefix(w.users, index.users)
        /\ file.exists => IsPrefix(file.head.users, index.users)

\* Users that requests other than the one in progress can see.
Visible == IF \E c \in Conn : Busy(c) THEN Front(index.users) ELSE index.users

\* No listing shows a user whose registration is still in progress, and
\* listings never go back within one run of the server (passwd_all and
\* shadow_all take the mutex that add_user holds across its awaits).
ListingsSettled ==
    server = "up" => \A c \in Conn : IsPrefix(listed[c], Visible)

\* A user whose registration was answered Ok is in what a restart would read,
\* as soon as nothing is in progress any more.
SuccessMeansPersisted ==
    server = "up" /\ mutex = <<>> /\ writes = {} /\ acked # {} =>
        Readable(file) /\ acked \subseteq Names(ReadIndex(file).users)

\* Every change of the user list has been announced to the guests by the time
\* the mutex is free.
ChangesAnnounced ==
    server = "up" /\ mutex = <<>> => announced = Len(index.users)

\* Every request is answered while the server runs: no path through a request
\* keeps the mutex, and
\* the queue for it lets no one be overtaken for ever.
RequestsAnswered ==
    \A c \in Conn : pc[c] = "lock" ~> (pc[c] = "idle" \/ server # "up")

\* The registry the guests rely on.
Registry == INSTANCE UserRegistry WITH status <- server, users <- Visible

ImplementsRegistry == Registry!Spec

=============================================================================
