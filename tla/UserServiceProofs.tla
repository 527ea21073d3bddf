------------------------- MODULE UserServiceProofs --------------------------
(***************************************************************************)
(* Proofs about UserService, for any set of connections, any names and any *)
(* number of restarts.                                                     *)
(***************************************************************************)
EXTENDS UserService, SequenceLemmas, TLAPS

-----------------------------------------------------------------------------
(* Type correctness.                                                       *)

\* The constant records.
LEMMA Constants ==
    /\ DefaultIndex \in UserIndex
    /\ NoFile \in File
    /\ EmptyFile \in File
<1>1. <<>> \in Seq(User)
  OBVIOUS
<1>2. DefaultIndex \in UserIndex
  BY <1>1, FirstIdAssumption DEF DefaultIndex, UserIndex
<1> QED
  BY <1>2 DEF NoFile, EmptyFile, File

\* A request to add a user is one.
LEMMA AddRequests ==
    ASSUME NEW r \in Request \union {NoRequest}, r.op = "add"
    PROVE  r \in AddRequest /\ r.name \in Name
<1>1. r \notin ListRequest /\ r # NoRequest
  BY DEF ListRequest, NoRequest
<1> QED
  BY <1>1 DEF Request, AddRequest

\* A write leaves a file.
LEMMA OverwriteType ==
    ASSUME NEW f \in File, NEW ix \in UserIndex
    PROVE  Overwrite(f, ix) \in File
BY DEF Overwrite, File, UserIndex

\* The initial state is well typed.
LEMMA TypeInit == Init => TypeOK
BY Constants DEF Init, TypeOK, Busy

\* A request that is answered leaves a well-typed queue.
LEMMA DoneType ==
    ASSUME TypeOK, NEW c \in Conn, NEW p, Holds(c, p), Done(c)
    PROVE  /\ mutex' \in Seq(Conn)
           /\ pc' \in [Conn -> {"idle", "lock", "create", "write", "chmod"}]
           /\ req' \in [Conn -> Request \union {NoRequest}]
           /\ \A d \in Conn : Busy(d)' => req'[d] \in AddRequest
BY DEF TypeOK, Holds, Done, Busy

\* Every step keeps the variables well typed.
LEMMA TypeNext == TypeOK /\ [Next]_vars => TypeOK'
<1> SUFFICES ASSUME TypeOK, [Next]_vars PROVE TypeOK'
  OBVIOUS
<1>1. ASSUME NEW c \in Conn, NEW r \in Request, Receive(c, r) PROVE TypeOK'
  BY <1>1 DEF TypeOK, Receive, Busy
<1>2. ASSUME NEW c \in Conn, RejectUser(c) PROVE TypeOK'
  BY <1>2, DoneType DEF TypeOK, RejectUser
<1>3. ASSUME NEW c \in Conn, PushUser(c) PROVE TypeOK'
  <2>1. req[c] \in AddRequest /\ req[c].name \in Name
    BY <1>3, AddRequests DEF TypeOK, PushUser
  <2>2. [id |-> index.next_id, name |-> req[c].name] \in User
    BY <2>1 DEF TypeOK, UserIndex, User
  <2>3. index' \in UserIndex
    BY <1>3, <2>2 DEF TypeOK, PushUser, UserIndex
  <2> QED
    BY <1>3, <2>1, <2>3 DEF TypeOK, PushUser, Busy
<1>4. ASSUME NEW c \in Conn, CreateFile(c) PROVE TypeOK'
  BY <1>4, Constants DEF TypeOK, CreateFile, Holds, Busy
<1>5. ASSUME NEW c \in Conn, SubmitWrite(c) PROVE TypeOK'
  BY <1>5 DEF TypeOK, SubmitWrite, Holds, Busy
<1>6. ASSUME NEW c \in Conn, UserAdded(c) PROVE TypeOK'
  <2>1. req[c].name \in Name
    BY <1>6 DEF TypeOK, UserAdded, Holds, Busy, AddRequest
  <2> QED
    BY <1>6, <2>1, DoneType DEF TypeOK, UserAdded, UserIndex
<1>7. ASSUME NEW c \in Conn, AddFails(c) PROVE TypeOK'
  BY <1>7, DoneType DEF TypeOK, AddFails
<1>8. ASSUME NEW c \in Conn, ListUsers(c) PROVE TypeOK'
  BY <1>8, DoneType DEF TypeOK, ListUsers, UserIndex
<1>9. ASSUME NEW w \in writes, WriteLands(w) PROVE TypeOK'
  BY <1>9, OverwriteType DEF TypeOK, WriteLands, Busy
<1>10. ASSUME NEW w \in writes, WriteFails(w) PROVE TypeOK'
  BY <1>10 DEF TypeOK, WriteFails, Busy
<1>11. CASE Crash
  BY <1>11 DEF TypeOK, Crash, Busy
<1>12. CASE Restart
  <2>1. ReadIndex(file) \in UserIndex
    BY Constants DEF TypeOK, ReadIndex, File
  <2> QED
    BY <1>12, <2>1 DEF TypeOK, Restart, UserIndex, Busy
<1>13. CASE RestartFails
  BY <1>13 DEF TypeOK, RestartFails, Busy
<1>14. CASE UNCHANGED vars
  BY <1>14 DEF TypeOK, vars, Busy
<1> QED
  BY <1>1, <1>2, <1>3, <1>4, <1>5, <1>6, <1>7, <1>8, <1>9, <1>10, <1>11, <1>12,
     <1>13, <1>14 DEF Next, Step

\* Every variable keeps its type.
THEOREM TypeCorrect == Spec => []TypeOK
BY TypeInit, TypeNext, PTL DEF Spec

-----------------------------------------------------------------------------
(* The inductive invariant.                                                *)

\* What is in the file or on its way there was in memory, and is consistent.
Persisted ==
    /\ \A w \in writes : Consistent(w) /\ IsPrefix(w.users, index.users)
    /\ Consistent(file.head) /\ IsPrefix(file.head.users, index.users)
    /\ ~file.exists => file.head = DefaultIndex
    /\ server # "up" => writes = {}

\* Only the holder of the mutex adds a user, and it has added one.
Exclusive ==
    \A c \in Conn : Busy(c) =>
        /\ mutex # <<>>
        /\ Head(mutex) = c
        /\ index.users # <<>>

Settled == \A c \in Conn : IsPrefix(listed[c], Visible)

IInv ==
    /\ TypeOK
    /\ Consistent(index)
    /\ Persisted
    /\ Exclusive
    /\ Settled

\* UserIndex::default is consistent.
LEMMA DefaultConsistent == Consistent(DefaultIndex)
BY FirstIdAssumption DEF Consistent, DefaultIndex

\* A fresh name keeps the index consistent.
LEMMA ConsistentPush ==
    ASSUME NEW ix \in UserIndex, Consistent(ix),
           NEW n \in Name \ Names(ix.users)
    PROVE  Consistent([next_id |-> ix.next_id + 1,
                       users |-> Append(ix.users, [id |-> ix.next_id, name |-> n])])
<1> DEFINE e == [id |-> ix.next_id, name |-> n]
           s == Append(ix.users, e)
<1>1. e \in User /\ ix.users \in Seq(User) /\ ix.next_id \in Nat
  BY DEF UserIndex, User
<1>2. /\ Len(s) = Len(ix.users) + 1
      /\ DOMAIN s = 1..Len(s)
      /\ DOMAIN ix.users = 1..Len(ix.users)
      /\ s[Len(s)] = e
      /\ \A i \in 1..Len(ix.users) : s[i] = ix.users[i]
  BY <1>1
<1>3. ix.next_id = FirstId + Len(ix.users)
  BY DEF Consistent
<1>4. \A i \in 1..Len(s) : i \in 1..Len(ix.users) \/ i = Len(s)
  BY <1>1, <1>2
<1>5. e.id = ix.next_id /\ e.name = n
  OBVIOUS
<1>6. \A i \in 1..Len(ix.users) : ix.users[i].name # n
  BY <1>2 DEF Names
<1> HIDE DEF e, s
<1>7. ASSUME NEW i \in DOMAIN s PROVE s[i].id = FirstId + i - 1
  <2>1. CASE i \in 1..Len(ix.users)
    BY <1>2, <2>1 DEF Consistent
  <2>2. CASE i = Len(s)
    <3>1. Len(ix.users) \in Nat /\ FirstId \in Nat
      BY <1>1, FirstIdAssumption
    <3>2. s[i].id = FirstId + Len(ix.users)
      BY <1>2, <1>3, <1>5, <2>2
    <3> QED
      BY <1>2, <2>2, <3>1, <3>2
  <2> QED
    BY <1>2, <1>4, <2>1, <2>2
<1>8. \A i, j \in DOMAIN s : s[i].name = s[j].name => i = j
  BY <1>2, <1>4, <1>5, <1>6 DEF Consistent
<1>9. ix.next_id + 1 = FirstId + Len(s)
  BY <1>1, <1>2, <1>3, FirstIdAssumption
<1> QED
  BY <1>7, <1>8, <1>9 DEF Consistent, e, s

\* The invariant holds when the server starts with no USER_INDEX.
LEMMA InvInit == Init => IInv
<1> SUFFICES ASSUME Init PROVE IInv
  OBVIOUS
<1>1. TypeOK
  BY TypeInit
<1>2. Consistent(index) /\ index.users = <<>> /\ file.head = DefaultIndex
  BY DefaultConsistent DEF Init, DefaultIndex, NoFile
<1>3. IsPrefix(<<>>, index.users)
  BY <1>1, PrefixReflexive DEF TypeOK, UserIndex
<1>4. Persisted
  BY <1>2, <1>3, DefaultConsistent DEF Init, Persisted, DefaultIndex, NoFile
<1>5. Exclusive /\ Visible = index.users
  BY DEF Init, Exclusive, Visible, Busy
<1>6. Settled
  BY <1>3, <1>5 DEF Init, Settled
<1> QED
  BY <1>1, <1>2, <1>4, <1>5, <1>6 DEF IInv

\* Steps that add no user keep what is persisted, if they write nothing new.
LEMMA PersistedStays ==
    ASSUME Persisted, index' = index, writes' \subseteq writes, file' = file,
           server' = server \/ writes' = {}
    PROVE  Persisted'
BY DEF Persisted

\* Nobody is in the middle of a registration while c waits for the mutex and
\* gets it; only c is while it has it.
LEMMA OneBusy ==
    ASSUME Exclusive, NEW c \in Conn, NEW p, Holds(c, p)
    PROVE  \A d \in Conn : Busy(d) => d = c
BY DEF Exclusive, Holds

\* A finished request leaves no one in the middle of a registration.
LEMMA NoneBusy ==
    ASSUME TypeOK, Exclusive, NEW c \in Conn, NEW p, Holds(c, p), Done(c)
    PROVE  \A d \in Conn : ~Busy(d)'
<1>1. pc'[c] = "idle" /\ \A d \in Conn \ {c} : pc'[d] = pc[d]
  BY DEF TypeOK, Done
<1> QED
  BY <1>1, OneBusy DEF Busy

\* What everyone sees is the index, or the index without its newest user.
LEMMA VisibleType ==
    ASSUME TypeOK, Exclusive
    PROVE  /\ Visible \in Seq(User)
           /\ IsPrefix(Visible, index.users)
<1>1. index.users \in Seq(User)
  BY DEF TypeOK, UserIndex
<1>2. CASE \E c \in Conn : Busy(c)
  BY <1>1, <1>2, FrontProperties DEF Visible, Exclusive
<1>3. CASE ~\E c \in Conn : Busy(c)
  BY <1>1, <1>3, PrefixReflexive DEF Visible
<1> QED
  BY <1>2, <1>3

\* An answered request other than a listing settles what everyone sees.
LEMMA DoneInv ==
    ASSUME IInv, TypeOK', NEW c \in Conn, NEW p, Holds(c, p), Done(c),
           UNCHANGED <<server, index, file, writes>>,
           \A d \in Conn : listed'[d] = listed[d] \/ listed'[d] = Visible'
    PROVE  IInv'
<1>1. \A d \in Conn : ~Busy(d)'
  BY NoneBusy DEF IInv
<1>2. Exclusive'
  BY <1>1 DEF Exclusive
<1>3. Persisted'
  BY PersistedStays DEF IInv
<1>4. Visible' = index.users
  BY <1>1 DEF Visible
<1>5. Settled'
  <2> SUFFICES ASSUME NEW d \in Conn PROVE IsPrefix(listed'[d], index.users)
    BY <1>4 DEF Settled
  <2>1. /\ listed[d] \in Seq(User) /\ index.users \in Seq(User)
        /\ Visible \in Seq(User) /\ IsPrefix(Visible, index.users)
        /\ IsPrefix(listed[d], Visible)
    BY VisibleType DEF IInv, TypeOK, UserIndex, Settled
  <2>2. IsPrefix(listed[d], index.users) /\ IsPrefix(index.users, index.users)
    BY <2>1, PrefixTransitive, PrefixReflexive
  <2> QED
    BY <1>4, <2>2
<1> QED
  BY <1>2, <1>3, <1>5 DEF IInv

\* A step that leaves the index and the set of registrations in progress alone
\* leaves what everyone sees alone.
LEMMA VisibleStays ==
    ASSUME index' = index, \A d \in Conn : Busy(d)' <=> Busy(d)
    PROVE  Visible' = Visible
BY DEF Visible

\* Every step keeps the invariant.
LEMMA InvNext == IInv /\ [Next]_vars => IInv'
<1> SUFFICES ASSUME IInv, [Next]_vars PROVE IInv'
  OBVIOUS
<1> USE DEF IInv
<1>0. TypeOK /\ TypeOK'
  BY TypeNext
<1>1. ASSUME NEW c \in Conn, NEW r \in Request, Receive(c, r) PROVE IInv'
  <2>1. \A d \in Conn : Busy(d)' <=> Busy(d)
    BY <1>0, <1>1 DEF Receive, Busy, TypeOK
  <2>2. Exclusive'
    <3> SUFFICES ASSUME NEW d \in Conn, Busy(d)
                 PROVE  mutex' # <<>> /\ Head(mutex') = d /\ index'.users # <<>>
      BY <2>1 DEF Exclusive
    <3>1. mutex # <<>> /\ Head(mutex) = d /\ index.users # <<>> /\ mutex \in Seq(Conn)
      BY <1>0 DEF Exclusive, TypeOK
    <3> QED
      BY <1>1, <3>1 DEF Receive
  <2>3. Persisted'
    BY <1>0, <1>1, PersistedStays DEF Receive
  <2>4. Settled'
    BY <1>1, <2>1, VisibleStays DEF Settled, Receive
  <2> QED
    BY <1>0, <1>1, <2>2, <2>3, <2>4 DEF Receive
<1>2. ASSUME NEW c \in Conn, RejectUser(c) PROVE IInv'
  BY <1>0, <1>2, DoneInv DEF RejectUser
<1>3. ASSUME NEW c \in Conn, PushUser(c) PROVE IInv'
  <2> DEFINE e == [id |-> index.next_id, name |-> req[c].name]
  <2>1. req[c].name \in Name \ Names(index.users)
    BY <1>0, <1>3, AddRequests DEF PushUser, ValidRequest, TypeOK
  <2>2. e \in User /\ index \in UserIndex /\ index.users \in Seq(User)
    BY <1>0, <2>1 DEF TypeOK, UserIndex, User
  <2>3. index'.users = Append(index.users, e) /\ index'.users # <<>>
    BY <1>3, <2>2 DEF PushUser
  <2>4. Consistent(index')
    BY <1>3, <2>1, <2>2, ConsistentPush DEF PushUser
  <2>5. \A d \in Conn : Busy(d) => d = c
    BY <1>3, OneBusy DEF PushUser
  <2>6. ~Busy(c) /\ Busy(c)' /\ \A d \in Conn \ {c} : ~Busy(d)'
    BY <1>0, <1>3, <2>5 DEF PushUser, Holds, Busy, TypeOK
  <2>7. Exclusive'
    BY <1>3, <2>3, <2>6 DEF Exclusive, PushUser, Holds
  <2>8. Visible = index.users /\ Visible' = Visible
    <3>1. Busy(c)' /\ \A d \in Conn : ~Busy(d)
      BY <2>5, <2>6
    <3>2. Visible = index.users /\ Visible' = Front(index'.users)
      BY <3>1 DEF Visible
    <3>3. \A x \in User : Front(Append(index.users, x)) = index.users
      BY <2>2, FrontProperties
    <3> QED
      BY <2>2, <2>3, <3>2, <3>3
  <2>9. Settled'
    BY <1>3, <2>8 DEF Settled, PushUser
  <2>10. ASSUME NEW w \in writes' PROVE IsPrefix(w.users, index'.users) /\ Consistent(w)
    <3>1. w \in writes /\ w.users \in Seq(User)
      BY <1>0, <1>3 DEF PushUser, TypeOK, UserIndex
    <3> QED
      BY <2>2, <2>3, <3>1, PrefixAppend DEF Persisted
  <2>11. IsPrefix(file'.head.users, index'.users) /\ Consistent(file'.head)
    <3>1. file' = file /\ file.head.users \in Seq(User)
      BY <1>0, <1>3 DEF PushUser, TypeOK, File, UserIndex
    <3> QED
      BY <2>2, <2>3, <3>1, PrefixAppend DEF Persisted
  <2>12. Persisted'
    BY <1>3, <2>10, <2>11 DEF Persisted, PushUser
  <2> QED
    BY <1>0, <2>4, <2>7, <2>9, <2>12
<1>4. ASSUME NEW c \in Conn, CreateFile(c) PROVE IInv'
  <2>1. \A d \in Conn : Busy(d)' <=> Busy(d)
    BY <1>0, <1>4 DEF CreateFile, Holds, Busy, TypeOK
  <2>2. Exclusive' /\ Settled'
    BY <1>4, <2>1, VisibleStays DEF Exclusive, Settled, CreateFile
  <2>3. file'.head = DefaultIndex /\ DefaultIndex.users = <<>>
    BY <1>4 DEF CreateFile, EmptyFile, DefaultIndex
  <2>4. IsPrefix(<<>>, index.users)
    BY <1>0, PrefixReflexive DEF TypeOK, UserIndex
  <2>5. Persisted'
    BY <1>4, <2>3, <2>4, DefaultConsistent DEF Persisted, CreateFile, EmptyFile
  <2> QED
    BY <1>0, <1>4, <2>2, <2>5 DEF CreateFile
<1>5. ASSUME NEW c \in Conn, SubmitWrite(c) PROVE IInv'
  <2>1. \A d \in Conn : Busy(d)' <=> Busy(d)
    BY <1>0, <1>5 DEF SubmitWrite, Holds, Busy, TypeOK
  <2>2. Exclusive' /\ Settled'
    BY <1>5, <2>1, VisibleStays DEF Exclusive, Settled, SubmitWrite
  <2>3. IsPrefix(index.users, index.users)
    BY <1>0, PrefixReflexive DEF TypeOK, UserIndex
  <2>4. Persisted'
    BY <1>5, <2>3 DEF Persisted, SubmitWrite, Holds
  <2> QED
    BY <1>0, <1>5, <2>2, <2>4 DEF SubmitWrite
<1>6. ASSUME NEW c \in Conn, UserAdded(c) PROVE IInv'
  BY <1>0, <1>6, DoneInv DEF UserAdded
<1>7. ASSUME NEW c \in Conn, AddFails(c) PROVE IInv'
  BY <1>0, <1>7, DoneInv DEF AddFails
<1>8. ASSUME NEW c \in Conn, ListUsers(c) PROVE IInv'
  <2>1. \A d \in Conn : ~Busy(d)'
    BY <1>8, NoneBusy DEF ListUsers
  <2>2. Visible' = index.users
    BY <1>8, <2>1 DEF Visible, ListUsers
  <2>3. \A d \in Conn : listed'[d] = listed[d] \/ listed'[d] = Visible'
    BY <1>0, <1>8, <2>2 DEF ListUsers, TypeOK
  <2> QED
    BY <1>0, <1>8, <2>3, DoneInv DEF ListUsers
<1>9. ASSUME NEW w \in writes, WriteLands(w) PROVE IInv'
  <2>1. \A d \in Conn : Busy(d)' <=> Busy(d)
    BY <1>9 DEF WriteLands, Busy
  <2>2. Exclusive' /\ Settled'
    BY <1>9, <2>1, VisibleStays DEF Exclusive, Settled, WriteLands
  <2>3. file'.head = w
    BY <1>9 DEF WriteLands, Overwrite
  <2>4. Persisted'
    BY <1>9, <2>3 DEF Persisted, WriteLands, Overwrite
  <2> QED
    BY <1>0, <1>9, <2>2, <2>4 DEF WriteLands
<1>10. ASSUME NEW w \in writes, WriteFails(w) PROVE IInv'
  <2>1. \A d \in Conn : Busy(d)' <=> Busy(d)
    BY <1>10 DEF WriteFails, Busy
  <2>2. Exclusive' /\ Settled'
    BY <1>10, <2>1, VisibleStays DEF Exclusive, Settled, WriteFails
  <2> QED
    BY <1>0, <1>10, <2>2, PersistedStays DEF WriteFails
<1>11. CASE Crash
  <2>1. \A d \in Conn : Busy(d)' <=> Busy(d)
    BY <1>11 DEF Crash, Busy
  <2>2. Exclusive' /\ Settled'
    BY <1>11, <2>1, VisibleStays DEF Exclusive, Settled, Crash
  <2> QED
    BY <1>0, <1>11, <2>2, PersistedStays DEF Crash
<1>12. CASE Restart
  <2>1. ReadIndex(file) \in {file.head, DefaultIndex} /\ DefaultIndex.users = <<>>
    BY DEF ReadIndex, DefaultIndex
  <2>2. \A d \in Conn : ~Busy(d)' /\ listed'[d] = <<>>
    BY <1>12 DEF Restart, Busy
  <2>3. Exclusive' /\ Visible' = index'.users
    BY <2>2 DEF Exclusive, Visible
  <2>4. Consistent(index')
    BY <1>12, <2>1, DefaultConsistent DEF Restart, Persisted
  <2>5. index'.users \in Seq(User)
    BY <1>0 DEF TypeOK, UserIndex
  <2>6. Settled'
    BY <2>2, <2>3, <2>5, PrefixReflexive DEF Settled
  <2> QED
    <3>1. writes' = {} /\ file' = file /\ index' = ReadIndex(file)
      BY <1>12 DEF Restart, Persisted
    <3>2. IsPrefix(index'.users, index'.users)
      BY <2>5, PrefixReflexive
    <3>3. index' = file.head
      BY <3>1 DEF ReadIndex, Persisted
    <3>4. Persisted'
      BY <3>1, <3>2, <3>3 DEF Persisted
    <3> QED
      BY <1>0, <2>3, <2>4, <2>6, <3>4
<1>13. CASE RestartFails
  <2>1. \A d \in Conn : Busy(d)' <=> Busy(d)
    BY <1>13 DEF RestartFails, Busy
  <2>2. Exclusive' /\ Settled'
    BY <1>13, <2>1, VisibleStays DEF Exclusive, Settled, RestartFails
  <2> QED
    BY <1>0, <1>13, <2>2, PersistedStays DEF RestartFails, Persisted
<1>14. CASE UNCHANGED vars
  <2>1. \A d \in Conn : Busy(d)' <=> Busy(d)
    BY <1>14 DEF vars, Busy
  <2>2. Exclusive' /\ Settled'
    BY <1>14, <2>1, VisibleStays DEF Exclusive, Settled, vars
  <2> QED
    BY <1>0, <1>14, <2>2, PersistedStays DEF vars
<1> QED
  BY <1>1, <1>2, <1>3, <1>4, <1>5, <1>6, <1>7, <1>8, <1>9, <1>10, <1>11, <1>12,
     <1>13, <1>14 DEF Next, Step

\* The invariant holds in every reachable state.
THEOREM Inductive == Spec => []IInv
BY InvInit, InvNext, PTL DEF Spec

-----------------------------------------------------------------------------
(* The properties.                                                         *)

\* No two users ever share an id or a name, in memory or in a file a restart
\* would accept.
THEOREM IdentitiesAreUnique == Spec => []IdentitiesUnique
<1>1. IInv => IdentitiesUnique
  BY DefaultConsistent DEF IInv, Persisted, IdentitiesUnique, ReadIndex
<1> QED
  BY <1>1, Inductive, PTL

\* Writes that land late, in the wrong order or never leave nothing in the file
\* but older states of the registry.
THEOREM PersistedStatesAreOld == Spec => []PersistedIsPrefix
<1>1. IInv => PersistedIsPrefix
  BY DEF IInv, Persisted, PersistedIsPrefix
<1> QED
  BY <1>1, Inductive, PTL

\* No listing shows a registration in progress or goes back.
THEOREM ListingsAreSettled == Spec => []ListingsSettled
<1>1. IInv => ListingsSettled
  BY DEF IInv, Settled, ListingsSettled
<1> QED
  BY <1>1, Inductive, PTL

-----------------------------------------------------------------------------
(* UserService implements UserRegistry.                                    *)

\* The service starts with the empty registry.
LEMMA RegistryInit == Init => Registry!Init
BY DEF Init, Registry!Init, Visible, Busy, DefaultIndex

\* The last user of the index is what the abstract registration of its name
\* adds to the others.
LEMMA LastUser ==
    ASSUME IInv, index.users # <<>>
    PROVE  \E n \in Name :
             /\ n \notin Names(Front(index.users))
             /\ index.users = Registry!Registered(Front(index.users), n)
<1> DEFINE s == index.users
           e == s[Len(s)]
<1>1. s \in Seq(User) /\ s # <<>>
  BY DEF IInv, TypeOK, UserIndex
<1>2. /\ Front(s) \in Seq(User)
      /\ Len(Front(s)) = Len(s) - 1
      /\ \A i \in 1..Len(s) - 1 : Front(s)[i] = s[i]
  BY <1>1, FrontProperties
<1>3. /\ Len(s) \in Nat \ {0} /\ DOMAIN s = 1..Len(s)
      /\ DOMAIN Front(s) = 1..Len(s) - 1
      /\ e \in User
  BY <1>1, <1>2
<1>4. e = [id |-> FirstId + Len(Front(s)), name |-> e.name] /\ e.name \in Name
  <2>1. e.id = FirstId + Len(s) - 1
    BY <1>3 DEF IInv, Consistent
  <2>2. FirstId + Len(s) - 1 = FirstId + Len(Front(s))
    BY <1>2, <1>3, FirstIdAssumption
  <2> QED
    BY <1>3, <2>1, <2>2 DEF User
<1>5. e.name \notin Names(Front(s))
  <2>1. \A i, j \in DOMAIN s : s[i].name = s[j].name => i = j
    BY DEF IInv, Consistent
  <2>2. ASSUME NEW i \in 1..Len(s) - 1 PROVE s[i].name # e.name
    <3>1. \A k \in Nat \ {0} : k \in 1..k /\ \A j \in 1..k - 1 : j \in 1..k /\ j # k
      OBVIOUS
    <3>2. Len(s) \in 1..Len(s) /\ i \in 1..Len(s) /\ i # Len(s)
      BY <1>3, <3>1
    <3>3. i \in DOMAIN s /\ Len(s) \in DOMAIN s
      BY <1>3, <3>2
    <3> HIDE DEF s
    <3> QED
      BY <2>1, <3>2, <3>3
  <2> QED
    BY <1>2, <1>3, <2>2 DEF Names
<1>6. s = Append(Front(s), e)
  <2>1. /\ Append(Front(s), e) \in Seq(User)
        /\ Len(Append(Front(s), e)) = Len(s)
        /\ \A i \in 1..Len(s) : Append(Front(s), e)[i] = s[i]
    BY <1>1, <1>2, <1>3
  <2> QED
    BY <1>1, <2>1
<1>7. s = Registry!Registered(Front(s), e.name)
  BY <1>4, <1>6 DEF Registry!Registered
<1> QED
  BY <1>4, <1>5, <1>7

\* The end of a registration, answered Ok or Err, is the atomic registration
\* of the abstract specification.
LEMMA RegistryRegister ==
    ASSUME IInv, NEW c \in Conn, NEW p \in {"create", "chmod"},
           Holds(c, p), Done(c), UNCHANGED <<server, index>>
    PROVE  Registry!Next
<1>1. Busy(c) /\ \A d \in Conn : ~Busy(d)'
  BY NoneBusy DEF IInv, Holds, Busy
<1>2. Visible = Front(index.users) /\ Visible' = index.users
  BY <1>1 DEF Visible
<1>3. PICK n \in Name :
        /\ n \notin Names(Front(index.users))
        /\ index.users = Registry!Registered(Front(index.users), n)
  BY <1>1, LastUser DEF IInv, Exclusive
<1>4. Registry!Names(Visible) = Names(Visible)
  BY DEF Registry!Names, Names
<1>5. Registry!Register(n)
  BY <1>2, <1>3, <1>4 DEF Registry!Register, Holds
<1> QED
  BY <1>5 DEF Registry!Next

\* A restart finds some older state of the registry, or the registration that
\* was in progress as well.
LEMMA RegistryStart ==
    ASSUME IInv, Restart
    PROVE  Registry!Next
<1> DEFINE s == index.users
           h == ReadIndex(file).users
<1>1. s \in Seq(User) /\ h \in Seq(User) /\ IsPrefix(h, s)
  <2>1. ReadIndex(file) = file.head
    BY DEF IInv, Persisted, ReadIndex
  <2> QED
    BY <2>1 DEF IInv, TypeOK, UserIndex, File, Persisted
<1>2. Visible' = h
  BY DEF Restart, Visible, Busy
<1>3. /\ Len(h) \in Nat /\ Len(s) \in Nat
      /\ Len(h) <= Len(s)
      /\ \A i \in 1..Len(h) : h[i] = s[i]
  BY <1>1, PrefixPointwise
<1>4. ASSUME IsPrefix(h, Visible) PROVE h \in Registry!Recoverable
  <2>1. Visible \in Seq(User)
    BY VisibleType DEF IInv
  <2>2. /\ Len(h) \in 0..Len(Visible)
        /\ \A i \in 1..Len(h) : h[i] = Visible[i]
    BY <1>1, <1>4, <2>1, PrefixPointwise
  <2>3. h = SubSeq(Visible, 1, Len(h))
    BY <1>1, <2>1, <2>2, SubSeqProperties
  <2> HIDE DEF h
  <2> QED
    BY <2>2, <2>3 DEF Registry!Recoverable
<1>5. ASSUME ~\E c \in Conn : Busy(c) PROVE h \in Registry!Recoverable
  <2>1. Visible = s
    BY <1>5 DEF Visible
  <2> HIDE DEF h, s
  <2> QED
    BY <1>1, <1>4, <2>1
<1>6. ASSUME \E c \in Conn : Busy(c) PROVE h \in Registry!Recoverable
  <2>1. Visible = Front(s) /\ s # <<>>
    BY <1>6 DEF Visible, IInv, Exclusive
  <2>2. /\ Front(s) \in Seq(User)
        /\ Len(Front(s)) = Len(s) - 1
        /\ \A i \in 1..Len(s) - 1 : Front(s)[i] = s[i]
    BY <1>1, <2>1, FrontProperties
  <2>3. CASE Len(h) = Len(s)
    <3>1. h = s
      BY <1>1, <1>3, <2>3
    <3>2. PICK n \in Name : n \notin Names(Front(s)) /\ s = Registry!Registered(Front(s), n)
      BY <2>1, LastUser
    <3>3. Registry!Names(Front(s)) = Names(Front(s))
      BY DEF Registry!Names, Names
    <3> HIDE DEF h, s
    <3> QED
      BY <2>1, <3>1, <3>2, <3>3 DEF Registry!Recoverable
  <2>4. CASE Len(h) # Len(s)
    <3> HIDE DEF h, s
    <3>1. Len(h) <= Len(Front(s)) /\ \A i \in 1..Len(h) : h[i] = Front(s)[i]
      BY <1>3, <2>2, <2>4
    <3>2. IsPrefix(h, Front(s))
      BY <1>1, <2>2, <3>1, PrefixPointwise
    <3> QED
      BY <1>4, <2>1, <3>2
  <2> QED
    BY <2>3, <2>4
<1>7. h \in Registry!Recoverable
  BY <1>5, <1>6
<1>8. Registry!Start
  BY <1>2, <1>7 DEF Registry!Start, Restart
<1> QED
  BY <1>8 DEF Registry!Next

\* Every step of the service is a step of the registry, or changes nothing of it.
LEMMA RegistryNext == IInv /\ [Next]_vars => [Registry!Next]_(Registry!vars)
<1> SUFFICES ASSUME IInv, [Next]_vars PROVE [Registry!Next]_(Registry!vars)
  OBVIOUS
<1>0. TypeOK /\ Exclusive
  BY DEF IInv
\* Steps that neither start nor end a registration.
<1> DEFINE Quiet == /\ UNCHANGED <<server, index>>
                    /\ \A d \in Conn : Busy(d)' <=> Busy(d)
<1>1. ASSUME Quiet PROVE UNCHANGED Registry!vars
  BY <1>1, VisibleStays DEF Registry!vars
<1> HIDE DEF Quiet
\* Answers to requests that are not registrations in progress.
<1>2. ASSUME NEW c \in Conn, Holds(c, "lock"), Done(c), UNCHANGED <<server, index>>
      PROVE  UNCHANGED Registry!vars
  <2>1. \A d \in Conn : ~Busy(d)
    BY <1>0, <1>2, OneBusy DEF Holds, Busy
  <2>2. \A d \in Conn : ~Busy(d)'
    BY <1>0, <1>2, NoneBusy
  <2>3. Quiet
    BY <1>2, <2>1, <2>2 DEF Quiet
  <2> QED
    BY <1>1, <2>3
<1>3. ASSUME NEW c \in Conn, NEW r \in Request, Receive(c, r) PROVE UNCHANGED Registry!vars
  BY <1>0, <1>1, <1>3 DEF Quiet, Receive, Busy, TypeOK
<1>4. ASSUME NEW c \in Conn, RejectUser(c) PROVE UNCHANGED Registry!vars
  BY <1>2, <1>4 DEF RejectUser
<1>5. ASSUME NEW c \in Conn, PushUser(c) PROVE UNCHANGED Registry!vars
  <2> DEFINE e == [id |-> index.next_id, name |-> req[c].name]
  <2>1. e \in User /\ index.users \in Seq(User)
    BY <1>0, <1>5, AddRequests DEF PushUser, TypeOK, UserIndex, User
  <2>2. Busy(c)' /\ \A d \in Conn : ~Busy(d)
    BY <1>0, <1>5, OneBusy DEF PushUser, Holds, Busy, TypeOK
  <2>3. Visible = index.users /\ Visible' = Front(index'.users)
    BY <2>2 DEF Visible
  <2>4. index'.users = Append(index.users, e)
    BY <1>5 DEF PushUser
  <2>5. \A x \in User : Front(Append(index.users, x)) = index.users
    BY <2>1, FrontProperties
  <2> QED
    BY <1>5, <2>1, <2>3, <2>4, <2>5 DEF PushUser, Registry!vars
<1>6. ASSUME NEW c \in Conn, CreateFile(c) PROVE UNCHANGED Registry!vars
  BY <1>0, <1>1, <1>6 DEF Quiet, CreateFile, Holds, Busy, TypeOK
<1>7. ASSUME NEW c \in Conn, SubmitWrite(c) PROVE UNCHANGED Registry!vars
  BY <1>0, <1>1, <1>7 DEF Quiet, SubmitWrite, Holds, Busy, TypeOK
<1>8. ASSUME NEW c \in Conn, UserAdded(c) PROVE Registry!Next
  BY <1>8, RegistryRegister DEF UserAdded
<1>9. ASSUME NEW c \in Conn, AddFails(c) PROVE Registry!Next
  BY <1>9, RegistryRegister DEF AddFails
<1>10. ASSUME NEW c \in Conn, ListUsers(c) PROVE UNCHANGED Registry!vars
  BY <1>2, <1>10 DEF ListUsers
<1>11. ASSUME NEW w \in writes, WriteLands(w) \/ WriteFails(w)
       PROVE  UNCHANGED Registry!vars
  BY <1>1, <1>11 DEF Quiet, WriteLands, WriteFails, Busy
<1>12. CASE Crash
  <2>1. Visible' = Visible
    BY <1>12, VisibleStays DEF Crash, Busy
  <2> QED
    BY <1>12, <2>1 DEF Crash, Registry!Next, Registry!Stop
<1>13. CASE Restart
  BY <1>13, RegistryStart
<1>14. CASE RestartFails
  <2>1. Visible' = Visible
    BY <1>14, VisibleStays DEF RestartFails, Busy
  <2> QED
    BY <1>14, <2>1 DEF RestartFails, Registry!Next, Registry!Start
<1>15. CASE UNCHANGED vars
  BY <1>1, <1>15 DEF Quiet, vars, Busy
<1> QED
  BY <1>3, <1>4, <1>5, <1>6, <1>7, <1>8, <1>9, <1>10, <1>11, <1>12, <1>13, <1>14,
     <1>15 DEF Next, Step

\* Behind its locks, threads and restarts the service is the registry: one
\* atomic registration at a time, seen by everyone at once.
THEOREM Refinement == Spec => ImplementsRegistry
<1>1. Init => Registry!Init
  BY RegistryInit
<1>2. IInv /\ [Next]_vars => [Registry!Next]_(Registry!vars)
  BY RegistryNext
<1>3. Spec => []IInv
  BY Inductive
<1> QED
  BY <1>1, <1>2, <1>3, PTL DEF Spec, ImplementsRegistry, Registry!Spec

=============================================================================
