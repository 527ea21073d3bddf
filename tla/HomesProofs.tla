---------------------------- MODULE HomesProofs ----------------------------
(***************************************************************************)
(* Proofs about Homes, for any users, names, games, sessions and number of *)
(* boots.                                                                  *)
(***************************************************************************)
EXTENDS Homes, TLAPS

-----------------------------------------------------------------------------
(* The inductive invariant.                                                *)

\* Who starts or plays a game does so in a mounted home, and the hooks of a
\* user run one at a time.
Playing(s) == pc[s] \in Hook \cup {"playing"} => who[s] \in home
OneHook(s) ==
    \A t \in Session \ {s} : who[t] = who[s] /\ pc[s] \in Hook => pc[t] \notin Hook

\* What a hook is about to move is there, and so is what it is about to link to.
Movable(s) == pc[s] = "move" => src[who[s]] \in {"game", "empty", "template"}
Linkable(s) == pc[s] = "link" => dst[who[s]] # {}

\* The cleanup has put the bottle back to that of the base, or is known not to have.
Clean(u) == src[u] = "game" \/ u \in missed

\* Until the home of a user is there, the steps of the log-in script come after the
\* cleanup they rely on.
Cleaned(s) == who[s] \notin home /\ pc[s] \in {"touch", "mountHome"} => Clean(who[s])

\* Until then a marker of this boot is not there without the cleanup, one of an
\* earlier boot not without the removal still to come.
Marked == \A u \in (overlay \cap marker) \ home : Clean(u) \/ u \in pending

\* An image that holds user data is a file system that nobody will format.
Kept(u) ==
    dst[u] # {} =>
        /\ image[u] = "layers"
        /\ u \in overlay \/ \A s \in Session : who[s] = u => pc[s] \notin {"truncate", "mkfs"}

SessionInv(s) == Playing(s) /\ OneHook(s) /\ Movable(s) /\ Linkable(s) /\ Cleaned(s)

IInv ==
    /\ TypeOK /\ LinksResolve /\ Marked
    /\ \A s \in Session : SessionInv(s)
    /\ \A u \in User : Kept(u)

-----------------------------------------------------------------------------
(* Each part is preserved.                                                 *)

\* What the session s may do.
Step(s) ==
    \/ Login(s) \/ LoginScript(s) \/ Logout(s)
    \/ StartGame(s) \/ SetupSymlink(s) \/ SaveGame(s)

\* What a hook moves is the data of a game, whatever its strategy.
LEMMA MovedIsData ==
    \A u \in User : Moved[Strategy[u]] \in {"game", "empty", "template"}
<1>1. \A u \in User : Strategy[u] \in {"Move", "Empty", "TplSrc"}
  BY GamesAssumption
<1>2. \A x \in {"Move", "Empty", "TplSrc"} : Moved[x] \in {"game", "empty", "template"}
  BY DEF Moved
<1> QED
  BY <1>1, <1>2

\* Every value stays in its set, and the mounts keep the files they need.
LEMMA TypeStep ==
    ASSUME IInv, NEW s \in Session, Step(s)
    PROVE  TypeOK'
<1> USE GamesAssumption DEF TypeOK, FileSystem, disk, mounts, history, GoTo, At
<1>1. CASE Login(s)
  BY <1>1 DEF IInv, Login, Script, Asserted
<1>2. CASE Truncate(s)
  BY <1>2 DEF IInv, Truncate, Script, Asserted, Truncated
<1>3. CASE Mkfs(s)
  BY <1>3 DEF IInv, Mkfs, Script, Asserted
<1>4. CASE Bindfs(s)
  BY <1>4 DEF IInv, Bindfs, Script, Asserted
<1>5. CASE MountImage(s)
  BY <1>5 DEF IInv, MountImage, Script, Asserted
<1>6. CASE Mkdir(s)
  BY <1>6 DEF IInv, Mkdir, Script, Asserted
<1>7. CASE RemoveMarker(s)
  BY <1>7 DEF IInv, RemoveMarker, Unmarked, Script, Asserted
<1>8. CASE TestMarker(s)
  BY <1>8 DEF IInv, TestMarker, HasMarker, Script, Asserted
<1>9. CASE KeepEngine(s)
  BY <1>9 DEF IInv, KeepEngine, Script, Asserted
<1>10. CASE TouchMarker(s)
  BY <1>10 DEF IInv, TouchMarker, Script, Asserted
<1>11. CASE MountHome(s)
  BY <1>11 DEF IInv, MountHome
<1>12. CASE CommandFails(s)
  BY <1>12 DEF IInv, CommandFails
<1>13. CASE Logout(s)
  BY <1>13 DEF IInv, Logout
<1>14. CASE StartGame(s)
  BY <1>14 DEF IInv, StartGame, Hook
<1>15. CASE RemoveSource(s)
  BY <1>15 DEF IInv, RemoveSource, Hook
<1>16. CASE FillSource(s)
  BY <1>16, MovedIsData DEF IInv, FillSource, Hook
<1>17. CASE MoveSource(s)
  BY <1>17 DEF IInv, MoveSource, Hook, Received, SessionInv, Movable
<1>18. CASE MoveRaises(s)
  BY <1>18 DEF IInv, MoveRaises
<1>19. CASE LinkSource(s)
  BY <1>19 DEF IInv, LinkSource
<1>20. CASE SaveGame(s)
  BY <1>20 DEF IInv, SaveGame
<1>21. CASE KeepEnginePanics(s)
  BY <1>21 DEF IInv, KeepEnginePanics
<1> QED
  BY <1>1, <1>2, <1>3, <1>4, <1>5, <1>6, <1>7, <1>8, <1>9, <1>10, <1>11, <1>12, <1>13,
     <1>14, <1>15, <1>16, <1>17, <1>18, <1>19, <1>20, <1>21 DEF Step, LoginScript, SetupSymlink

\* A link is made only when its target is there, and an image is formatted, which
\* takes the targets, together with the links.
LEMMA LinksStep ==
    ASSUME IInv, NEW s \in Session, Step(s)
    PROVE  LinksResolve'
<1> USE DEF IInv, TypeOK, FileSystem, LinksResolve, disk, mounts, history, GoTo, At
<1>1. CASE Mkfs(s)
  BY <1>1 DEF Mkfs
<1>2. CASE FillSource(s)
  BY <1>2, MovedIsData DEF FillSource
<1>3. CASE MoveSource(s)
  BY <1>3 DEF MoveSource, Received
<1>4. CASE LinkSource(s)
  BY <1>4 DEF LinkSource, SessionInv, Linkable
<1>5. CASE SaveGame(s)
  BY <1>5 DEF SaveGame
<1>6. CASE \/ Login(s) \/ Truncate(s) \/ Bindfs(s) \/ MountImage(s)
          \/ Mkdir(s) \/ RemoveMarker(s) \/ TestMarker(s) \/ KeepEngine(s) \/ KeepEnginePanics(s)
          \/ TouchMarker(s) \/ MountHome(s) \/ CommandFails(s) \/ Logout(s)
          \/ StartGame(s) \/ RemoveSource(s) \/ MoveRaises(s)
  BY <1>6 DEF Login, Truncate, Bindfs, MountImage, Mkdir, RemoveMarker, TestMarker,
     KeepEngine, KeepEnginePanics, TouchMarker, MountHome, CommandFails, Logout, StartGame, RemoveSource,
     MoveRaises
<1> QED
  BY <1>1, <1>2, <1>3, <1>4, <1>5, <1>6 DEF Step, LoginScript, SetupSymlink

\* A marker in a mounted image is set after the cleanup or not looked at yet; a hook
\* that changes the bottle runs in a home.
LEMMA MarkedStep ==
    ASSUME IInv, NEW s \in Session, Step(s)
    PROVE  Marked'
<1> USE DEF IInv, TypeOK, FileSystem, Marked, Clean, disk, mounts, history, GoTo, At
<1>1. CASE MountImage(s)
  BY <1>1 DEF MountImage
<1>2. CASE RemoveMarker(s)
  BY <1>2 DEF RemoveMarker, Unmarked
<1>3. CASE TestMarker(s)
  BY <1>3 DEF TestMarker, HasMarker
<1>4. CASE KeepEngine(s) \/ KeepEnginePanics(s) \/ Mkfs(s)
  BY <1>4 DEF KeepEngine, KeepEnginePanics, Mkfs
<1>5. CASE TouchMarker(s)
  BY <1>5 DEF TouchMarker, SessionInv, Cleaned
<1>6. CASE SetupSymlink(s)
  <2>1. who[s] \in home
    BY <1>6 DEF SetupSymlink, SessionInv, Playing, Hook, RemoveSource, FillSource, MoveSource,
       MoveRaises, LinkSource
  <2>2. home' = home /\ overlay' = overlay /\ marker' = marker /\ pending' = pending /\ missed' = missed
        /\ \A u \in User \ {who[s]} : src'[u] = src[u]
    BY <1>6 DEF SetupSymlink, RemoveSource, FillSource, MoveSource, MoveRaises, LinkSource
  <2> QED
    BY <2>1, <2>2
<1>7. CASE \/ Login(s) \/ Truncate(s) \/ Bindfs(s) \/ Mkdir(s) \/ MountHome(s)
          \/ CommandFails(s) \/ Logout(s) \/ StartGame(s) \/ SaveGame(s)
  BY <1>7 DEF Login, Truncate, Bindfs, Mkdir, MountHome, CommandFails, Logout, StartGame,
     SaveGame
<1> QED
  BY <1>1, <1>2, <1>3, <1>4, <1>5, <1>6, <1>7 DEF Step, LoginScript

\* Data gets into an image only while it is mounted, and no log-in finds an image
\* missing that has data.
LEMMA KeptStep ==
    ASSUME IInv, NEW s \in Session, Step(s)
    PROVE  \A u \in User : Kept(u)'
<1> USE DEF IInv, TypeOK, FileSystem, Kept, disk, mounts, history, GoTo, At
<1>1. CASE Login(s)
  BY <1>1 DEF Login, NeedsImage
<1>2. CASE Truncate(s)
  BY <1>2 DEF Truncate, Truncated
<1>3. CASE Mkfs(s)
  BY <1>3 DEF Mkfs
<1>4. CASE MountImage(s)
  BY <1>4 DEF MountImage
<1>5. CASE MoveSource(s)
  BY <1>5 DEF MoveSource, Received, SessionInv, Playing, Hook
<1>6. CASE SaveGame(s)
  BY <1>6 DEF SaveGame, SessionInv, Playing
<1>7. CASE \/ Bindfs(s) \/ Mkdir(s) \/ RemoveMarker(s) \/ TestMarker(s)
          \/ KeepEngine(s) \/ KeepEnginePanics(s) \/ TouchMarker(s) \/ MountHome(s)
          \/ CommandFails(s) \/ Logout(s) \/ StartGame(s) \/ RemoveSource(s)
          \/ FillSource(s) \/ MoveRaises(s) \/ LinkSource(s)
  BY <1>7 DEF Bindfs, Mkdir, RemoveMarker, TestMarker, KeepEngine, KeepEnginePanics, TouchMarker,
     MountHome, CommandFails, Logout, StartGame, RemoveSource, FillSource, MoveRaises,
     LinkSource
<1> QED
  BY <1>1, <1>2, <1>3, <1>4, <1>5, <1>6, <1>7 DEF Step, LoginScript, SetupSymlink

\* Only a session in a mounted home starts a game, and nothing but a boot takes the
\* home away.
LEMMA PlayingStep ==
    ASSUME IInv, NEW s \in Session, Step(s), NEW t \in Session
    PROVE  Playing(t)'
<1> USE DEF IInv, TypeOK, FileSystem, SessionInv, Hook, Playing, disk, mounts, history, GoTo, At
<1>1. CASE MountHome(s)
  BY <1>1 DEF MountHome
<1>2. CASE StartGame(s)
  BY <1>2 DEF StartGame, Playable
<1>3. CASE \/ Login(s) \/ Truncate(s) \/ Mkfs(s) \/ Bindfs(s)
          \/ MountImage(s) \/ Mkdir(s) \/ RemoveMarker(s) \/ TestMarker(s)
          \/ KeepEngine(s) \/ KeepEnginePanics(s) \/ TouchMarker(s) \/ CommandFails(s) \/ Logout(s)
          \/ RemoveSource(s) \/ FillSource(s) \/ MoveSource(s)
          \/ MoveRaises(s) \/ LinkSource(s) \/ SaveGame(s)
  BY <1>3 DEF Login, Truncate, Mkfs, Bindfs, MountImage, Mkdir, RemoveMarker,
     TestMarker, KeepEngine, KeepEnginePanics, TouchMarker, CommandFails, Logout, RemoveSource,
     FillSource, MoveSource, MoveRaises, LinkSource, SaveGame
<1> QED
  BY <1>1, <1>2, <1>3 DEF Step, LoginScript, SetupSymlink

\* A hook is entered by a game that starts, when no other of the user is in one.
LEMMA OneHookStep ==
    ASSUME IInv, NEW s \in Session, Step(s), NEW t \in Session
    PROVE  OneHook(t)'
<1> USE DEF IInv, TypeOK, FileSystem, SessionInv, Hook, OneHook, disk, mounts, history, GoTo, At
<1>1. CASE StartGame(s)
  BY <1>1 DEF StartGame, Playable
<1>2. CASE RemoveSource(s)
  BY <1>2 DEF RemoveSource
<1>3. CASE FillSource(s)
  BY <1>3 DEF FillSource
<1>4. CASE MoveSource(s)
  BY <1>4 DEF MoveSource
<1>5. CASE \/ Login(s) \/ Truncate(s) \/ Mkfs(s) \/ Bindfs(s)
          \/ MountImage(s) \/ Mkdir(s) \/ RemoveMarker(s) \/ TestMarker(s)
          \/ KeepEngine(s) \/ KeepEnginePanics(s) \/ TouchMarker(s) \/ MountHome(s)
          \/ CommandFails(s) \/ Logout(s) \/ MoveRaises(s) \/ LinkSource(s)
          \/ SaveGame(s)
  BY <1>5 DEF Login, Truncate, Mkfs, Bindfs, MountImage, Mkdir, RemoveMarker,
     TestMarker, KeepEngine, KeepEnginePanics, TouchMarker, MountHome, CommandFails, Logout, MoveRaises,
     LinkSource, SaveGame
<1> QED
  BY <1>1, <1>2, <1>3, <1>4, <1>5 DEF Step, LoginScript, SetupSymlink

\* What is about to be moved was just put there, or was there when the game was
\* started; only hooks take it away.
LEMMA MovableStep ==
    ASSUME IInv, NEW s \in Session, Step(s), NEW t \in Session
    PROVE  Movable(t)'
<1> USE DEF IInv, TypeOK, FileSystem, SessionInv, Hook, Movable, OneHook, disk, mounts, history,
        GoTo, At
<1>1. CASE Mkfs(s)
  BY <1>1 DEF Mkfs
<1>2. CASE KeepEngine(s) \/ KeepEnginePanics(s)
  BY <1>2 DEF KeepEngine, KeepEnginePanics
<1>3. CASE StartGame(s)
  BY <1>3 DEF StartGame, Accepts
<1>4. CASE RemoveSource(s)
  BY <1>4 DEF RemoveSource
<1>5. CASE FillSource(s)
  BY <1>5, MovedIsData DEF FillSource
<1>6. CASE MoveSource(s)
  BY <1>6 DEF MoveSource
<1>7. CASE LinkSource(s)
  BY <1>7 DEF LinkSource
<1>8. CASE \/ Login(s) \/ Truncate(s) \/ Bindfs(s) \/ MountImage(s)
          \/ Mkdir(s) \/ RemoveMarker(s) \/ TestMarker(s) \/ TouchMarker(s)
          \/ MountHome(s) \/ CommandFails(s) \/ Logout(s) \/ MoveRaises(s)
          \/ SaveGame(s)
  BY <1>8 DEF Login, Truncate, Bindfs, MountImage, Mkdir, RemoveMarker, TestMarker,
     TouchMarker, MountHome, CommandFails, Logout, MoveRaises, SaveGame
<1> QED
  BY <1>1, <1>2, <1>3, <1>4, <1>5, <1>6, <1>7, <1>8 DEF Step, LoginScript, SetupSymlink

\* What is about to be linked to was just moved there; mkfs refuses the image,
\* which is mounted.
LEMMA LinkableStep ==
    ASSUME IInv, NEW s \in Session, Step(s), NEW t \in Session
    PROVE  Linkable(t)'
<1> USE DEF IInv, TypeOK, FileSystem, SessionInv, Hook, Linkable, Playing, disk, mounts, history,
        GoTo, At
<1>1. CASE Mkfs(s)
  BY <1>1 DEF Mkfs
<1>2. CASE MoveSource(s)
  BY <1>2 DEF MoveSource, Received
<1>3. CASE SaveGame(s)
  BY <1>3 DEF SaveGame
<1>4. CASE \/ Login(s) \/ Truncate(s) \/ Bindfs(s) \/ MountImage(s)
          \/ Mkdir(s) \/ RemoveMarker(s) \/ TestMarker(s) \/ KeepEngine(s) \/ KeepEnginePanics(s)
          \/ TouchMarker(s) \/ MountHome(s) \/ CommandFails(s) \/ Logout(s)
          \/ StartGame(s) \/ RemoveSource(s) \/ FillSource(s)
          \/ MoveRaises(s) \/ LinkSource(s)
  BY <1>4 DEF Login, Truncate, Bindfs, MountImage, Mkdir, RemoveMarker, TestMarker,
     KeepEngine, KeepEnginePanics, TouchMarker, MountHome, CommandFails, Logout, StartGame, RemoveSource,
     FillSource, MoveRaises, LinkSource
<1> QED
  BY <1>1, <1>2, <1>3, <1>4 DEF Step, LoginScript, SetupSymlink

\* The script gets to its last step through the cleanup, or past it by a marker.
LEMMA CleanedStep ==
    ASSUME IInv, NEW s \in Session, Step(s), NEW t \in Session
    PROVE  Cleaned(t)'
<1> USE DEF IInv, TypeOK, FileSystem, SessionInv, Cleaned, Clean, disk, mounts, history, GoTo, At
<1>1. CASE TestMarker(s)
  BY <1>1 DEF TestMarker, HasMarker, Marked
<1>2. CASE KeepEngine(s) \/ KeepEnginePanics(s) \/ Mkfs(s)
  BY <1>2 DEF KeepEngine, KeepEnginePanics, Mkfs
<1>3. CASE TouchMarker(s)
  BY <1>3 DEF TouchMarker
<1>4. CASE SetupSymlink(s)
  <2>1. who[s] \in home /\ who' = who /\ home' = home /\ missed' = missed
        /\ \A u \in User \ {who[s]} : src'[u] = src[u]
    BY <1>4 DEF SetupSymlink, Playing, Hook, RemoveSource, FillSource, MoveSource, MoveRaises,
       LinkSource
  <2>2. pc'[t] \in {"touch", "mountHome"} => pc'[t] = pc[t]
    BY <1>4 DEF SetupSymlink, RemoveSource, FillSource, MoveSource, MoveRaises, LinkSource
  <2> QED
    BY <2>1, <2>2
<1>5. CASE \/ Login(s) \/ Truncate(s) \/ Bindfs(s) \/ MountImage(s) \/ Mkdir(s)
          \/ RemoveMarker(s) \/ MountHome(s) \/ CommandFails(s) \/ Logout(s)
          \/ StartGame(s) \/ SaveGame(s)
  BY <1>5 DEF Login, Truncate, Bindfs, MountImage, Mkdir, RemoveMarker, MountHome,
     CommandFails, Logout, StartGame, SaveGame
<1> QED
  BY <1>1, <1>2, <1>3, <1>4, <1>5 DEF Step, LoginScript

-----------------------------------------------------------------------------
(* The theorems.                                                           *)

\* A boot ends all sessions and takes every mount; the disk stays as it is.
LEMMA BootStep == IInv /\ Boot => IInv'
<1> SUFFICES ASSUME IInv, Boot
             PROVE  IInv'
  OBVIOUS
<1> USE DEF IInv, Boot, disk
<1>1. TypeOK' /\ LinksResolve' /\ Marked'
  BY BootsAssumption DEF TypeOK, FileSystem, LinksResolve, Marked
<1>2. \A s \in Session : SessionInv(s)'
  BY DEF SessionInv, Playing, OneHook, Movable, Linkable, Cleaned, Clean, Hook
<1>3. \A u \in User : Kept(u)'
  BY DEF Kept
<1> QED
  BY <1>1, <1>2, <1>3

\* Every step preserves the invariant.
LEMMA InvariantStep ==
    ASSUME IInv, [Next]_vars
    PROVE  IInv'
<1>1. ASSUME NEW s \in Session, Step(s)
      PROVE  IInv'
  <2>1. TypeOK' /\ LinksResolve' /\ Marked'
    BY <1>1, TypeStep, LinksStep, MarkedStep
  <2>2. ASSUME NEW t \in Session
        PROVE  SessionInv(t)'
    <3>1. Playing(t)' /\ OneHook(t)' /\ Movable(t)' /\ Linkable(t)' /\ Cleaned(t)'
      BY <1>1, PlayingStep, OneHookStep, MovableStep, LinkableStep, CleanedStep
    <3> QED
      BY <3>1 DEF SessionInv
  <2>3. \A u \in User : Kept(u)'
    BY <1>1, KeptStep
  <2> QED
    BY <2>1, <2>2, <2>3 DEF IInv
<1>2. Boot => IInv'
  BY BootStep
<1>3. CASE UNCHANGED vars
  BY <1>3
     DEF vars, disk, mounts, history, IInv, TypeOK, FileSystem, LinksResolve, Marked,
         SessionInv, Playing, OneHook, Movable, Linkable, Cleaned, Clean, Kept
<1> QED
  BY <1>1, <1>2, <1>3 DEF Next, Step

\* A new guest has neither images nor sessions.
LEMMA Initially == Init => IInv
  BY BootsAssumption
     DEF Init, IInv, TypeOK, FileSystem, LinksResolve, Marked, SessionInv, Playing,
         OneHook, Movable, Linkable, Cleaned, Clean, Kept, Hook, Script, Asserted

\* The inductive invariant holds throughout: what each step of mountHome.sh and of
\* setupSymlink relies on was established by the steps before it.
THEOREM Inductive == Spec => []IInv
<1>1. IInv /\ [Next]_vars => IInv'
  BY InvariantStep
<1> QED
  BY Initially, <1>1, PTL DEF Spec

\* A mounted image is a file system, and a home is put together from the user's own
\* image and view of the base, although the script finds mounts by their text.
THEOREM TypeCorrect == Spec => []TypeOK
<1>1. IInv => TypeOK
  BY DEF IInv
<1> QED
  BY Inductive, <1>1, PTL

\* Every home starts with the bottle of the base, but those whose log-in found the old
\* marker or whose cleanup left something out, of which nothing told the script.
THEOREM CleanedFirst == Spec => CleanedBeforeUse
<1> DEFINE Fresh == \A u \in home' \ home : src[u] = "game" \/ u \in missed
<1>1. IInv /\ [Next]_vars => [Fresh]_vars
  <2>1. ASSUME IInv, NEW s \in Session, Step(s)
        PROVE  Fresh
    <3>1. CASE MountHome(s)
      BY <2>1, <3>1 DEF IInv, SessionInv, Cleaned, Clean, MountHome, At
    <3>2. CASE ~MountHome(s)
      <4>1. home' = home
        BY <2>1, <3>2 DEF mounts, disk, Step, LoginScript, SetupSymlink, Login, Truncate, Mkfs,
           Bindfs, MountImage, Mkdir, RemoveMarker, TestMarker, KeepEngine, KeepEnginePanics,
           TouchMarker, CommandFails, Logout, StartGame, RemoveSource, FillSource, MoveSource,
           MoveRaises, LinkSource, SaveGame
      <4> QED
        BY <4>1
    <3> QED
      BY <3>1, <3>2
  <2>2. Boot => Fresh
    BY DEF Boot
  <2> QED
    BY <2>1, <2>2 DEF Next, Step
<1>2. CleanedBeforeUse <=> [][Fresh]_vars
  BY DEF CleanedBeforeUse
<1> QED
  BY Inductive, <1>1, <1>2, PTL DEF Spec

\* A session is let in by MountHome only, which has a home or finds one, and homes stay.
LEMMA HomesStep ==
    ASSUME IInv, SessionsHaveHomes, NEW s \in Session, Step(s)
    PROVE  SessionsHaveHomes'
<1> USE DEF IInv, TypeOK, SessionInv, Playing, SessionsHaveHomes, Hook, disk, mounts, history, GoTo, At
<1>1. CASE MountHome(s)
  BY <1>1 DEF MountHome, Grep
<1>2. CASE \/ Login(s) \/ Truncate(s) \/ Mkfs(s) \/ Bindfs(s)
          \/ MountImage(s) \/ Mkdir(s) \/ RemoveMarker(s) \/ TestMarker(s)
          \/ KeepEngine(s) \/ KeepEnginePanics(s) \/ TouchMarker(s) \/ CommandFails(s) \/ Logout(s)
  BY <1>2 DEF Login, Truncate, Mkfs, Bindfs, MountImage, Mkdir, RemoveMarker,
     TestMarker, KeepEngine, KeepEnginePanics, TouchMarker, CommandFails, Logout
<1>3. CASE \/ StartGame(s) \/ RemoveSource(s) \/ FillSource(s) \/ MoveSource(s)
          \/ MoveRaises(s) \/ LinkSource(s) \/ SaveGame(s)
  BY <1>3 DEF StartGame, Playable, RemoveSource, FillSource, MoveSource, MoveRaises, LinkSource,
     SaveGame
<1> QED
  BY <1>1, <1>2, <1>3 DEF Step, LoginScript, SetupSymlink

\* Who is let in has a home, unless that of a user whose name starts the same was taken
\* for it (mountHome.sh:75).
THEOREM HomesAreFound == Spec => []SessionsHaveHomes
<1>1. Init => SessionsHaveHomes
  BY DEF Init, SessionsHaveHomes, Hook
<1>2. IInv /\ SessionsHaveHomes /\ [Next]_vars => SessionsHaveHomes'
  <2>1. IInv /\ Boot => SessionsHaveHomes'
    BY DEF IInv, TypeOK, Boot, SessionsHaveHomes, Hook
  <2>2. UNCHANGED vars /\ SessionsHaveHomes => SessionsHaveHomes'
    BY DEF vars, mounts, SessionsHaveHomes
  <2> QED
    BY <2>1, <2>2, HomesStep DEF Next, Step
<1> QED
  BY Inductive, <1>1, <1>2, PTL DEF Spec

\* A game that finds the link of setupSymlink finds the data behind it, whichever
\* log-ins, cleanups and boots come in between.
THEOREM LinksAlwaysResolve == Spec => []LinksResolve
<1>1. IInv => LinksResolve
  BY DEF IInv
<1> QED
  BY Inductive, <1>1, PTL

\* mkfs is the step that could lose the data, and it gets no image that has any.
LEMMA DataStep ==
    ASSUME IInv, NEW s \in Session, Step(s), NEW u \in User, dst[u] # {}
    PROVE  dst'[u] # {}
<1> USE DEF IInv, TypeOK, FileSystem, GoTo, At, disk
<1>1. CASE Mkfs(s)
  BY <1>1 DEF Mkfs, Kept
<1>2. CASE MoveSource(s)
  BY <1>2 DEF MoveSource, Received
<1>3. CASE SaveGame(s)
  BY <1>3 DEF SaveGame
<1>4. CASE \/ Login(s) \/ Truncate(s) \/ Bindfs(s) \/ MountImage(s)
          \/ Mkdir(s) \/ RemoveMarker(s) \/ TestMarker(s) \/ KeepEngine(s) \/ KeepEnginePanics(s)
          \/ TouchMarker(s) \/ MountHome(s) \/ CommandFails(s) \/ Logout(s)
          \/ StartGame(s) \/ RemoveSource(s) \/ FillSource(s)
          \/ MoveRaises(s) \/ LinkSource(s)
  BY <1>4 DEF Login, Truncate, Bindfs, MountImage, Mkdir, RemoveMarker, TestMarker,
     KeepEngine, KeepEnginePanics, TouchMarker, MountHome, CommandFails, Logout, StartGame, RemoveSource,
     FillSource, MoveRaises, LinkSource
<1> QED
  BY <1>1, <1>2, <1>3, <1>4 DEF Step, LoginScript, SetupSymlink

\* No log-in, whatever it overtakes, formats an image that holds user data.
THEOREM DataIsKept == Spec => ImagesKeepData
<1> DEFINE Safe == \A u \in User : dst[u] # {} => dst'[u] # {}
<1>1. IInv /\ [Next]_vars => [Safe]_vars
  <2>1. ASSUME IInv, NEW s \in Session, Step(s)
        PROVE  Safe
    BY <2>1, DataStep
  <2>2. Boot => Safe
    BY DEF Boot, disk
  <2> QED
    BY <2>1, <2>2 DEF Next, Step
<1>2. ImagesKeepData <=> [][Safe]_vars
  BY DEF ImagesKeepData
<1> QED
  BY Inductive, <1>1, <1>2, PTL DEF Spec
=============================================================================
