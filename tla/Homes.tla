------------------------------- MODULE Homes -------------------------------
(***************************************************************************)
(* The homes of players on one guest over several boots: mountHome.sh,     *)
(* which PAM runs for every session (image, cleanup, mounts), and          *)
(* setupSymlink of the hook helpers, which moves a game's data out of its  *)
(* folder into the user's.                                                 *)
(*                                                                         *)
(* A bottle is read from the base layer unless the user's upper layer      *)
(* changes it; .keep deletes those changes in the upper layer and keeps    *)
(* drive_c/users/steamuser, where user data is.  Each user plays one game, *)
(* whose hook calls setupSymlink once, and starts it once at a time.       *)
(* Only user mode is modelled: in admin mode the script ends at once.      *)
(***************************************************************************)
EXTENDS Naturals, Sequences, FiniteSets

CONSTANTS User, Session,
          SameStart, \* user -> the users whose names start with its name
          Kind,      \* user -> its game's data is a "file" or a "dir"
          Strategy,  \* user -> SymlinkStrategy of its game's hook
          MaxBoots   \* bound: boots of the guest

ASSUME NamesAssumption == SameStart \in [User -> SUBSET User] /\ \A u \in User : u \in SameStart[u]
ASSUME GamesAssumption == /\ Kind \in [User -> {"file", "dir"}]
                          /\ Strategy \in [User -> {"Move", "Empty", "TplSrc"}]
ASSUME BootsAssumption == MaxBoots \in Nat \ {0}

VARIABLES boots,
          image,   \* user -> the file /mnt/homes/<user>: "none", "blank", "ext4", or
                   \* "layers" with the folders of the overlay in it
          marker,  \* users with .keepApplied in their upper layer
          src,     \* user -> the game's data in the bottle, as the user sees it
          dst,     \* user -> what is at the link's target in the user data
          base, overlay, home,  \* users whose base, image and home are mounted
          who, pc, \* session -> whose it is and what it does
          pending, \* users whose image was mounted, whose old marker may still be there
          missed   \* users whose cleanup was skipped for it, or left out some files

disk    == <<image, marker, src, dst>>
mounts  == <<base, overlay, home>>
history == <<pending, missed>>
vars    == <<boots, disk, mounts, who, pc, history>>

Asserted == {"truncate", "mkfs", "bindfs", "mount", "mkdir", "keepEngine", "mountHome"}
Script == Asserted \cup {"rm", "test", "touch"}
Hook   == {"prepare", "fill", "move", "link"}

Init == /\ boots = 1
        /\ image = [u \in User |-> "none"] /\ marker = {}
        /\ src = [u \in User |-> "game"] /\ dst = [u \in User |-> {}]
        /\ base = {} /\ overlay = {} /\ home = {}
        /\ who \in [Session -> User] /\ pc = [s \in Session |-> "out"]
        /\ pending = {} /\ missed = {}

At(s, step) == pc[s] = step
GoTo(s, step) == pc' = [pc EXCEPT ![s] = step]

FileSystem == {"ext4", "layers"}

(* Mutant: the search is for the folder of all users.                      *)
GrepAny(mounted, u) == mounted # {}

(* mount | grep: a line of another mount may contain the path.             *)
Grep(mounted, u) == mounted \cap SameStart[u] # {}

-----------------------------------------------------------------------------
(* mountHome.sh                                                            *)

(* Mutant: an image that is not mounted is created.                        *)
NeedsImageUnmounted(u) == u \notin overlay
NeedsImage(u) == image[u] = "none"

Login(s) ==
    /\ At(s, "out")
    /\ GoTo(s, IF NeedsImage(who[s]) THEN "truncate" ELSE "bindfs")
    /\ UNCHANGED <<boots, disk, mounts, who, history>>

(* What is mounted is not mounted again.                                   *)
Skipped(s) == \/ At(s, "bindfs") /\ who[s] \in base
              \/ At(s, "mountHome") /\ Grep(home, who[s])

(* assertSuccessfull exits with the error of its command; PAM rejects.     *)
CommandFails(s) ==
    /\ pc[s] \in Asserted /\ ~Skipped(s)
    /\ GoTo(s, "out")
    /\ UNCHANGED <<boots, disk, mounts, who, history>>

(* truncate to the size a file has changes nothing.                        *)
(* Mutant: its blocks are given up.                                        *)
TruncatedToZeros(file) == "blank"
Truncated(file) == IF file = "none" THEN "blank" ELSE file

Truncate(s) ==
    /\ At(s, "truncate")
    /\ image' = [image EXCEPT ![who[s]] = Truncated(@)]
    /\ GoTo(s, "mkfs")
    /\ UNCHANGED <<boots, marker, src, dst, mounts, who, history>>

(* mkfs refuses an image that is mounted; it empties any other.            *)
Mkfs(s) ==
    LET u == who[s] IN
    /\ At(s, "mkfs") /\ u \notin overlay
    /\ image' = [image EXCEPT ![u] = "ext4"] /\ marker' = marker \ {u}
    /\ src' = [src EXCEPT ![u] = "game"] /\ dst' = [dst EXCEPT ![u] = {}]
    /\ GoTo(s, "bindfs")
    /\ UNCHANGED <<boots, mounts, who, history>>

Bindfs(s) ==
    /\ At(s, "bindfs")
    /\ base' = base \cup {who[s]}
    /\ GoTo(s, IF Grep(overlay, who[s]) THEN "test" ELSE "mount")
    /\ UNCHANGED <<boots, disk, overlay, home, who, history>>

MountImage(s) ==
    LET u == who[s] IN
    /\ At(s, "mount") /\ image[u] \in FileSystem
    /\ overlay' = overlay \cup {u} /\ pending' = pending \cup {u}
    /\ GoTo(s, "mkdir")
    /\ UNCHANGED <<boots, disk, base, home, who, missed>>

(* mkdir on the mounted image, and chown, which may fail                   *)
Mkdir(s) ==
    /\ At(s, "mkdir")
    /\ image' = [image EXCEPT ![who[s]] = "layers"]
    /\ GoTo(s, "rm") \/ GoTo(s, "out")
    /\ UNCHANGED <<boots, marker, src, dst, mounts, who, history>>

(* Mutant: the marker of the last boot stays.                              *)
UnmarkedNever(u) == marker
Unmarked(u) == marker \ {u}

(* The result of rm is not looked at.                                      *)
RemoveMarker(s) ==
    LET u == who[s] IN
    /\ At(s, "rm")
    /\ \/ marker' = Unmarked(u) /\ pending' = pending \ {u}
       \/ u \in marker /\ UNCHANGED <<marker, pending>>
    /\ GoTo(s, "test")
    /\ UNCHANGED <<boots, image, src, dst, mounts, who, missed>>

HasMarker(u) == u \in overlay \cap marker

TestMarker(s) ==
    LET u == who[s] IN
    /\ At(s, "test")
    /\ \/ HasMarker(u) /\ GoTo(s, "mountHome")
          /\ missed' = missed \cup (pending \cap {u})
          /\ UNCHANGED pending
       \/ ~HasMarker(u) /\ GoTo(s, "keepEngine")
          /\ pending' = pending \ {u}
          /\ UNCHANGED missed
    /\ UNCHANGED <<boots, disk, mounts, who>>

(* keepEngine removes what the upper layer changes in bottles, or fails to *)
(* remove or to list some of it, of which its exit code says nothing.      *)
KeepEngine(s) ==
    LET u == who[s] IN
    /\ At(s, "keepEngine") /\ u \in overlay /\ image[u] = "layers"
    /\ \/ src' = [src EXCEPT ![u] = "game"] /\ UNCHANGED missed
       \/ missed' = missed \cup {u} /\ UNCHANGED src
    /\ GoTo(s, "touch")
    /\ UNCHANGED <<boots, image, marker, dst, mounts, who, pending>>

(* It panics on a name that is not UTF-8, the bottles removed already;     *)
(* when the folder is missing it does so at once (CommandFails).           *)
KeepEnginePanics(s) ==
    LET u == who[s] IN
    /\ At(s, "keepEngine") /\ u \in overlay /\ image[u] = "layers"
    /\ src' = [src EXCEPT ![u] = "game"]
    /\ GoTo(s, "out")
    /\ UNCHANGED <<boots, image, marker, dst, mounts, who, history>>

(* The result of touch is not looked at.                                   *)
TouchMarker(s) ==
    /\ At(s, "touch")
    /\ marker' \in {marker, marker \cup {who[s]}}
    /\ GoTo(s, "mountHome")
    /\ UNCHANGED <<boots, image, src, dst, mounts, who, history>>

(* An overlay needs its three directories.                                 *)
MountHome(s) ==
    LET u == who[s] IN
    /\ At(s, "mountHome")
    /\ Grep(home, u) \/ (u \in base \cap overlay /\ image[u] = "layers")
    /\ home' = IF Grep(home, u) THEN home ELSE home \cup {u}
    /\ GoTo(s, "in")
    /\ UNCHANGED <<boots, disk, base, overlay, who, history>>

(* Nothing is unmounted when a session closes.                             *)
Logout(s) ==
    /\ pc[s] \in {"in", "playing"}
    /\ GoTo(s, "out")
    /\ UNCHANGED <<boots, disk, mounts, who, history>>

Boot ==
    /\ boots < MaxBoots
    /\ boots' = boots + 1
    /\ base' = {} /\ overlay' = {} /\ home' = {}
    /\ pc' = [s \in Session |-> "out"]
    /\ pending' = {} /\ missed' = {}
    /\ UNCHANGED <<disk, who>>

-----------------------------------------------------------------------------
(* setupSymlink, called by the hook of the game that the user starts       *)

(* Only in a home does a game's data survive, and does the hook find it.   *)
Playable(s) == At(s, "in") /\ who[s] \in home
            /\ \A t \in Session \ {s} : who[t] = who[s] => pc[t] \notin Hook

Moved == [Move |-> "game", Empty |-> "empty", TplSrc |-> "template"]

(* What a strategy's check and prepare reject; the hook raises, no game    *)
(* starts.                                                                 *)
Accepts(u) == IF Strategy[u] = "TplSrc" THEN Kind[u] = "file" \/ src[u] = "gone"
                                        ELSE src[u] # "gone"

StartGame(s) ==
    LET u == who[s] IN
    /\ Playable(s)
    /\ \/ src[u] = "link" /\ GoTo(s, "playing")
       \/ src[u] # "link" /\ Accepts(u) /\ GoTo(s, IF Strategy[u] = "Move" THEN "move" ELSE "prepare")
    /\ UNCHANGED <<boots, disk, mounts, who, history>>

(* Empty and TplSrc remove the data of the game ...                        *)
RemoveSource(s) ==
    /\ At(s, "prepare")
    /\ src' = [src EXCEPT ![who[s]] = "gone"]
    /\ GoTo(s, "fill")
    /\ UNCHANGED <<boots, image, marker, dst, mounts, who, history>>

(* ... and put their own in its place.                                     *)
FillSource(s) ==
    /\ At(s, "fill")
    /\ src' = [src EXCEPT ![who[s]] = Moved[Strategy[who[s]]]]
    /\ GoTo(s, "move")
    /\ UNCHANGED <<boots, image, marker, dst, mounts, who, history>>

(* shutil.move: a file replaces what is there, a directory goes into it    *)
(* unless one of its name is in there already.                             *)
(* Mutant: only a target that exists receives anything.                    *)
ReceivedIfThere(u) == IF dst[u] = {} THEN {} ELSE {src[u]}
Received(u) == IF Kind[u] = "file" \/ dst[u] = {} THEN {src[u]} ELSE dst[u] \cup {"nested"}

MoveSource(s) ==
    LET u == who[s] IN
    /\ At(s, "move") /\ "nested" \notin dst[u]
    /\ dst' = [dst EXCEPT ![u] = Received(u)]
    /\ src' = [src EXCEPT ![u] = "gone"]
    /\ GoTo(s, "link")
    /\ UNCHANGED <<boots, image, marker, mounts, who, history>>

MoveRaises(s) ==
    /\ At(s, "move") /\ "nested" \in dst[who[s]]
    /\ GoTo(s, "in")
    /\ UNCHANGED <<boots, disk, mounts, who, history>>

LinkSource(s) ==
    /\ At(s, "link")
    /\ src' = [src EXCEPT ![who[s]] = "link"]
    /\ GoTo(s, "playing")
    /\ UNCHANGED <<boots, image, marker, dst, mounts, who, history>>

(* The game saves through the link.                                        *)
SaveGame(s) ==
    /\ At(s, "playing")
    /\ dst' = [dst EXCEPT ![who[s]] = @ \cup {"saved"}]
    /\ UNCHANGED <<boots, image, marker, src, mounts, who, pc, history>>

LoginScript(s) ==
    \/ Truncate(s) \/ Mkfs(s) \/ Bindfs(s) \/ MountImage(s) \/ Mkdir(s) \/ RemoveMarker(s)
    \/ TestMarker(s) \/ KeepEngine(s) \/ KeepEnginePanics(s) \/ TouchMarker(s) \/ MountHome(s)
    \/ CommandFails(s)

SetupSymlink(s) ==
    RemoveSource(s) \/ FillSource(s) \/ MoveSource(s) \/ MoveRaises(s) \/ LinkSource(s)

Next == \/ \E s \in Session : \/ Login(s) \/ LoginScript(s) \/ Logout(s)
                             \/ StartGame(s) \/ SetupSymlink(s) \/ SaveGame(s)
        \/ Boot

Spec == Init /\ [][Next]_vars

-----------------------------------------------------------------------------
(* The mounts and the files they need: a mounted image is a file system,   *)
(* only a mounted one waits for its marker to be removed, and a home is    *)
(* put together from the user's own image and view of the base, although   *)
(* the script looks mounts up by a piece of their text (mountHome.sh:49-75).*)
TypeOK ==
    /\ boots \in 1 .. MaxBoots /\ who \in [Session -> User]
    /\ pc \in [Session -> Script \cup Hook \cup {"out", "in", "playing"}]
    /\ image \in [User -> {"none", "blank"} \cup FileSystem] /\ marker \subseteq User
    /\ src \in [User -> {"game", "gone", "link", "empty", "template"}]
    /\ dst \in [User -> SUBSET {"game", "empty", "template", "saved", "nested"}]
    /\ base \cup overlay \cup missed \subseteq User
    /\ pending \subseteq overlay
    /\ \A u \in overlay : image[u] \in FileSystem
    /\ home \subseteq base \cap overlay
    /\ \A u \in home : image[u] = "layers"

(* "Before the two layers are put together, a cleanup process runs across  *)
(* both of them" (.keep:14): in every home the bottle is that of the base  *)
(* again when it is mounted, unless the old marker was found before or     *)
(* after rm failed to remove it, or keepEngine left something out.         *)
CleanedBeforeUse == [][\A u \in home' \ home : src[u] = "game" \/ u \in missed]_vars

(* "Each users settings and game states are stored in their own persistent *)
(* home storage" (README.md:9): a user who is let in has their home, unless *)
(* that of a user whose name starts the same was taken for it.             *)
SessionsHaveHomes ==
    \A s \in Session : pc[s] \in Hook \cup {"in", "playing"} =>
        who[s] \in home \/ \E u \in home \ {who[s]} : u \in SameStart[who[s]]

(* A link never dangles: whatever a loss of power or a cleanup interrupts, *)
(* a game that finds its link finds the data behind it (userdata.py:27).   *)
LinksResolve == \A u \in User : src[u] = "link" => dst[u] # {}

(* No login, whatever it overtakes, formats an image that holds user data  *)
(* (mountHome.sh:41-45).                                                   *)
ImagesKeepData == [][\A u \in User : dst[u] # {} => dst'[u] # {}]_vars

(* "If dstPath already exists, this is a No-Op" (userdata.py:98): setting  *)
(* up the link again never costs the user what the game saved.             *)
SavedDataSurvives ==
    [][\A u \in User : "saved" \in dst[u] => "saved" \in dst'[u]]_vars
=============================================================================
