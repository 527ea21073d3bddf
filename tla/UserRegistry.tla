---------------------------- MODULE UserRegistry ----------------------------
(***************************************************************************)
(* What the user service of the API server promises, without locks, files  *)
(* or requests in progress: a list of registered users that only grows,    *)
(* one atomic registration at a time, until the server stops.  A restart   *)
(* may have forgotten the most recent registrations, and may remember the  *)
(* one that was in progress when the server stopped; it invents nothing.   *)
(*                                                                         *)
(* UserService.tla is the detailed specification, shown to implement this  *)
(* one by TLC (runs of MCUserService) and by TLAPS (UserServiceProofs).    *)
(***************************************************************************)
EXTENDS Integers, SequencesExt

CONSTANTS
    Name,       \* user names
    FirstId     \* id of the first user

VARIABLES
    status,     \* "up", "down" (stopped) or "failed" (could not be started)
    users       \* the registered users, oldest first

vars == <<status, users>>

User == [id : Nat, name : Name]

Names(list) == {list[i].name : i \in DOMAIN list}

\* Registering n after the users in list: ids are given out densely.
Registered(list, n) == Append(list, [id |-> FirstId + Len(list), name |-> n])

Init ==
    /\ status = "up"
    /\ users = <<>>

Register(n) ==
    /\ status = "up"
    /\ n \in Name \ Names(users)
    /\ users' = Registered(users, n)
    /\ UNCHANGED status

Stop ==
    /\ status = "up"
    /\ status' = "down"
    /\ UNCHANGED users

\* The registrations a restart may come back with.
Recoverable ==
    {SubSeq(users, 1, n) : n \in 0..Len(users)} \union
    {Registered(users, n) : n \in Name \ Names(users)}

Start ==
    /\ status = "down"
    /\ status' \in {"up", "failed"}
    /\ IF status' = "up" THEN users' \in Recoverable ELSE UNCHANGED users

Next ==
    \/ \E n \in Name : Register(n)
    \/ Stop
    \/ Start

Spec == Init /\ [][Next]_vars

-----------------------------------------------------------------------------
TypeOK ==
    /\ status \in {"up", "down", "failed"}
    /\ users \in Seq(User)

=============================================================================
