------------------------------ MODULE MCHomes -------------------------------
(* Instances of Homes for TLC: bob's name starts that of bobby.            *)
EXTENDS Homes, TLC
CONSTANTS bob, bobby

Sessions == Permutations(Session)

MCSameStart == bob :> {bob, bobby} @@ bobby :> {bobby}
MCKind == bob :> "file" @@ bobby :> "dir"
MCStrategy == bob :> "TplSrc" @@ bobby :> "Empty"
MCMove == bob :> "Move" @@ bobby :> "Move"
=============================================================================
