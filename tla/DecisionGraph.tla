--------------------------- MODULE DecisionGraph ---------------------------
(***************************************************************************)
(* The decision graph of keepEngine (decisiongraph.rs): the rules of a     *)
(* .keep file merged into an ordered tree of pattern segments, and the     *)
(* search in it for what to do with a path.                                *)
(*                                                                         *)
(* A path is a sequence of segments, a pattern a sequence of segment       *)
(* patterns.  Glob says which segments the regular expression of a segment *)
(* pattern matches.                                                        *)
(***************************************************************************)
EXTENDS Naturals, Sequences, SequencesExt

CONSTANTS Segment,   \* names of files and directories
          Unicode,   \* the segments that are valid UTF-8
          Glob,      \* segment pattern -> the segments it matches
          MaxLength  \* bound: segments of a pattern

ASSUME SegmentAssumption == Unicode \subseteq Segment
ASSUME GlobAssumption == /\ \A g \in DOMAIN Glob : Glob[g] \subseteq Segment
                         /\ "**" \in DOMAIN Glob /\ Glob["**"] = Segment
ASSUME LengthAssumption == MaxLength \in Nat \ {0}

(***************************************************************************)
(* Nodes.  A MultiSegmentNode stands for "**"; everything else, the "**"   *)
(* the graph starts with included, is a SingleSegmentNode.  "actions" is   *)
(* an Option: a set of at most one.                                        *)
(***************************************************************************)
MultiSegmentNode(actions) ==
    [multi |-> TRUE, pattern |-> "**", actions |-> actions, children |-> <<>>]

SingleSegmentNode(pattern, actions) ==
    [multi |-> FALSE, pattern |-> pattern, actions |-> actions, children |-> <<>>]

NodeFromSegmentPattern(pattern, actions) ==
    IF pattern = "**" THEN MultiSegmentNode(actions) ELSE SingleSegmentNode(pattern, actions)

Actions(base, user) == [base |-> base, user |-> user]
Decision == [base : {"keep", "delete"}, user : {"keep", "delete"}]

(* The nodes with at most "height" nodes from themselves to a leaf.        *)
Node[height \in Nat] ==
    IF height = 0 THEN {}
    ELSE [multi : BOOLEAN, pattern : DOMAIN Glob, actions : SUBSET Decision,
          children : Seq(Node[height - 1])]

NewGraph == << SingleSegmentNode("**", {Actions("delete", "keep")}) >>

(***************************************************************************)
(* add_rule: the last segment of a pattern replaces the children with that *)
(* pattern; an earlier one goes down into all of them, of which the last   *)
(* child has to be one.                                                    *)
(***************************************************************************)
Replaced(children, pattern) ==
    LET others[n \in 0 .. Len(children)] ==
            IF n = 0 THEN <<>>
            ELSE IF children[n].pattern = pattern THEN others[n - 1]
            ELSE Append(others[n - 1], children[n])
    IN  others[Len(children)]

(* Mutant: any child with the pattern will do.                             *)
EndsWithAny(children, pattern) == \E i \in DOMAIN children : children[i].pattern = pattern
EndsWith(children, pattern) == children # <<>> /\ Last(children).pattern = pattern

Patterns(length) == {pattern \in Seq(DOMAIN Glob) : Len(pattern) \in 1 .. length}

(* What TraverseAdd does, with "below" in place of itself one level down.   *)
AddedTo(children, pattern, actions, below) ==
    LET first == Head(pattern)
        grown == IF EndsWith(children, first)
                 THEN children
                 ELSE Append(children, NodeFromSegmentPattern(first, {}))
    IN  IF Len(pattern) = 1
        THEN Append(Replaced(children, first), NodeFromSegmentPattern(first, {actions}))
        ELSE [i \in DOMAIN grown |->
                IF grown[i].pattern = first
                THEN [grown[i] EXCEPT !.children = below[@][Tail(pattern)][actions]]
                ELSE grown[i]]

TraverseAdd[height \in Nat] ==
    [children \in Seq(Node[height]) |-> [pattern \in Patterns(height) |-> [actions \in Decision |->
        AddedTo(children, pattern, actions, TraverseAdd[height - 1])]]]

(***************************************************************************)
(* get_action: every matching node overwrites the result of those before   *)
(* it.  A slice or an index out of range panics.                           *)
(***************************************************************************)
Result == [actions : Decision, descend : BOOLEAN, panic : BOOLEAN]

Overwritten(result, node) ==
    IF node.actions = {} THEN result
    ELSE [result EXCEPT !.actions = CHOOSE a \in node.actions : TRUE]

Panicked(result) == [result EXCEPT !.panic = TRUE]

(* Each step takes the result of the one before.                           *)
InTurn(steps, result) == FoldLeft(LAMBDA r, step : step[r], result, steps)

(* How many segments a "**" tries to consume, in this order: the source    *)
(* counts its children, not the segments.                                  *)
Consumed(node, segments) == [n \in 1 .. (Len(node.children) - 2) |-> n]

(* What get_action of a node does, with "below" for that of its children.  *)
Visited(node, segments, result, below) ==
    LET own == Overwritten(result, node)
        deeper == [own EXCEPT !.descend = @ \/ (Len(segments) = 1 /\ node.children # <<>>)]
        rest(n) == SubSeq(segments, n + 1, Len(segments))
        children(n) == [i \in DOMAIN node.children |-> below[node.children[i]][rest(n)]]
        try(n) == [r \in Result |-> IF n > Len(segments) THEN Panicked(r)
                                    ELSE InTurn(children(n), r)]
        tries == Consumed(node, segments)
    IN  IF result.panic THEN result
        ELSE IF node.multi THEN InTurn([i \in DOMAIN tries |-> try(tries[i])], deeper)
        ELSE IF segments = <<>> THEN Panicked(result)
        ELSE IF Head(segments) \notin Glob[node.pattern] THEN result
        ELSE IF Len(segments) = 1 THEN deeper
        ELSE InTurn(children(1), own)

NodeAction[height \in Nat] ==
    [node \in Node[height] |-> [segments \in Seq(Segment) |-> [result \in Result |->
        Visited(node, segments, result, NodeAction[height - 1])]]]

(* A path that is not UTF-8 has no str.                                    *)
GetAction(graph, path) ==
    LET start == [actions |-> Actions("keep", "keep"), descend |-> FALSE,
                  panic |-> \E i \in DOMAIN path : path[i] \notin Unicode]
    IN  InTurn([i \in DOMAIN graph |-> NodeAction[MaxLength][graph[i]][path]], start)

(***************************************************************************)
(* What the rules mean, without a graph: the last rule that matches the    *)
(* path or a directory above it decides.  "**" matches one or more         *)
(* segments.                                                               *)
(***************************************************************************)
MatchesPath(pattern, path) ==
    \E ends \in [0 .. Len(pattern) -> 0 .. Len(path)] :
        /\ ends[0] = 0
        /\ \A i \in 1 .. Len(pattern) :
            IF pattern[i] = "**"
            THEN ends[i] > ends[i - 1]
            ELSE ends[i] = ends[i - 1] + 1 /\ path[ends[i]] \in Glob[pattern[i]]

(* The rule for everything that a .keep file starts from.                  *)
DefaultRule == [pattern |-> <<"**">>, actions |-> Actions("delete", "keep")]

LastRule(rules, path) ==
    LET all == <<DefaultRule>> \o rules
    IN  all[SelectLastInSeq(all, LAMBDA r : MatchesPath(r.pattern, path))]
=============================================================================
