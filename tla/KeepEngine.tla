----------------------------- MODULE KeepEngine -----------------------------
(***************************************************************************)
(* One run of keepEngine (main.rs): the rules of a .keep file enter the    *)
(* decision graph line by line, then a depth-first traversal of a folder   *)
(* deletes what they say.  Files and directories are the paths in "tree",  *)
(* relative to the folder.                                                 *)
(*                                                                         *)
(* Left out: --verbose and --dryrun, which no caller passes.               *)
(***************************************************************************)
EXTENDS DecisionGraph

CONSTANTS Pattern,   \* patterns of the rules a .keep file may hold
          MaxRules,  \* bound: lines of the .keep file
          Trees,     \* sets of paths: the folder before the cleanup
          Dir        \* those of their paths that are directories

ASSUME RulesAssumption == /\ MaxRules \in Nat /\ Pattern \subseteq Patterns(MaxLength)
                          /\ ".keep" \in DOMAIN Glob
ASSUME TreesAssumption ==
    \A t \in Trees : t \subseteq Seq(Segment) \ {<<>>} /\
        \A p \in t : Len(p) > 1 => Front(p) \in t \cap Dir

VARIABLES mode,     \* which action of a rule applies: "base" or "user"
          rules,    \* the rules read so far
          graph,    \* the children of the DecisionGraph
          phase,    \* "parse", "traverse", "done" or how the run ended early
          tree,     \* the paths that exist
          leftover, \* the paths that were not listed or whose removal failed
          stack     \* the calls of traverse, the innermost first

vars == <<mode, rules, graph, phase, tree, leftover, stack>>

Rule == [pattern : Pattern, actions : {Actions("keep", "delete"), Actions("delete", "keep")}]

(* The rule that parse_rules adds after the last line.                     *)
EnforcedRule == [pattern |-> <<".keep">>, actions |-> Actions("keep", "delete")]

AddRule(children, rule) == TraverseAdd[MaxLength][children][rule.pattern][rule.actions]

AtOrBelow(p) == {q \in tree : IsPrefix(p, q)}

Entries(dir) == {q \in tree : Front(q) = dir}

(* Mutant: the whole subtree at once.                                      *)
FrameDeep(dir) == [dir |-> dir, todo |-> AtOrBelow(dir) \ {dir}, empty |-> TRUE]
Frame(dir) == [dir |-> dir, todo |-> Entries(dir), empty |-> TRUE]

Init == /\ mode \in {"base", "user"}
        /\ rules = <<>> /\ graph = NewGraph
        /\ phase = "parse"
        /\ tree \in Trees /\ leftover = {}
        /\ stack = <<>>

-----------------------------------------------------------------------------
(* parse_rules                                                             *)

ReadRule(rule) ==
    /\ phase = "parse" /\ Len(rules) < MaxRules
    /\ rules' = Append(rules, rule)
    /\ graph' = AddRule(graph, rule)
    /\ UNCHANGED <<mode, phase, tree, leftover, stack>>

(* A line that is no rule ends the program.                                *)
ReadGarbage ==
    /\ phase = "parse"
    /\ phase' = "panicked"
    /\ UNCHANGED <<mode, rules, graph, tree, leftover, stack>>

StartTraversal ==
    /\ phase = "parse"
    /\ rules' = Append(rules, EnforcedRule)
    /\ graph' = AddRule(graph, EnforcedRule)
    /\ phase' = "traverse"
    /\ stack' = <<Frame(<<>>)>>
    /\ UNCHANGED <<mode, tree, leftover>>

-----------------------------------------------------------------------------
(* traverse                                                                *)

Top == Head(stack)

Entry(p) == phase = "traverse" /\ p \in Top.todo

Decides(p, action) ==
    LET decision == GetAction(graph, p)
    IN  ~decision.panic /\ decision.actions[mode] = action

(* The path is a directory that the traversal enters.                      *)
(* Mutant: a directory that is to be deleted goes with all it holds.       *)
EnteredIfKept(p) == p \in Dir /\ GetAction(graph, p).descend /\ ~Decides(p, "delete")
Entered(p) == p \in Dir /\ GetAction(graph, p).descend

(* The caller's is_empty is ANDed with what its entry p reports.           *)
(* Mutant: a directory with entries is never empty.                        *)
HandledNonEmpty(frames, p, isEmpty) ==
    <<[Head(frames) EXCEPT !.todo = @ \ {p}, !.empty = FALSE]>> \o Tail(frames)
Handled(frames, p, isEmpty) ==
    <<[Head(frames) EXCEPT !.todo = @ \ {p}, !.empty = @ /\ isEmpty]>> \o Tail(frames)

(* What may be left of p when its removal fails, which is ignored.         *)
Remains(p) == {left \in SUBSET AtOrBelow(p) : \A q \in left : Len(q) > Len(p) => Front(q) \in left}

Delete(p, left) ==
    /\ tree' = (tree \ AtOrBelow(p)) \cup left
    /\ leftover' = leftover \cup left

KeepEntry(p) ==
    /\ Entry(p) /\ ~Entered(p) /\ Decides(p, "keep")
    /\ stack' = Handled(stack, p, FALSE)
    /\ UNCHANGED <<mode, rules, graph, phase, tree, leftover>>

(* remove_file or remove_dir_all                                           *)
RemoveEntry(p) ==
    /\ Entry(p) /\ ~Entered(p) /\ Decides(p, "delete")
    /\ \E left \in Remains(p) : Delete(p, left)
    /\ stack' = Handled(stack, p, TRUE)
    /\ UNCHANGED <<mode, rules, graph, phase>>

EnterDir(p) ==
    /\ Entry(p) /\ Entered(p) /\ ~GetAction(graph, p).panic
    /\ stack' = <<Frame(p)>> \o stack
    /\ UNCHANGED <<mode, rules, graph, phase, tree, leftover>>

(* remove_dir removes nothing while the directory has entries.             *)
LeaveDir ==
    /\ phase = "traverse" /\ Len(stack) > 1 /\ Top.todo = {}
    /\ IF Top.empty /\ Decides(Top.dir, "delete") /\ Entries(Top.dir) = {}
       THEN \E left \in Remains(Top.dir) : Delete(Top.dir, left)
       ELSE UNCHANGED <<tree, leftover>>
    /\ stack' = Handled(Tail(stack), Top.dir, Top.empty)
    /\ UNCHANGED <<mode, rules, graph, phase>>

Finish ==
    /\ phase = "traverse" /\ Len(stack) = 1 /\ Top.todo = {}
    /\ phase' = "done"
    /\ stack' = <<>>
    /\ UNCHANGED <<mode, rules, graph, tree, leftover>>

(* get_action panics on this path.                                         *)
Panic(p) ==
    /\ Entry(p) /\ GetAction(graph, p).panic
    /\ phase' = "panicked"
    /\ UNCHANGED <<mode, rules, graph, tree, leftover, stack>>

(* An error for an entry while its directory is iterated: filter_map drops *)
(* it, and the traversal goes on as if the entry were not there.           *)
SkipEntry(p) ==
    /\ Entry(p)
    /\ leftover' = leftover \cup AtOrBelow(p)
    /\ stack' = Handled(stack, p, TRUE)
    /\ UNCHANGED <<mode, rules, graph, phase, tree>>

(* read_dir or file_type fails: every call of traverse returns, apply_keep *)
(* ignores it.                                                             *)
TraversalFails ==
    /\ phase = "traverse"
    /\ phase' = "aborted"
    /\ stack' = <<>>
    /\ UNCHANGED <<mode, rules, graph, tree, leftover>>

Paths == UNION Trees

Next == \/ \E rule \in Rule : ReadRule(rule)
        \/ ReadGarbage \/ StartTraversal
        \/ \E p \in Paths : KeepEntry(p) \/ RemoveEntry(p) \/ EnterDir(p) \/ SkipEntry(p) \/ Panic(p)
        \/ LeaveDir \/ Finish \/ TraversalFails

Spec == Init /\ [][Next]_vars

-----------------------------------------------------------------------------
(* Every call of traverse is on a directory, entered from the one below it *)
(* on the stack, and still has to handle entries of that directory only    *)
(* (main.rs, traverse).                                                    *)
TypeOK ==
    /\ mode \in {"base", "user"} /\ phase \in {"parse", "traverse", "done", "panicked", "aborted"}
    /\ rules \in Seq(Rule \cup {EnforcedRule})
    /\ tree \in SUBSET Paths /\ leftover \subseteq tree
    /\ \A i \in DOMAIN stack :
        /\ \A p \in stack[i].todo : p \in tree /\ Front(p) = stack[i].dir
        /\ i < Len(stack) => stack[i].dir \in stack[i + 1].todo \cap Dir

(* "Each rule has the power to overrule all of its predecessors if it      *)
(* matches the same file again" (.keep, line 27): whatever nodes the rules *)
(* share in the graph, a path gets the actions of the last rule that       *)
(* matches it or a directory above it.  (The graph is complete when the    *)
(* traversal is done.)                                                     *)
LastRuleDecides ==
    phase \in {"parse", "done"} => \A p \in Paths \cap Seq(Unicode) :
        LET decision == GetAction(graph, p)
        IN  ~decision.panic /\ decision.actions = LastRule(rules, p).actions

Wanted(p) == LastRule(rules, p).actions[mode]

(* The traversal never deletes, as part of a directory or alone, a path    *)
(* the rules keep: also when it stops early or removals fail on its way.   *)
KeptPathsSurvive == [][\A p \in tree \ tree' : Wanted(p) = "delete"]_vars

(* A traversal that ran to its end leaves nothing the rules delete, unless *)
(* it holds something that is kept, that could not be removed or that the  *)
(* listing of its directory left out.                                      *)
DeletedPathsAreGone ==
    phase = "done" =>
        \A p \in tree : \E q \in AtOrBelow(p) : Wanted(q) = "keep" \/ q \in leftover

=============================================================================
