---------------------------- MODULE MCKeepEngine ----------------------------
(* Instances of KeepEngine for TLC: a folder of three levels.              *)
EXTENDS KeepEngine, TLC

MCSegment == {"a", "b", ".keep", "latin1"}
MCUnicode == MCSegment \ {"latin1"}
MCGlob == [g \in MCSegment \cup {"*", "**"} |-> IF g \in MCSegment THEN {g} ELSE MCSegment]

(* "**" is used as the shipped .keep file uses it: as the last segment.    *)
MCPattern == {<<"a">>, <<"*">>, <<"**">>, <<"a", "b">>, <<"*", "b">>, <<"a", "**">>, <<"a", "b", "a">>}
MCInnerPattern == {<<"a", "**", "b">>}

MCDir == {<<"a">>, <<"a", "b">>}
MCTrees == {MCDir \cup {<<"a", "b", "a">>, <<"a", "a">>, <<".keep">>}, MCDir \cup {<<"a", "b", "latin1">>}}
MCInnerTrees == {MCDir \cup {<<"a", "b", "a">>, <<"a", "b", "b">>, <<"b">>}}
=============================================================================
