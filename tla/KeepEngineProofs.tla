-------------------------- MODULE KeepEngineProofs --------------------------
(***************************************************************************)
(* Proofs about KeepEngine: the shape of a run, for all rules; and for     *)
(* rules with "**" at their end only, that the last matching rule decides, *)
(* that a traversal which ran to its end leaves nothing behind and that    *)
(* nothing which is kept is ever deleted.                                  *)
(***************************************************************************)
EXTENDS KeepEngine, DecisionGraphProofs, TLAPS

\* The code finds the last rule for patterns with a "**" nowhere but at their end;
\* where it does not, keep_engine_doublestar shows.
TrailingPatterns == \A pattern \in Pattern : Trailing(pattern)

-----------------------------------------------------------------------------
(* Paths.                                                                  *)

\* The paths of a folder have a segment at least.
LEMMA PathsAreSequences ==
    /\ \A p \in Paths : p \in Seq(Segment) /\ p # <<>> /\ Len(p) \in Nat \ {0}
    /\ \A t \in Trees : t \subseteq Paths /\ \A p \in t : Len(p) > 1 => Front(p) \in t \cap Dir
<1>1. ASSUME NEW p \in Paths
      PROVE  p \in Seq(Segment) /\ p # <<>> /\ Len(p) \in Nat \ {0}
  <2>1. p \in Seq(Segment) /\ p # <<>>
    BY TreesAssumption DEF Paths
  <2> QED
    BY <2>1, TailProperties
<1>2. \A t \in Trees : t \subseteq Paths /\ \A p \in t : Len(p) > 1 => Front(p) \in t \cap Dir
  BY TreesAssumption DEF Paths
<1> QED
  BY <1>1, <1>2

\* Two prefixes of the same path.
LEMMA TwoPrefixes ==
    ASSUME NEW a \in Seq(Segment), NEW b \in Seq(Segment), NEW q \in Seq(Segment),
           IsPrefix(a, q), IsPrefix(b, q), Len(a) <= Len(b)
    PROVE  IsPrefix(a, b) /\ (Len(a) = Len(b) => a = b)
<1>1. /\ Len(a) \in Nat /\ Len(b) \in Nat
      /\ \A i \in 1 .. Len(a) : a[i] = q[i]
      /\ \A i \in 1 .. Len(b) : b[i] = q[i]
  BY PrefixPointwise
<1>2. \A i \in 1 .. Len(a) : i \in 1 .. Len(b) /\ a[i] = b[i]
  BY <1>1
<1>3. IsPrefix(a, b)
  BY <1>2, PrefixPointwise
<1>4. Len(a) = Len(b) => a = b
  BY <1>2
<1> QED
  BY <1>3, <1>4

\* A path and the directory that it is an entry of.
LEMMA ParentProperties ==
    ASSUME NEW e \in Seq(Segment), e # <<>>
    PROVE  /\ Front(e) \in Seq(Segment) /\ Len(e) = Len(Front(e)) + 1 /\ Len(Front(e)) \in Nat
           /\ IsPrefix(Front(e), e) /\ e # Front(e)
<1>1. /\ Front(e) \in Seq(Segment) /\ Len(Front(e)) = Len(e) - 1 /\ IsPrefix(Front(e), e)
  BY FrontProperties
<1>2. Len(e) \in Nat /\ Len(Front(e)) \in Nat
  BY <1>1
<1>3. Len(e) = Len(Front(e)) + 1
  BY <1>1, <1>2
<1>4. e # Front(e)
  BY <1>1, <1>2
<1> QED
  BY <1>1, <1>2, <1>3, <1>4

\* Of the entries of a directory at most one leads to a path.
LEMMA OneEntryLeads ==
    ASSUME NEW e \in Seq(Segment), e # <<>>, NEW x \in Seq(Segment), x # <<>>, Front(e) = Front(x),
           NEW q \in Seq(Segment), IsPrefix(e, q), IsPrefix(x, q)
    PROVE  e = x
<1>1. Len(e) = Len(x) /\ Len(e) \in Nat
  BY ParentProperties
<1>2. Len(e) <= Len(x)
  BY <1>1
<1> QED
  BY <1>1, <1>2, TwoPrefixes

\* What is above a path.
LEMMA PrefixLonger ==
    ASSUME NEW a \in Seq(Segment), NEW b \in Seq(Segment), IsPrefix(a, b)
    PROVE  Len(a) \in Nat /\ Len(b) \in Nat /\ Len(a) <= Len(b) /\ (Len(a) = Len(b) => a = b)
<1>1. Len(a) \in Nat /\ Len(b) \in Nat /\ Len(a) <= Len(b)
  BY PrefixPointwise
<1>2. IsPrefix(b, b)
  BY PrefixReflexive
<1> QED
  BY <1>1, <1>2, TwoPrefixes

\* A path is in a directory that is above it, or in one below that.
LEMMA PrefixOfFront ==
    ASSUME NEW a \in Seq(Segment), NEW b \in Seq(Segment), b # <<>>
    PROVE  IsPrefix(a, b) <=> a = b \/ IsPrefix(a, Front(b))
<1>1. /\ Front(b) \in Seq(Segment) /\ Len(b) = Len(Front(b)) + 1 /\ Len(Front(b)) \in Nat
      /\ IsPrefix(Front(b), b)
  BY ParentProperties
<1>2. ASSUME IsPrefix(a, b), a # b
      PROVE  IsPrefix(a, Front(b))
  <2>1. Len(a) \in Nat /\ Len(b) \in Nat /\ Len(a) <= Len(b) /\ Len(a) # Len(b)
    BY <1>2, PrefixLonger
  <2>2. Len(a) <= Len(Front(b))
    BY <1>1, <2>1
  <2> QED
    BY <1>1, <1>2, <2>2, TwoPrefixes
<1>3. ASSUME IsPrefix(a, Front(b))
      PROVE  IsPrefix(a, b)
  BY <1>1, <1>3, PrefixTransitive
<1>4. IsPrefix(b, b)
  BY PrefixReflexive
<1> QED
  BY <1>2, <1>3, <1>4

\* A set of paths that holds the directory of each of its paths.
ClosedTree(t) == t \subseteq Paths /\ \A p \in t : Len(p) > 1 => Front(p) \in t \cap Dir

\* It holds every directory above them.
LEMMA AboveInTree ==
    ASSUME NEW t, ClosedTree(t), NEW p \in t, NEW q \in Seq(Segment), q # <<>>, IsPrefix(q, p), q # p
    PROVE  q \in t \cap Dir
<1> DEFINE n == Len(p)
           Cut(k) == SubSeq(p, 1, n - k)
           m == n - 1
           Held == {k \in 0 .. m : Cut(k) \in t /\ (k > 0 => Cut(k) \in Dir)}
<1>1. p \in Seq(Segment) /\ p # <<>> /\ n \in Nat \ {0} /\ t \subseteq Paths
  BY PathsAreSequences DEF ClosedTree
<1>2. \A k \in 0 .. m : /\ n - k \in 0 .. Len(p) /\ Cut(k) \in Seq(Segment) /\ Len(Cut(k)) = n - k
                        /\ \A i \in 1 .. n - k : Cut(k)[i] = p[i]
  <2> SUFFICES ASSUME NEW k \in 0 .. m
               PROVE  /\ n - k \in 0 .. Len(p) /\ Cut(k) \in Seq(Segment) /\ Len(Cut(k)) = n - k
                      /\ \A i \in 1 .. n - k : Cut(k)[i] = p[i]
    OBVIOUS
  <2>1. n - k \in 0 .. Len(p)
    BY <1>1
  <2> QED
    BY <1>1, <2>1, SubSeqProperties
<1> HIDE DEF Cut
<1>3. 0 \in Held
  <2>1. 0 \in 0 .. m /\ n - 0 = n
    BY <1>1
  <2>2. Cut(0) = p
    <3>1. Cut(0) \in Seq(Segment) /\ Len(Cut(0)) = Len(p) /\ \A i \in 1 .. Len(p) : Cut(0)[i] = p[i]
      BY <1>2, <2>1
    <3> QED
      BY <1>1, <3>1
  <2> QED
    BY <2>1, <2>2
<1>4. ASSUME NEW k \in 0 .. m - 1, k \in Held
      PROVE  k + 1 \in Held
  <2>1. k + 1 \in 0 .. m /\ k \in 0 .. m /\ n - (k + 1) = (n - k) - 1 /\ n - k > 1 /\ n - k \in Nat /\ k + 1 > 0
    BY <1>1
  <2>2. Cut(k) \in t /\ Cut(k) \in Seq(Segment) /\ Len(Cut(k)) = n - k
    BY <1>2, <1>4, <2>1
  <2>3. Front(Cut(k)) \in t \cap Dir
    BY <2>1, <2>2 DEF ClosedTree
  <2>4. Front(Cut(k)) = Cut(k + 1)
    <3>1. Cut(k) # <<>>
      <4>1. Len(<<>>) = 0
        OBVIOUS
      <4> QED
        BY <2>1, <2>2, <4>1
    <3>2. /\ Front(Cut(k)) \in Seq(Segment) /\ Len(Front(Cut(k))) = (n - k) - 1
          /\ \A i \in 1 .. (n - k) - 1 : Front(Cut(k))[i] = Cut(k)[i]
      BY <2>2, <3>1, FrontProperties
    <3>3. /\ Cut(k + 1) \in Seq(Segment) /\ Len(Cut(k + 1)) = (n - k) - 1
          /\ \A i \in 1 .. (n - k) - 1 : Cut(k + 1)[i] = p[i]
      BY <1>2, <2>1
    <3>4. \A i \in 1 .. (n - k) - 1 : Cut(k)[i] = p[i]
      <4>1. \A i \in 1 .. (n - k) - 1 : i \in 1 .. n - k
        BY <2>1
      <4> QED
        BY <1>2, <2>1, <4>1
    <3> DEFINE u == Front(Cut(k))
               v == Cut(k + 1)
               l == (n - k) - 1
    <3>5. u \in Seq(Segment) /\ v \in Seq(Segment) /\ Len(u) = l /\ Len(v) = l
      BY <3>2, <3>3
    <3>6. \A i \in 1 .. l : u[i] = v[i]
      BY <3>2, <3>3, <3>4
    <3> HIDE DEF u, v, l
    <3>7. u = v
      BY <3>5, <3>6
    <3> QED
      BY <3>7 DEF u, v
  <2> QED
    BY <2>1, <2>3, <2>4
<1>5. 0 .. m \subseteq Held
  <2>1. m \in Nat
    BY <1>1
  <2> HIDE DEF Held, m
  <2> QED
    BY <1>3, <1>4, <2>1, InductionUpTo
<1>6. Len(q) \in Nat \ {0} /\ Len(q) <= n /\ Len(q) # n
  <2>1. Len(q) \in Nat \ {0}
    BY TailProperties
  <2> QED
    BY <1>1, <2>1, PrefixLonger
<1> DEFINE k == n - Len(q)
<1>7. k \in 0 .. m /\ k > 0 /\ n - k = Len(q)
  BY <1>1, <1>6
<1>8. q = Cut(k)
  <2>1. Cut(k) \in Seq(Segment) /\ Len(Cut(k)) = Len(q) /\ \A i \in 1 .. Len(q) : Cut(k)[i] = p[i]
    BY <1>2, <1>7
  <2>2. \A i \in 1 .. Len(q) : q[i] = p[i]
    BY <1>1, PrefixPointwise
  <2> HIDE DEF k
  <2> QED
    BY <2>1, <2>2
<1> QED
  BY <1>5, <1>7, <1>8

\* A directory leads to each path below it by one of its entries.
LEMMA EntryLeads ==
    ASSUME NEW t, ClosedTree(t), NEW p \in t, NEW dir \in Seq(Segment), IsPrefix(dir, p), dir # p
    PROVE  \E e \in t : Front(e) = dir /\ IsPrefix(e, p)
<1> DEFINE n == Len(dir)
           e == SubSeq(p, 1, n + 1)
<1>1. p \in Seq(Segment) /\ p # <<>>
  BY PathsAreSequences DEF ClosedTree
<1>2. n \in Nat /\ Len(p) \in Nat /\ n + 1 <= Len(p) /\ n + 1 \in 0 .. Len(p)
  BY <1>1, PrefixLonger
<1>3. e \in Seq(Segment) /\ Len(e) = n + 1 /\ \A i \in 1 .. n + 1 : e[i] = p[i]
  BY <1>1, <1>2, SubSeqProperties
<1> HIDE DEF e
<1>4. IsPrefix(e, p) /\ e # <<>>
  <2>1. Len(e) # 0 /\ Len(<<>>) = 0
    BY <1>2, <1>3
  <2> QED
    BY <1>1, <1>2, <1>3, <2>1, PrefixPointwise
<1>5. e \in t
  <2>1. CASE e = p
    BY <2>1
  <2>2. CASE e # p
    BY <1>3, <1>4, <2>2, AboveInTree
  <2> QED
    BY <2>1, <2>2
<1>6. Front(e) = dir
  <2>1. Front(e) \in Seq(Segment) /\ Len(e) = Len(Front(e)) + 1 /\ Len(Front(e)) \in Nat /\ IsPrefix(Front(e), e)
    BY <1>3, <1>4, ParentProperties
  <2>2. IsPrefix(Front(e), p)
    BY <1>1, <1>3, <1>4, <2>1, PrefixTransitive
  <2>3. Len(dir) = Len(Front(e)) /\ Len(dir) <= Len(Front(e))
    BY <1>2, <1>3, <2>1
  <2> QED
    BY <1>1, <2>1, <2>2, <2>3, TwoPrefixes
<1> QED
  BY <1>4, <1>5, <1>6

-----------------------------------------------------------------------------
(* The rules read so far and the graph.                                    *)

AllRules == Rule \cup {EnforcedRule}

\* The graph finds the last rule for the rules read so far.
GraphInv ==
    /\ rules \in Seq(AllRules)
    /\ graph \in Seq(Plain[MaxLength])
    /\ Represents(graph, rules)

\* The rules of a .keep file and the one the program adds are rules that the graph
\* can take.
LEMMA RulesFit ==
    ASSUME TrailingPatterns, NEW rule \in AllRules
    PROVE  /\ rule \in Rules /\ rule.pattern \in Patterns(MaxLength) /\ Trailing(rule.pattern)
<1>1. Actions("keep", "delete") \in Decision /\ Actions("delete", "keep") \in Decision
  BY DEF Actions, Decision
<1>2. CASE rule \in Rule
  <2>1. rule.pattern \in Pattern /\ rule.actions \in Decision
        /\ rule = [pattern |-> rule.pattern, actions |-> rule.actions]
    BY <1>1, <1>2 DEF Rule
  <2>2. rule.pattern \in Patterns(MaxLength) /\ rule.pattern \in Seq(DOMAIN Glob)
    BY <2>1, RulesAssumption DEF Patterns
  <2>3. rule \in Rules
    BY <2>1, <2>2 DEF Rules
  <2> QED
    BY <2>1, <2>2, <2>3 DEF TrailingPatterns
<1>3. CASE rule = EnforcedRule
  <2> DEFINE pattern == <<".keep">>
  <2>1. pattern \in Seq(DOMAIN Glob) /\ Len(pattern) = 1
    BY RulesAssumption
  <2> HIDE DEF pattern
  <2>2. pattern \in Patterns(MaxLength) /\ Trailing(pattern)
    <3>1. 1 \in 1 .. MaxLength /\ 1 .. Len(pattern) - 1 = {}
      BY <2>1, LengthAssumption
    <3> QED
      BY <2>1, <3>1 DEF Patterns, Trailing
  <2>3. EnforcedRule = [pattern |-> pattern, actions |-> Actions("keep", "delete")]
    BY DEF EnforcedRule, pattern
  <2>4. rule.pattern = pattern /\ rule \in Rules
    BY <1>1, <1>3, <2>1, <2>3 DEF Rules
  <2> QED
    BY <2>2, <2>4
<1> QED
  BY <1>2, <1>3 DEF AllRules

\* Sequences of those rules.
LEMMA RulesOfRules ==
    ASSUME TrailingPatterns
    PROVE  \A s \in Seq(AllRules) : s \in Seq(Rules)
<1>1. AllRules \subseteq Rules
  BY RulesFit
<1> QED
  BY <1>1

\* Reading one more rule.
LEMMA GraphGrows ==
    ASSUME TrailingPatterns, GraphInv, NEW rule \in AllRules,
           rules' = Append(rules, rule), graph' = AddRule(graph, rule)
    PROVE  GraphInv'
<1>1. rules \in Seq(Rules) /\ rule \in Rules /\ rule.pattern \in Patterns(MaxLength) /\ Trailing(rule.pattern)
  BY RulesFit, RulesOfRules DEF GraphInv
<1>2. /\ AddRule(graph, rule) \in Seq(Plain[MaxLength])
      /\ Represents(AddRule(graph, rule), Append(rules, rule))
  BY <1>1, RuleRepresented DEF GraphInv, AddRule
<1>3. Append(rules, rule) \in Seq(AllRules)
  BY DEF GraphInv
<1> QED
  BY <1>2, <1>3 DEF GraphInv

\* What the traversal does with a path on which get_action does not panic is what
\* the rules want, and where it does not descend they want it of all below.
LEMMA Decisions ==
    ASSUME TrailingPatterns, GraphInv, mode \in {"base", "user"}, NEW q \in Paths
    PROVE  /\ GetAction(graph, q).panic <=> \E i \in DOMAIN q : q[i] \notin Unicode
           /\ GetAction(graph, q).panic \in BOOLEAN
           /\ Wanted(q) \in {"keep", "delete"}
           /\ ~GetAction(graph, q).panic =>
                \A action : Decides(q, action) <=> Wanted(q) = action
           /\ ~GetAction(graph, q).panic /\ ~GetAction(graph, q).descend =>
                \A p \in Paths : IsPrefix(q, p) => Wanted(p) = Wanted(q)
<1>1. q \in Seq(Segment) /\ q # <<>> /\ rules \in Seq(Rules)
  BY PathsAreSequences, RulesOfRules DEF GraphInv
<1> DEFINE found == GetAction(graph, q)
<1>2. /\ found \in Result
      /\ found.panic <=> \E i \in DOMAIN q : q[i] \notin Unicode
      /\ ~found.panic => found.actions = LastRule(rules, q).actions
      /\ ~found.panic /\ ~found.descend =>
           \A p \in Seq(Segment) : p # <<>> /\ Above(q, p) => LastRule(rules, p).actions = LastRule(rules, q).actions
  BY <1>1, GetActionFinds DEF GraphInv
<1>3. LastRule(rules, q).actions \in Decision
  <2>1. LastRule(rules, q) \in Rules
    BY <1>1, LastRuleAppend
  <2> QED
    BY <2>1 DEF Rules
<1> HIDE DEF found
<1>4. Wanted(q) \in {"keep", "delete"}
  BY <1>3 DEF Wanted, Decision
<1>5. ASSUME ~found.panic, NEW action
      PROVE  Decides(q, action) <=> Wanted(q) = action
  BY <1>2, <1>5 DEF Decides, Wanted, found
<1>6. ASSUME ~found.panic, ~found.descend, NEW p \in Paths, IsPrefix(q, p)
      PROVE  Wanted(p) = Wanted(q)
  <2>1. p \in Seq(Segment) /\ p # <<>>
    BY PathsAreSequences
  <2>2. Above(q, p)
    BY <1>1, <1>6, <2>1, PrefixPointwise DEF Above
  <2> QED
    BY <1>2, <1>6, <2>1, <2>2 DEF Wanted
<1>7. found.panic \in BOOLEAN
  BY <1>2 DEF Result
<1> QED
  BY <1>2, <1>4, <1>5, <1>6, <1>7 DEF found

-----------------------------------------------------------------------------
(* The tree.                                                               *)

\* Every path of the tree lies in a directory of the tree, and what could not be
\* removed or was not listed is still there.
TreeInv == ClosedTree(tree) /\ leftover \subseteq tree

\* There is a reason for a path to be there after the traversal.
Settled(p) == \E q \in AtOrBelow(p) : Wanted(q) = "keep" \/ q \in leftover

\* What a removal leaves is a tree still.
LEMMA Removed ==
    ASSUME TreeInv, NEW x \in tree, NEW left \in Remains(x), Delete(x, left),
           \A q \in leftover : ~IsPrefix(x, q)
    PROVE  /\ TreeInv' /\ tree' \subseteq tree /\ left \subseteq AtOrBelow(x)
           /\ \A q \in tree : ~IsPrefix(x, q) => q \in tree'
           /\ \A q \in tree' : IsPrefix(x, q) => q \in left
           /\ leftover' = leftover \cup left /\ \A q \in leftover' : q \in leftover \/ IsPrefix(x, q)
<1>1. /\ tree' = (tree \ AtOrBelow(x)) \cup left /\ leftover' = leftover \cup left
      /\ left \subseteq AtOrBelow(x) /\ \A q \in left : Len(q) > Len(x) => Front(q) \in left
  BY DEF Delete, Remains
<1>2. /\ tree \subseteq Paths /\ leftover \subseteq tree
      /\ \A p \in tree : Len(p) > 1 => Front(p) \in tree \cap Dir
  BY DEF TreeInv, ClosedTree
<1>3. \A p \in tree : p \in Seq(Segment) /\ p # <<>>
  BY <1>2, PathsAreSequences
<1>4. \A q : q \in AtOrBelow(x) <=> q \in tree /\ IsPrefix(x, q)
  BY DEF AtOrBelow
<1>5. tree' \subseteq tree /\ leftover' \subseteq tree'
  BY <1>1, <1>2, <1>4
<1>6. \A q \in tree : ~IsPrefix(x, q) => q \in tree'
  BY <1>1, <1>4
<1>7. ASSUME NEW p \in tree', Len(p) > 1
       PROVE  Front(p) \in tree' \cap Dir
  <2>1. p \in tree /\ Front(p) \in tree \cap Dir /\ p \in Seq(Segment) /\ p # <<>>
        /\ Front(p) \in Seq(Segment) /\ x \in Seq(Segment)
    BY <1>2, <1>3, <1>5, <1>7
  <2>2. CASE p \notin AtOrBelow(x)
    <3>1. ~IsPrefix(x, Front(p))
      BY <1>4, <2>1, <2>2, PrefixOfFront
    <3> QED
      BY <1>6, <2>1, <3>1
  <2>3. CASE p \in AtOrBelow(x)
    <3>1. p \in left /\ IsPrefix(x, p)
      BY <1>1, <1>4, <2>3
    <3>2. CASE p = x
      <4>1. ~IsPrefix(x, Front(x))
        <5>1. Len(x) = Len(Front(x)) + 1 /\ Len(Front(x)) \in Nat /\ Front(x) \in Seq(Segment)
          BY <1>3, ParentProperties
        <5>2. IsPrefix(x, Front(x)) => Len(x) <= Len(Front(x))
          BY <2>1, <5>1, PrefixLonger
        <5> QED
          BY <5>1, <5>2
      <4> QED
        BY <1>6, <2>1, <3>2, <4>1
    <3>3. CASE p # x
      <4>1. Len(p) > Len(x)
        <5>1. Len(x) \in Nat /\ Len(p) \in Nat /\ Len(x) <= Len(p) /\ Len(x) # Len(p)
          BY <2>1, <3>1, <3>3, PrefixLonger
        <5> QED
          BY <5>1
      <4> QED
        BY <1>1, <2>1, <3>1, <4>1
    <3> QED
      BY <3>2, <3>3
  <2> QED
    BY <2>2, <2>3
<1>8. TreeInv'
  BY <1>2, <1>5, <1>7 DEF TreeInv, ClosedTree
<1>9. \A q \in tree' : IsPrefix(x, q) => q \in left
  BY <1>1, <1>4, <1>5
<1> QED
  BY <1>1, <1>4, <1>5, <1>6, <1>8, <1>9

\* A removal that has to do with nothing that is kept or left over.
LEMMA RemovedSettled ==
    ASSUME TreeInv, rules' = rules, mode' = mode, NEW x \in tree, NEW left \in Remains(x), Delete(x, left),
           \A q \in leftover : ~IsPrefix(x, q),
           \A q \in AtOrBelow(x) : Wanted(q) # "keep"
    PROVE  /\ \A p \in tree' : Settled(p) => Settled(p)'
           /\ \A q \in tree : Wanted(q) = "keep" \/ ~IsPrefix(x, q) => q \in tree'
           /\ \A p \in tree' : IsPrefix(x, p) => Settled(p)'
<1>1. /\ TreeInv' /\ tree' \subseteq tree /\ leftover' = leftover \cup left
      /\ \A q \in tree : ~IsPrefix(x, q) => q \in tree'
      /\ \A q \in tree' : IsPrefix(x, q) => q \in left
      /\ \A q \in left : IsPrefix(x, q)
  BY Removed DEF AtOrBelow
<1>2. leftover \subseteq tree /\ \A p \in tree : p \in Seq(Segment)
  BY PathsAreSequences DEF TreeInv, ClosedTree
<1>3. \A q \in tree : Wanted(q) = "keep" \/ ~IsPrefix(x, q) => q \in tree'
  BY <1>1 DEF AtOrBelow
<1>4. \A p : Wanted(p)' = Wanted(p)
  BY DEF Wanted
<1>5. ASSUME NEW p \in tree', Settled(p)
      PROVE  Settled(p)'
  <2>1. PICK q \in tree : IsPrefix(p, q) /\ (Wanted(q) = "keep" \/ q \in leftover)
    BY <1>5 DEF Settled, AtOrBelow
  <2>2. q \in tree'
    <3>1. q \in leftover => ~IsPrefix(x, q)
      BY <2>1 DEF AtOrBelow
    <3> QED
      BY <1>3, <2>1, <3>1
  <2>3. Wanted(q)' = "keep" \/ q \in leftover'
    BY <1>1, <1>4, <2>1
  <2> QED
    BY <2>1, <2>2, <2>3 DEF Settled, AtOrBelow
<1>6. ASSUME NEW p \in tree', IsPrefix(x, p)
      PROVE  Settled(p)'
  <2>1. p \in left
    BY <1>1, <1>6
  <2>2. IsPrefix(p, p)
    BY <1>1, <1>2, PrefixReflexive
  <2> QED
    BY <1>1, <2>1, <2>2 DEF Settled, AtOrBelow
<1> QED
  BY <1>1, <1>3, <1>5, <1>6

\* What get_action says where it does not descend, the rules want for all below;
\* and below a file there is nothing.
LEMMA NotEntered ==
    ASSUME TrailingPatterns, GraphInv, TreeInv, mode \in {"base", "user"}, NEW x \in tree,
           ~Entered(x), NEW action, Decides(x, action)
    PROVE  \A q \in AtOrBelow(x) : Wanted(q) = action
<1> SUFFICES ASSUME NEW q \in tree, IsPrefix(x, q)
             PROVE  Wanted(q) = action
  BY DEF AtOrBelow
<1>1. x \in Paths /\ q \in Paths /\ x \in Seq(Segment) /\ x # <<>>
  BY PathsAreSequences DEF TreeInv, ClosedTree
<1>2. ~GetAction(graph, x).panic
  BY DEF Decides
<1>3. Wanted(x) = action
  BY <1>1, <1>2, Decisions
<1>4. CASE x \notin Dir
  <2>1. q = x
    BY <1>1, <1>4, AboveInTree DEF TreeInv
  <2> QED
    BY <1>3, <2>1
<1>5. CASE x \in Dir
  <2>1. ~GetAction(graph, x).descend
    BY <1>5 DEF Entered
  <2> QED
    BY <1>1, <1>2, <1>3, <2>1, Decisions
<1> QED
  BY <1>4, <1>5

-----------------------------------------------------------------------------
(* The calls of traverse.                                                  *)

Frames == [dir : Seq(Segment), todo : SUBSET Paths, empty : BOOLEAN]

\* s: a stack of the calls of traverse.
\* Each call is on an entry that the one before it still has to handle.
StackInv(s) ==
    /\ s \in Seq(Frames)
    /\ \A i \in 1 .. Len(s) :
        /\ Len(s[i].dir) = Len(s) - i /\ IsPrefix(s[i].dir, s[1].dir)
        /\ \A p \in s[i].todo : p \in tree /\ Front(p) = s[i].dir
        /\ i < Len(s) => s[i].dir \in s[i + 1].todo \cap Dir /\ ~GetAction(graph, s[i].dir).panic

\* Where something is still to be handled nothing is left over, but below the
\* entries that the calls are on, and "but", if it is an entry of the innermost.
LeftInv(s, but) ==
    \A i \in 1 .. Len(s) : \A e \in s[i].todo, q \in leftover :
        IsPrefix(e, q) => (i > 1 /\ e = s[i - 1].dir /\ q # e) \/ (i = 1 /\ e \in but)

\* Below the directory of a call everything is settled or still to be handled.
HandledInv(s) ==
    \A i \in 1 .. Len(s) : \A p \in tree :
        IsPrefix(s[i].dir, p) /\ p # s[i].dir => Settled(p) \/ \E e \in s[i].todo : IsPrefix(e, p)

\* A directory that a call reports as not empty holds something that is kept.
EmptyInv(s) ==
    \A i \in 1 .. Len(s) : ~s[i].empty =>
        \E q \in tree : IsPrefix(s[i].dir, q) /\ q # s[i].dir /\ Wanted(q) = "keep"

\* The stack after a call.
LEMMA PushedFrames ==
    ASSUME NEW s \in Seq(Frames), NEW f \in Frames
    PROVE  /\ <<f>> \o s \in Seq(Frames) /\ Len(<<f>> \o s) = Len(s) + 1 /\ (<<f>> \o s)[1] = f
           /\ \A i \in 2 .. Len(s) + 1 : (<<f>> \o s)[i] = s[i - 1]
<1> DEFINE a == <<f>>
<1>1. a \in Seq(Frames) /\ Len(a) = 1 /\ a[1] = f
  OBVIOUS
<1> HIDE DEF a
<1>2. \A u, v \in Seq(Frames) : /\ u \o v \in Seq(Frames) /\ Len(u \o v) = Len(u) + Len(v) /\ Len(v) \in Nat
                                /\ \A i \in 1 .. Len(u) : (u \o v)[i] = u[i]
                                /\ \A i \in 1 .. Len(v) : (u \o v)[Len(u) + i] = v[i]
  BY ConcatProperties
<1>3. /\ a \o s \in Seq(Frames) /\ Len(a \o s) = 1 + Len(s) /\ Len(s) \in Nat
      /\ \A i \in 1 .. 1 : (a \o s)[i] = a[i] /\ \A j \in 1 .. Len(s) : (a \o s)[1 + j] = s[j]
  BY <1>1, <1>2
<1>4. 1 \in 1 .. 1 /\ 1 + Len(s) = Len(s) + 1
  BY <1>3
<1>5. ASSUME NEW i \in 2 .. Len(s) + 1
      PROVE  (a \o s)[i] = s[i - 1]
  <2>1. i - 1 \in 1 .. Len(s) /\ 1 + (i - 1) = i
    BY <1>3
  <2>2. \A j \in 1 .. Len(s) : (a \o s)[1 + j] = s[j]
    BY <1>3, <1>4
  <2>3. (a \o s)[1 + (i - 1)] = s[i - 1]
    BY <2>1, <2>2
  <2> QED
    BY <2>1, <2>3
<1>6. (a \o s)[1] = f
  BY <1>1, <1>3, <1>4
<1> QED
  BY <1>3, <1>4, <1>5, <1>6 DEF a

\* The stack after an entry was handled.
LEMMA HandledFrames ==
    ASSUME NEW s \in Seq(Frames), s # <<>>, NEW p, NEW b \in BOOLEAN
    PROVE  /\ Handled(s, p, b) \in Seq(Frames) /\ Len(Handled(s, p, b)) = Len(s)
           /\ Handled(s, p, b)[1].dir = s[1].dir
           /\ Handled(s, p, b)[1].todo = s[1].todo \ {p}
           /\ Handled(s, p, b)[1].empty = (s[1].empty /\ b)
           /\ \A i \in 2 .. Len(s) : Handled(s, p, b)[i] = s[i]
           /\ Handled(s, p, b) # <<>>
<1> DEFINE first == [s[1] EXCEPT !.todo = @ \ {p}, !.empty = @ /\ b]
           rest == Tail(s)
           new == <<first>> \o rest
<1>1. /\ Len(s) \in Nat \ {0} /\ Head(s) = s[1] /\ s[1] \in Frames /\ rest \in Seq(Frames)
      /\ Len(rest) = Len(s) - 1 /\ \A i \in 1 .. Len(s) - 1 : rest[i] = s[i + 1]
  BY TailProperties
<1>2. Handled(s, p, b) = new
  BY <1>1 DEF Handled
<1>3. /\ first \in Frames /\ first.dir = s[1].dir /\ first.todo = s[1].todo \ {p}
      /\ first.empty = (s[1].empty /\ b)
  BY <1>1 DEF Frames
<1> HIDE DEF first, rest
<1>4. /\ new \in Seq(Frames) /\ Len(new) = Len(rest) + 1 /\ new[1] = first
      /\ \A i \in 2 .. Len(rest) + 1 : new[i] = rest[i - 1]
  BY <1>1, <1>3, PushedFrames
<1> HIDE DEF new
<1>5. Len(new) = Len(s) /\ Len(rest) + 1 = Len(s)
  BY <1>1, <1>4
<1>6. ASSUME NEW i \in 2 .. Len(s)
      PROVE  new[i] = s[i]
  <2>1. i - 1 \in 1 .. Len(s) - 1 /\ (i - 1) + 1 = i
    BY <1>1
  <2>2. new[i] = rest[i - 1] /\ rest[i - 1] = s[(i - 1) + 1]
    BY <1>1, <1>4, <1>5, <2>1
  <2> QED
    BY <2>1, <2>2
<1>7. new # <<>>
  <2>1. Len(new) # 0 /\ Len(<<>>) = 0
    BY <1>1, <1>5
  <2> QED
    BY <2>1
<1> QED
  BY <1>2, <1>3, <1>4, <1>5, <1>6, <1>7

\* The entries that the calls still have to handle, and how long they are.
LEMMA TodoProperties ==
    ASSUME NEW s, StackInv(s), TreeInv, NEW i \in 1 .. Len(s)
    PROVE  /\ Len(s) \in Nat /\ s[i] \in Frames /\ s[i].dir \in Seq(Segment) /\ Len(s[i].dir) = Len(s) - i
           /\ \A e \in s[i].todo : /\ e \in tree /\ e \in Paths /\ e \in Seq(Segment) /\ e # <<>>
                                   /\ Front(e) = s[i].dir /\ Len(e) = (Len(s) - i) + 1
                                   /\ IsPrefix(s[i].dir, e) /\ e # s[i].dir
<1>1. s[i] \in Frames /\ s[i].dir \in Seq(Segment) /\ Len(s[i].dir) = Len(s) - i /\ Len(s) \in Nat
  <2>1. s[i] \in Frames /\ Len(s) \in Nat /\ Len(s[i].dir) = Len(s) - i
    BY DEF StackInv
  <2> QED
    BY <2>1 DEF Frames
<1>2. ASSUME NEW e \in s[i].todo
      PROVE  /\ e \in tree /\ e \in Paths /\ e \in Seq(Segment) /\ e # <<>>
             /\ Front(e) = s[i].dir /\ Len(e) = (Len(s) - i) + 1
             /\ IsPrefix(s[i].dir, e) /\ e # s[i].dir
  <2>1. e \in tree /\ Front(e) = s[i].dir
    BY DEF StackInv
  <2>2. e \in Paths /\ e \in Seq(Segment) /\ e # <<>>
    BY <2>1, PathsAreSequences DEF TreeInv, ClosedTree
  <2>3. Len(e) = Len(Front(e)) + 1 /\ IsPrefix(Front(e), e) /\ e # Front(e)
    BY <2>2, ParentProperties
  <2> QED
    BY <1>1, <2>1, <2>2, <2>3
<1> QED
  BY <1>1, <1>2

\* Whatever lies below an entry of the innermost call is reached by way of the
\* directories of the others.
LEMMA OnTheWay ==
    ASSUME NEW s, StackInv(s), TreeInv, NEW p \in s[1].todo, s # <<>>,
           NEW i \in 2 .. Len(s), NEW e \in s[i].todo,
           NEW q \in Seq(Segment), IsPrefix(e, q), IsPrefix(p, q)
    PROVE  e = s[i - 1].dir /\ q # e
<1> DEFINE n == Len(s)
           d == s[i - 1].dir
<1>1. n \in Nat /\ 1 \in 1 .. n /\ i \in 1 .. n /\ i - 1 \in 1 .. n /\ i \in Int
  <2>1. n \in Nat
    BY DEF StackInv
  <2> QED
    BY <2>1
<1>2. /\ p \in Seq(Segment) /\ Len(p) = (n - 1) + 1 /\ IsPrefix(s[1].dir, p) /\ s[1].dir \in Seq(Segment)
  BY <1>1, TodoProperties
<1>3. e \in Seq(Segment) /\ Len(e) = (n - i) + 1
  BY <1>1, TodoProperties
<1>4. d \in Seq(Segment) /\ Len(d) = n - (i - 1) /\ IsPrefix(d, s[1].dir)
  BY <1>1, TodoProperties DEF StackInv
<1>5. IsPrefix(d, q)
  BY <1>2, <1>4, PrefixTransitive
<1>6. Len(e) = Len(d) /\ Len(e) <= Len(d) /\ Len(e) < Len(p)
  BY <1>1, <1>2, <1>3, <1>4
<1>7. e = d
  BY <1>3, <1>4, <1>5, <1>6, TwoPrefixes
<1>8. q # e
  <2>1. Len(p) <= Len(q) /\ Len(p) \in Nat /\ Len(q) \in Nat
    BY <1>2, PrefixLonger
  <2>2. Len(e) \in Nat
    BY <1>3
  <2> QED
    BY <1>6, <2>1, <2>2
<1> QED
  BY <1>7, <1>8

-----------------------------------------------------------------------------
(* An entry is handled.                                                    *)

\* The other entries of the innermost call, and what the calls around it still
\* have to handle, are not below the entry just handled.
LEMMA NotBelow ==
    ASSUME NEW s, s # <<>>, StackInv(s), TreeInv, NEW p \in s[1].todo,
           NEW i \in 1 .. Len(s), NEW e \in s[i].todo, NEW q \in Seq(Segment), IsPrefix(e, q), IsPrefix(p, q)
    PROVE  \/ i = 1 /\ e = p
           \/ i \in 2 .. Len(s) /\ e = s[i - 1].dir /\ q # e
<1>1. Len(s) \in Nat /\ i \in Int /\ 1 \in 1 .. Len(s)
  BY DEF StackInv
<1>2. CASE i = 1
  <2>1. e \in Seq(Segment) /\ e # <<>> /\ Front(e) = s[1].dir
    BY <1>1, <1>2, TodoProperties
  <2>2. p \in Seq(Segment) /\ p # <<>> /\ Front(p) = s[1].dir
    BY <1>1, TodoProperties
  <2>3. e = p
    BY <2>1, <2>2, OneEntryLeads
  <2> QED
    BY <1>2, <2>3
<1>3. CASE i # 1
  <2>1. i \in 2 .. Len(s)
    BY <1>1, <1>3
  <2> QED
    BY <2>1, OnTheWay
<1> QED
  BY <1>2, <1>3

\* What a call and those around it still have to handle after an entry p.
LEMMA StillToDo ==
    ASSUME NEW s, s # <<>>, NEW p \in s[1].todo, NEW b \in BOOLEAN, TreeInv, StackInv(s),
           NEW i \in 1 .. Len(s), NEW e \in Handled(s, p, b)[i].todo
    PROVE  /\ e \in s[i].todo /\ ~(i = 1 /\ e = p) /\ e \in tree /\ e \in Seq(Segment) /\ Front(e) = s[i].dir
           /\ \A q \in Seq(Segment) : IsPrefix(e, q) /\ IsPrefix(p, q) =>
                i > 1 /\ e = s[i - 1].dir /\ q # e
<1> DEFINE t == Handled(s, p, b)
<1>1. s \in Seq(Frames) /\ Len(s) \in Nat
  BY DEF StackInv
<1>2. t[i].todo = IF i = 1 THEN s[i].todo \ {p} ELSE s[i].todo
  <2>1. t[1].todo = s[1].todo \ {p} /\ \A j \in 2 .. Len(s) : t[j] = s[j]
    BY <1>1, HandledFrames
  <2>2. i = 1 \/ i \in 2 .. Len(s)
    BY <1>1
  <2> HIDE DEF t
  <2> QED
    BY <2>1, <2>2
<1>3. e \in s[i].todo /\ ~(i = 1 /\ e = p)
  <2>1. e \in t[i].todo
    OBVIOUS
  <2> HIDE DEF t
  <2> QED
    BY <1>2, <2>1
<1>4. ASSUME NEW q \in Seq(Segment), IsPrefix(e, q), IsPrefix(p, q)
      PROVE  i > 1 /\ e = s[i - 1].dir /\ q # e
  <2>1. i \in 2 .. Len(s) /\ e = s[i - 1].dir /\ q # e
    BY <1>3, <1>4, NotBelow
  <2> QED
    BY <1>1, <2>1
<1> QED
  BY <1>3, <1>4, TodoProperties

\* A call goes on after an entry p: what is gone, or left over now, lies below p.
LEMMA AfterEntry ==
    ASSUME NEW s, s # <<>>, NEW p \in s[1].todo, NEW b \in BOOLEAN,
           TreeInv, StackInv(s), LeftInv(s, {p}),
           stack' = Handled(s, p, b), graph' = graph, TreeInv', tree' \subseteq tree,
           \A q \in tree : ~IsPrefix(p, q) => q \in tree',
           \A q \in leftover' : q \in leftover \/ IsPrefix(p, q)
    PROVE  StackInv(stack)' /\ LeftInv(stack, {})' /\ stack' # <<>>
<1> DEFINE n == Len(s)
           t == stack'
<1>1. n \in Nat /\ 1 \in 1 .. n /\ s \in Seq(Frames)
  BY DEF StackInv
<1>2. /\ t \in Seq(Frames) /\ Len(t) = n /\ t # <<>>
      /\ \A i \in 1 .. n : t[i].dir = s[i].dir
      /\ \A i \in 1 .. n : t[i].todo = IF i = 1 THEN s[i].todo \ {p} ELSE s[i].todo
  <2>1. /\ t \in Seq(Frames) /\ Len(t) = n /\ t # <<>> /\ t[1].dir = s[1].dir /\ t[1].todo = s[1].todo \ {p}
        /\ t[1].empty = (s[1].empty /\ b) /\ \A i \in 2 .. n : t[i] = s[i]
    BY <1>1, HandledFrames
  <2>2. \A i \in 1 .. n : i = 1 \/ i \in 2 .. n
    BY <1>1
  <2> HIDE DEF t, n
  <2> QED
    BY <2>1, <2>2
<1>3. \A q \in tree : q \in Seq(Segment)
  BY PathsAreSequences DEF TreeInv, ClosedTree
<1>4. tree' \subseteq tree /\ leftover' \subseteq tree'
  BY DEF TreeInv
<1>5. ASSUME NEW i \in 1 .. n, NEW e \in t[i].todo
      PROVE  /\ e \in s[i].todo /\ ~(i = 1 /\ e = p) /\ e \in tree /\ e \in Seq(Segment) /\ Front(e) = s[i].dir
             /\ \A q \in Seq(Segment) : IsPrefix(e, q) /\ IsPrefix(p, q) =>
                  i > 1 /\ e = s[i - 1].dir /\ q # e
  BY <1>5, StillToDo
<1> HIDE DEF t, n
<1>6. StackInv(stack)'
  <2>1. ASSUME NEW i \in 1 .. n
        PROVE  /\ Len(t[i].dir) = n - i /\ IsPrefix(t[i].dir, t[1].dir)
               /\ \A e \in t[i].todo : e \in tree' /\ Front(e) = t[i].dir
               /\ i < n => t[i].dir \in t[i + 1].todo \cap Dir /\ ~GetAction(graph', t[i].dir).panic
    <3>1. t[i].dir = s[i].dir /\ t[1].dir = s[1].dir /\ Len(s[i].dir) = n - i /\ IsPrefix(s[i].dir, s[1].dir)
      BY <1>1, <1>2 DEF StackInv, n
    <3>2. ASSUME NEW e \in t[i].todo
          PROVE  e \in tree' /\ Front(e) = t[i].dir
      <4>1. e \in tree /\ e \in Seq(Segment) /\ Front(e) = s[i].dir
        BY <1>5
      <4>2. IsPrefix(e, e)
        BY <4>1, PrefixReflexive
      <4>3. ~IsPrefix(p, e)
        BY <1>5, <4>1, <4>2
      <4> QED
        BY <3>1, <4>1, <4>3
    <3>3. ASSUME i < n
          PROVE  t[i].dir \in t[i + 1].todo \cap Dir /\ ~GetAction(graph', t[i].dir).panic
      <4>1. i + 1 \in 1 .. n /\ i + 1 # 1
        BY <1>1, <3>3
      <4>2. s[i].dir \in s[i + 1].todo \cap Dir /\ ~GetAction(graph, s[i].dir).panic
        BY <3>3 DEF StackInv, n
      <4>3. t[i + 1].todo = s[i + 1].todo
        BY <1>2, <4>1
      <4> QED
        BY <3>1, <4>2, <4>3
    <3> QED
      BY <3>1, <3>2, <3>3
  <2> QED
    BY <1>2, <2>1 DEF StackInv, t
<1>7. LeftInv(stack, {})'
  <2>1. ASSUME NEW i \in 1 .. n, NEW e \in t[i].todo, NEW q \in leftover', IsPrefix(e, q)
        PROVE  i > 1 /\ e = t[i - 1].dir /\ q # e
    <3>1. q \in Seq(Segment) /\ e \in s[i].todo /\ ~(i = 1 /\ e = p)
      BY <1>3, <1>4, <1>5
    <3>2. CASE IsPrefix(p, q)
      <4>1. i > 1 /\ e = s[i - 1].dir /\ q # e
        BY <1>5, <2>1, <3>1, <3>2
      <4>2. i - 1 \in 1 .. n
        BY <1>1, <4>1
      <4> QED
        BY <1>2, <4>1, <4>2
    <3>3. CASE ~IsPrefix(p, q)
      <4>1. q \in leftover
        BY <3>3
      <4>2. i > 1 /\ e = s[i - 1].dir /\ q # e
        BY <2>1, <3>1, <4>1 DEF LeftInv, n
      <4>3. i - 1 \in 1 .. n
        BY <1>1, <4>2
      <4> QED
        BY <1>2, <4>2, <4>3
    <3> QED
      BY <3>2, <3>3
  <2> QED
    BY <1>2, <2>1 DEF LeftInv, t
<1> QED
  BY <1>2, <1>6, <1>7 DEF t

\* The same for what is settled and for what the calls report: below p everything
\* is settled.
LEMMA SettledAfterEntry ==
    ASSUME NEW s, s # <<>>, NEW p \in s[1].todo, NEW b \in BOOLEAN,
           TreeInv, StackInv(s), HandledInv(s), EmptyInv(s),
           stack' = Handled(s, p, b), rules' = rules, mode' = mode, tree' \subseteq tree,
           \A q \in tree : Wanted(q) = "keep" => q \in tree',
           \A q \in tree' : Settled(q) => Settled(q)',
           \A q \in tree' : IsPrefix(p, q) => Settled(q)',
           ~b => \E q \in tree : IsPrefix(p, q) /\ Wanted(q) = "keep"
    PROVE  HandledInv(stack)' /\ EmptyInv(stack)'
<1> DEFINE n == Len(s)
           t == stack'
<1>1. n \in Nat /\ 1 \in 1 .. n /\ s \in Seq(Frames)
  BY DEF StackInv
<1>2. /\ t \in Seq(Frames) /\ Len(t) = n
      /\ \A i \in 1 .. n : t[i].dir = s[i].dir
      /\ \A i \in 1 .. n : t[i].todo = IF i = 1 THEN s[i].todo \ {p} ELSE s[i].todo
      /\ \A i \in 1 .. n : t[i].empty = IF i = 1 THEN s[i].empty /\ b ELSE s[i].empty
  <2>1. /\ t \in Seq(Frames) /\ Len(t) = n /\ t # <<>> /\ t[1].dir = s[1].dir /\ t[1].todo = s[1].todo \ {p}
        /\ t[1].empty = (s[1].empty /\ b) /\ \A i \in 2 .. n : t[i] = s[i]
    BY <1>1, HandledFrames
  <2>2. \A i \in 1 .. n : i = 1 \/ i \in 2 .. n
    BY <1>1
  <2> HIDE DEF t, n
  <2> QED
    BY <2>1, <2>2
<1>3. \A q : Wanted(q)' = Wanted(q)
  BY DEF Wanted
<1>4. \A q \in tree : q \in Seq(Segment)
  BY PathsAreSequences DEF TreeInv, ClosedTree
<1>5. tree' \subseteq tree
  OBVIOUS
<1>6. /\ p \in tree /\ p \in Seq(Segment) /\ s[1].dir \in Seq(Segment) /\ IsPrefix(s[1].dir, p)
      /\ Len(s[1].dir) = n - 1 /\ Len(p) = (n - 1) + 1
  BY <1>1, TodoProperties
<1> HIDE DEF t, n
<1>7. HandledInv(stack)'
  <2>1. ASSUME NEW i \in 1 .. n, NEW x \in tree', IsPrefix(t[i].dir, x), x # t[i].dir
        PROVE  Settled(x)' \/ \E e \in t[i].todo : IsPrefix(e, x)
    <3>1. Settled(x) \/ \E e \in s[i].todo : IsPrefix(e, x)
      BY <1>2, <1>5, <2>1 DEF HandledInv, n
    <3>2. CASE Settled(x)
      BY <2>1, <3>2
    <3>3. ASSUME NEW e \in s[i].todo, IsPrefix(e, x)
          PROVE  Settled(x)' \/ \E f \in t[i].todo : IsPrefix(f, x)
      <4>1. CASE e \in t[i].todo
        BY <3>3, <4>1
      <4>2. CASE e \notin t[i].todo
        <5>1. e = p
          BY <1>2, <4>2
        <5> QED
          BY <3>3, <5>1
      <4> QED
        BY <4>1, <4>2
    <3> QED
      BY <3>1, <3>2, <3>3
  <2> QED
    BY <1>2, <2>1 DEF HandledInv, t
<1>8. EmptyInv(stack)'
  <2>1. ASSUME NEW i \in 1 .. n, ~t[i].empty
        PROVE  \E q \in tree' : IsPrefix(t[i].dir, q) /\ q # t[i].dir /\ Wanted(q)' = "keep"
    <3>1. t[i].dir = s[i].dir
      BY <1>2
    <3>2. CASE ~s[i].empty
      BY <1>3, <3>1, <3>2 DEF EmptyInv, n
    <3>3. CASE s[i].empty
      <4>1. i = 1 /\ ~b
        BY <1>2, <2>1, <3>3
      <4>2. PICK q \in tree : IsPrefix(p, q) /\ Wanted(q) = "keep"
        BY <4>1
      <4>3. q \in tree' /\ q \in Seq(Segment)
        BY <1>4, <4>2
      <4>4. IsPrefix(s[1].dir, q)
        BY <1>6, <4>2, <4>3, PrefixTransitive
      <4>5. q # s[1].dir
        <5>1. Len(p) <= Len(q)
          BY <1>6, <4>2, <4>3, PrefixLonger
        <5>2. Len(s[1].dir) < Len(p)
          BY <1>1, <1>6
        <5>3. Len(q) \in Nat /\ Len(p) \in Nat
          BY <1>6, <4>3
        <5> QED
          BY <5>1, <5>2, <5>3
      <4> QED
        BY <1>3, <3>1, <4>1, <4>2, <4>3, <4>4, <4>5
    <3> QED
      BY <3>2, <3>3
  <2> QED
    BY <1>2, <2>1 DEF EmptyInv, t
<1> QED
  BY <1>7, <1>8

-----------------------------------------------------------------------------
(* Calls and returns.                                                      *)

\* No calls.
LEMMA NoCalls ==
    ASSUME stack' = <<>>
    PROVE  StackInv(stack)' /\ LeftInv(stack, {})' /\ HandledInv(stack)' /\ EmptyInv(stack)'
<1>1. stack' \in Seq(Frames) /\ Len(stack') = 0 /\ 1 .. 0 = {}
  OBVIOUS
<1> QED
  BY <1>1 DEF StackInv, LeftInv, HandledInv, EmptyInv

\* The innermost call returns: its directory is the entry that the call around it
\* is on.
LEMMA Returned ==
    ASSUME TreeInv, StackInv(stack), LeftInv(stack, {}), Len(stack) > 1
    PROVE  /\ Tail(stack) # <<>> /\ Head(stack) = stack[1]
           /\ stack[1].dir \in Tail(stack)[1].todo \cap Dir /\ ~GetAction(graph, stack[1].dir).panic
           /\ StackInv(Tail(stack)) /\ LeftInv(Tail(stack), {stack[1].dir})
           /\ stack[1].dir \notin leftover /\ stack[1].empty \in BOOLEAN
           /\ Len(stack) \in Nat /\ Len(Tail(stack)) = Len(stack) - 1
           /\ \A i \in 1 .. Len(stack) - 1 : Tail(stack)[i] = stack[i + 1]
<1> DEFINE n == Len(stack)
           s == Tail(stack)
           d == stack[1].dir
<1>1. n \in Nat /\ stack \in Seq(Frames) /\ 1 \in 1 .. n /\ 2 \in 1 .. n /\ 1 < n
  BY DEF StackInv
<1>2. stack # <<>>
  BY <1>1
<1>3. /\ s \in Seq(Frames) /\ Len(s) = n - 1 /\ Head(stack) = stack[1]
      /\ \A i \in 1 .. n - 1 : s[i] = stack[i + 1]
  BY <1>1, <1>2, TailProperties
<1>4. 1 \in 1 .. n - 1 /\ s # <<>> /\ s[1] = stack[2]
  <2>1. 1 \in 1 .. n - 1 /\ 1 + 1 = 2
    BY <1>1
  <2>2. s # <<>>
    <3>1. Len(s) # 0 /\ Len(<<>>) = 0
      BY <1>1, <1>3
    <3> QED
      BY <3>1
  <2> QED
    BY <1>3, <2>1, <2>2
<1>5. d \in stack[2].todo \cap Dir /\ ~GetAction(graph, d).panic
  <2>1. 1 + 1 = 2
    OBVIOUS
  <2> QED
    BY <1>1, <2>1 DEF StackInv
<1>6. stack[1] \in Frames /\ d \in Seq(Segment) /\ d \in tree
  BY <1>1, <1>5, TodoProperties
<1>7. stack[1].empty \in BOOLEAN
  BY <1>6 DEF Frames
<1> HIDE DEF s
<1>8. StackInv(s)
  <2> SUFFICES ASSUME NEW i \in 1 .. n - 1
               PROVE  /\ Len(s[i].dir) = (n - 1) - i /\ IsPrefix(s[i].dir, s[1].dir)
                      /\ \A p \in s[i].todo : p \in tree /\ Front(p) = s[i].dir
                      /\ i < n - 1 => s[i].dir \in s[i + 1].todo \cap Dir /\ ~GetAction(graph, s[i].dir).panic
    BY <1>3 DEF StackInv
  <2>1. i + 1 \in 1 .. n /\ n - (i + 1) = (n - 1) - i /\ n - (i + 1) <= n - 2
    BY <1>1
  <2>2. s[i] = stack[i + 1] /\ s[1] = stack[2]
    BY <1>3, <1>4
  <2>3. /\ stack[i + 1].dir \in Seq(Segment) /\ Len(stack[i + 1].dir) = n - (i + 1)
        /\ stack[2].dir \in Seq(Segment) /\ Len(stack[2].dir) = n - 2
    BY <1>1, <2>1, TodoProperties
  <2>4. IsPrefix(stack[i + 1].dir, d) /\ IsPrefix(stack[2].dir, d)
    BY <1>1, <2>1 DEF StackInv
  <2>5. IsPrefix(stack[i + 1].dir, stack[2].dir)
    BY <1>6, <2>1, <2>3, <2>4, TwoPrefixes
  <2>6. \A p \in stack[i + 1].todo : p \in tree /\ Front(p) = stack[i + 1].dir
    BY <2>1 DEF StackInv
  <2>7. ASSUME i < n - 1
        PROVE  s[i].dir \in s[i + 1].todo \cap Dir /\ ~GetAction(graph, s[i].dir).panic
    <3>1. i + 1 < n /\ i + 1 \in 1 .. n - 1
      BY <1>1, <2>7
    <3>2. stack[i + 1].dir \in stack[(i + 1) + 1].todo \cap Dir /\ ~GetAction(graph, stack[i + 1].dir).panic
      BY <2>1, <3>1 DEF StackInv
    <3>3. s[i + 1] = stack[(i + 1) + 1]
      BY <1>3, <3>1
    <3> QED
      BY <2>2, <3>2, <3>3
  <2> QED
    BY <2>1, <2>2, <2>3, <2>5, <2>6, <2>7
<1>9. LeftInv(s, {d})
  <2> SUFFICES ASSUME NEW i \in 1 .. n - 1, NEW e \in s[i].todo, NEW q \in leftover, IsPrefix(e, q)
               PROVE  (i > 1 /\ e = s[i - 1].dir /\ q # e) \/ (i = 1 /\ e = d)
    BY <1>3 DEF LeftInv
  <2>1. i + 1 \in 1 .. n /\ (i + 1) - 1 = i /\ i + 1 # 1
    BY <1>1
  <2>2. e = stack[i].dir /\ q # e
    <3>1. e \in stack[i + 1].todo
      BY <1>3
    <3>2. e = stack[(i + 1) - 1].dir /\ q # e
      BY <2>1, <3>1 DEF LeftInv
    <3> QED
      BY <2>1, <3>2
  <2>3. CASE i = 1
    BY <2>2, <2>3
  <2>4. CASE i # 1
    <3>1. i > 1 /\ i - 1 \in 1 .. n - 1 /\ (i - 1) + 1 = i
      BY <1>1, <2>4
    <3>2. s[i - 1] = stack[i]
      BY <1>3, <3>1
    <3> QED
      BY <2>2, <3>1, <3>2
  <2> QED
    BY <2>3, <2>4
<1>10. d \notin leftover
  <2>1. IsPrefix(d, d) /\ 2 - 1 = 1
    BY <1>6, PrefixReflexive
  <2>2. ASSUME d \in leftover
        PROVE  FALSE
    <3>1. d \in stack[2].todo
      BY <1>5
    <3>2. d # d
      BY <1>1, <2>1, <2>2, <3>1 DEF LeftInv
    <3> QED
      BY <3>2
  <2> QED
    BY <2>2
<1> QED
  BY <1>1, <1>3, <1>4, <1>5, <1>7, <1>8, <1>9, <1>10 DEF s

\* Below the directory that was left everything is settled.
LEMMA ReturnedSettled ==
    ASSUME TreeInv, StackInv(stack), LeftInv(stack, {}), HandledInv(stack), EmptyInv(stack),
           Len(stack) > 1, stack[1].todo = {}
    PROVE  /\ HandledInv(Tail(stack)) /\ EmptyInv(Tail(stack))
           /\ \A q \in tree : IsPrefix(stack[1].dir, q) /\ q # stack[1].dir => Settled(q)
           /\ ~stack[1].empty => \E q \in tree :
                IsPrefix(stack[1].dir, q) /\ q # stack[1].dir /\ Wanted(q) = "keep"
<1> DEFINE n == Len(stack)
           s == Tail(stack)
<1>1. n \in Nat /\ Len(s) = n - 1 /\ \A i \in 1 .. n - 1 : s[i] = stack[i + 1]
  BY Returned
<1>2. 1 \in 1 .. n /\ \A i \in 1 .. n - 1 : i + 1 \in 1 .. n
  BY <1>1
<1> HIDE DEF s
<1>3. HandledInv(s)
  BY <1>1, <1>2 DEF HandledInv
<1>4. EmptyInv(s)
  BY <1>1, <1>2 DEF EmptyInv
<1>5. \A q \in tree : IsPrefix(stack[1].dir, q) /\ q # stack[1].dir => Settled(q)
  BY <1>2 DEF HandledInv
<1>6. ~stack[1].empty => \E q \in tree :
        IsPrefix(stack[1].dir, q) /\ q # stack[1].dir /\ Wanted(q) = "keep"
  BY <1>2 DEF EmptyInv
<1> QED
  BY <1>3, <1>4, <1>5, <1>6 DEF s

\* The entries of a directory lead to all that is below it.
LEMMA FrameCovers ==
    ASSUME TreeInv, NEW dir \in Seq(Segment)
    PROVE  /\ Frame(dir) \in Frames /\ Frame(dir).dir = dir /\ Frame(dir).todo = Entries(dir) /\ Frame(dir).empty
           /\ \A e \in Entries(dir) : /\ e \in tree /\ Front(e) = dir /\ e \in Seq(Segment)
                                      /\ IsPrefix(dir, e) /\ e # dir
           /\ \A q \in tree : IsPrefix(dir, q) /\ q # dir => \E e \in Entries(dir) : IsPrefix(e, q)
<1>1. Entries(dir) \subseteq tree /\ tree \subseteq Paths
  BY DEF Entries, TreeInv, ClosedTree
<1>2. \A e \in Entries(dir) : /\ e \in tree /\ Front(e) = dir /\ e \in Seq(Segment)
                              /\ IsPrefix(dir, e) /\ e # dir
  <2> SUFFICES ASSUME NEW e \in Entries(dir)
               PROVE  /\ e \in tree /\ Front(e) = dir /\ e \in Seq(Segment)
                      /\ IsPrefix(dir, e) /\ e # dir
    OBVIOUS
  <2>1. e \in tree /\ Front(e) = dir
    BY DEF Entries
  <2>2. e \in Seq(Segment) /\ e # <<>>
    BY <1>1, <2>1, PathsAreSequences
  <2> QED
    BY <2>1, <2>2, ParentProperties
<1>3. ASSUME NEW q \in tree, IsPrefix(dir, q), q # dir
      PROVE  \E e \in Entries(dir) : IsPrefix(e, q)
  <2>1. PICK e \in tree : Front(e) = dir /\ IsPrefix(e, q)
    BY <1>3, EntryLeads DEF TreeInv
  <2> QED
    BY <2>1 DEF Entries
<1>4. Frame(dir) \in Frames /\ Frame(dir).dir = dir /\ Frame(dir).todo = Entries(dir) /\ Frame(dir).empty
  BY <1>1 DEF Frame, Frames
<1> QED
  BY <1>2, <1>3, <1>4

\* A directory is entered: nothing of it is handled, nothing left over.
LEMMA Called ==
    ASSUME TreeInv, StackInv(stack), LeftInv(stack, {}), stack # <<>>,
           NEW p \in stack[1].todo \cap Dir, ~GetAction(graph, p).panic,
           stack' = <<Frame(p)>> \o stack, UNCHANGED <<graph, tree, leftover>>
    PROVE  StackInv(stack)' /\ LeftInv(stack, {})'
<1> DEFINE n == Len(stack)
           t == stack'
<1>1. n \in Nat /\ stack \in Seq(Frames) /\ 1 \in 1 .. n
  BY DEF StackInv
<1>2. /\ p \in tree /\ p \in Seq(Segment) /\ IsPrefix(stack[1].dir, p) /\ stack[1].dir \in Seq(Segment)
      /\ Len(p) = (n - 1) + 1
  BY <1>1, TodoProperties
<1>3. /\ Frame(p) \in Frames /\ Frame(p).dir = p /\ Frame(p).todo = Entries(p) /\ Frame(p).empty
      /\ \A e \in Entries(p) : /\ e \in tree /\ Front(e) = p /\ e \in Seq(Segment) /\ IsPrefix(p, e) /\ e # p
      /\ \A q \in tree : IsPrefix(p, q) /\ q # p => \E e \in Entries(p) : IsPrefix(e, q)
  BY <1>2, FrameCovers
<1>4. /\ t \in Seq(Frames) /\ Len(t) = n + 1 /\ t[1] = Frame(p)
      /\ \A i \in 2 .. n + 1 : t[i] = stack[i - 1]
  BY <1>1, <1>3, PushedFrames
<1> HIDE DEF t
<1>5. \A i \in 1 .. n + 1 : i # 1 => i \in 2 .. n + 1 /\ i - 1 \in 1 .. n /\ (i - 1) + 1 = i
  BY <1>1
<1>6. \A i \in 1 .. n + 1 : i = 1 \/ (i # 1 /\ t[i] = stack[i - 1])
  BY <1>4, <1>5
<1>7. StackInv(stack)'
  <2>1. ASSUME NEW i \in 1 .. n + 1
        PROVE  /\ Len(t[i].dir) = (n + 1) - i /\ IsPrefix(t[i].dir, t[1].dir)
               /\ \A e \in t[i].todo : e \in tree /\ Front(e) = t[i].dir
               /\ i < n + 1 => t[i].dir \in t[i + 1].todo \cap Dir /\ ~GetAction(graph, t[i].dir).panic
    <3>1. CASE i = 1
      <4>1. t[i].dir = p /\ t[i].todo = Entries(p) /\ t[1].dir = p
        BY <1>3, <1>4, <3>1
      <4>2. Len(p) = (n + 1) - i
        BY <1>1, <1>2, <3>1
      <4>3. IsPrefix(p, p)
        BY <1>2, PrefixReflexive
      <4>4. t[i + 1] = stack[1]
        <5>1. i + 1 \in 2 .. n + 1 /\ (i + 1) - 1 = 1
          BY <1>1, <3>1
        <5> QED
          BY <1>4, <5>1
      <4> QED
        BY <1>3, <4>1, <4>2, <4>3, <4>4
    <3>2. CASE i # 1
      <4>1. t[i] = stack[i - 1] /\ i - 1 \in 1 .. n /\ n - (i - 1) = (n + 1) - i
        BY <1>1, <1>5, <1>6, <3>2
      <4>2. /\ Len(stack[i - 1].dir) = n - (i - 1) /\ IsPrefix(stack[i - 1].dir, stack[1].dir)
            /\ \A e \in stack[i - 1].todo : e \in tree /\ Front(e) = stack[i - 1].dir
        BY <4>1 DEF StackInv
      <4>3. stack[i - 1].dir \in Seq(Segment)
        BY <4>1, TodoProperties
      <4>4. IsPrefix(stack[i - 1].dir, p)
        BY <1>2, <4>2, <4>3, PrefixTransitive
      <4>5. t[1].dir = p
        BY <1>3, <1>4
      <4>6. ASSUME i < n + 1
            PROVE  t[i].dir \in t[i + 1].todo \cap Dir /\ ~GetAction(graph, t[i].dir).panic
        <5>1. i - 1 < n /\ i + 1 \in 2 .. n + 1 /\ (i + 1) - 1 = (i - 1) + 1
          BY <1>1, <3>2, <4>6
        <5>2. t[i + 1] = stack[(i - 1) + 1]
          <6>1. t[i + 1] = stack[(i + 1) - 1]
            BY <1>4, <5>1
          <6> QED
            BY <5>1, <6>1
        <5>3. /\ stack[i - 1].dir \in stack[(i - 1) + 1].todo \cap Dir
              /\ ~GetAction(graph, stack[i - 1].dir).panic
          BY <4>1, <5>1 DEF StackInv
        <5> QED
          BY <4>1, <5>2, <5>3
      <4> QED
        BY <4>1, <4>2, <4>4, <4>5, <4>6
    <3> QED
      BY <3>1, <3>2
  <2> QED
    BY <1>4, <2>1 DEF StackInv, t
<1>8. LeftInv(stack, {})'
  <2>1. ASSUME NEW i \in 1 .. n + 1, NEW e \in t[i].todo, NEW q \in leftover, IsPrefix(e, q)
        PROVE  i > 1 /\ e = t[i - 1].dir /\ q # e
    <3>1. CASE i = 1
      <4>1. e \in Entries(p)
        BY <1>3, <1>4, <3>1
      <4>2. q \in Seq(Segment)
        BY PathsAreSequences DEF TreeInv, ClosedTree
      <4>3. IsPrefix(p, q)
        BY <1>2, <1>3, <2>1, <4>1, <4>2, PrefixTransitive
      <4>4. FALSE
        BY <1>1, <4>3 DEF LeftInv
      <4> QED
        BY <4>4
    <3>2. CASE i # 1
      <4>1. t[i] = stack[i - 1] /\ i - 1 \in 1 .. n /\ i > 1
        BY <1>1, <1>5, <1>6, <3>2
      <4>2. i - 1 > 1 /\ e = stack[(i - 1) - 1].dir /\ q # e
        BY <2>1, <4>1 DEF LeftInv
      <4>3. t[i - 1] = stack[(i - 1) - 1]
        <5>1. i - 1 \in 1 .. n + 1 /\ i - 1 # 1
          BY <1>1, <4>1, <4>2
        <5> QED
          BY <1>6, <5>1
      <4> QED
        BY <4>1, <4>2, <4>3
    <3> QED
      BY <3>1, <3>2
  <2>2. /\ leftover' = leftover /\ Len(t) = n + 1
        /\ \A i \in 1 .. n + 1 : \A e \in t[i].todo, q \in leftover :
             IsPrefix(e, q) => i > 1 /\ e = t[i - 1].dir /\ q # e
    BY <1>4, <2>1
  <2> QED
    BY <2>2 DEF LeftInv, t
<1> QED
  BY <1>7, <1>8

\* Everything in the directory is still to be handled.
LEMMA CalledSettled ==
    ASSUME TreeInv, StackInv(stack), HandledInv(stack), EmptyInv(stack), stack # <<>>,
           NEW p \in stack[1].todo \cap Dir,
           stack' = <<Frame(p)>> \o stack, UNCHANGED <<mode, rules, tree, leftover>>
    PROVE  HandledInv(stack)' /\ EmptyInv(stack)'
<1> DEFINE n == Len(stack)
           t == stack'
<1>1. n \in Nat /\ stack \in Seq(Frames) /\ 1 \in 1 .. n
  BY DEF StackInv
<1>2. /\ p \in tree /\ p \in Seq(Segment) /\ IsPrefix(stack[1].dir, p) /\ stack[1].dir \in Seq(Segment)
      /\ Len(p) = (n - 1) + 1
  BY <1>1, TodoProperties
<1>3. /\ Frame(p) \in Frames /\ Frame(p).dir = p /\ Frame(p).todo = Entries(p) /\ Frame(p).empty
      /\ \A e \in Entries(p) : /\ e \in tree /\ Front(e) = p /\ e \in Seq(Segment) /\ IsPrefix(p, e) /\ e # p
      /\ \A q \in tree : IsPrefix(p, q) /\ q # p => \E e \in Entries(p) : IsPrefix(e, q)
  BY <1>2, FrameCovers
<1>4. /\ t \in Seq(Frames) /\ Len(t) = n + 1 /\ t[1] = Frame(p)
      /\ \A i \in 2 .. n + 1 : t[i] = stack[i - 1]
  BY <1>1, <1>3, PushedFrames
<1> HIDE DEF t
<1>5. \A i \in 1 .. n + 1 : i # 1 => i \in 2 .. n + 1 /\ i - 1 \in 1 .. n /\ (i - 1) + 1 = i
  BY <1>1
<1>6. \A i \in 1 .. n + 1 : i = 1 \/ (i # 1 /\ t[i] = stack[i - 1])
  BY <1>4, <1>5
<1>7. \A q : Wanted(q)' = Wanted(q)
  BY DEF Wanted
<1>8. \A q : Settled(q)' <=> Settled(q)
  BY <1>7 DEF Settled, AtOrBelow
<1>9. HandledInv(stack)'
  <2>1. ASSUME NEW i \in 1 .. n + 1, NEW x \in tree, IsPrefix(t[i].dir, x), x # t[i].dir
        PROVE  Settled(x) \/ \E e \in t[i].todo : IsPrefix(e, x)
    <3>1. CASE i = 1
      BY <1>3, <1>4, <2>1, <3>1
    <3>2. CASE i # 1
      BY <1>5, <1>6, <2>1, <3>2 DEF HandledInv
    <3> QED
      BY <3>1, <3>2
  <2> QED
    BY <1>4, <1>8, <2>1 DEF HandledInv, t
<1>10. EmptyInv(stack)'
  <2>1. ASSUME NEW i \in 1 .. n + 1, ~t[i].empty
        PROVE  \E q \in tree : IsPrefix(t[i].dir, q) /\ q # t[i].dir /\ Wanted(q) = "keep"
    <3>1. CASE i = 1
      BY <1>3, <1>4, <2>1, <3>1
    <3>2. CASE i # 1
      BY <1>5, <1>6, <2>1, <3>2 DEF EmptyInv
    <3> QED
      BY <3>1, <3>2
  <2> QED
    BY <1>4, <1>7, <2>1 DEF EmptyInv, t
<1> QED
  BY <1>9, <1>10

-----------------------------------------------------------------------------
(* The calls and the tree, whatever the rules.                             *)

\* Only a traversal has calls, and nothing is removed before it.  This needs
\* nothing of what the rules say.
ShapeInv ==
    /\ mode \in {"base", "user"} /\ phase \in {"parse", "traverse", "done", "panicked", "aborted"}
    /\ phase = "parse" => stack = <<>> /\ leftover = {}
    /\ phase = "traverse" => stack # <<>>
    /\ rules \in Seq(AllRules)
    /\ TreeInv /\ StackInv(stack) /\ LeftInv(stack, {})

\* The invariant holds in the beginning.
LEMMA InitShape ==
    ASSUME Init
    PROVE  ShapeInv
<1>1. TreeInv
  BY PathsAreSequences DEF Init, TreeInv, ClosedTree
<1>2. StackInv(stack) /\ LeftInv(stack, {})
  <2>1. stack \in Seq(Frames) /\ Len(stack) = 0 /\ 1 .. 0 = {}
    BY DEF Init
  <2> QED
    BY <2>1 DEF StackInv, LeftInv
<1>3. rules \in Seq(AllRules)
  BY DEF Init
<1> QED
  BY <1>1, <1>2, <1>3 DEF Init, ShapeInv

\* A rule that is read changes neither the tree nor the calls.
LEMMA ReadRuleShape ==
    ASSUME ShapeInv, NEW rule \in Rule, ReadRule(rule)
    PROVE  ShapeInv'
<1>1. /\ phase = "parse" /\ phase' = phase /\ mode' = mode /\ tree' = tree /\ leftover' = leftover
      /\ stack' = stack /\ rules' = Append(rules, rule)
  BY DEF ReadRule
<1>2. rules' \in Seq(AllRules)
  BY <1>1 DEF ShapeInv, AllRules
<1>3. stack' = <<>>
  BY <1>1 DEF ShapeInv
<1>4. StackInv(stack)' /\ LeftInv(stack, {})'
  BY <1>3, NoCalls
<1> QED
  BY <1>1, <1>2, <1>4 DEF ShapeInv, TreeInv

\* The call on the folder itself.
LEMMA StartTraversalShape ==
    ASSUME ShapeInv, StartTraversal
    PROVE  ShapeInv' /\ Len(stack') = 1 /\ stack'[1] = Frame(<<>>)
<1> DEFINE f == Frame(<<>>)
<1>1. /\ phase = "parse" /\ phase' = "traverse" /\ mode' = mode /\ tree' = tree /\ leftover' = leftover
      /\ stack' = <<f>> /\ rules' = Append(rules, EnforcedRule)
  BY DEF StartTraversal
<1>2. rules' \in Seq(AllRules) /\ leftover = {} /\ TreeInv
  BY <1>1 DEF ShapeInv, AllRules
<1>3. <<>> \in Seq(Segment) /\ Len(<<>>) = 0
  OBVIOUS
<1>4. /\ f \in Frames /\ f.dir = <<>> /\ f.todo = Entries(<<>>)
      /\ \A e \in Entries(<<>>) : e \in tree /\ Front(e) = <<>>
  BY <1>2, <1>3, FrameCovers
<1> HIDE DEF f
<1>5. /\ stack' \in Seq(Frames) /\ Len(stack') = 1 /\ stack'[1] = f /\ stack' # <<>>
      /\ \A i \in 1 .. 1 : i = 1 /\ ~(i < 1)
  BY <1>1, <1>4
<1>6. StackInv(stack)'
  <2>1. IsPrefix(<<>>, <<>>)
    BY <1>3, PrefixReflexive
  <2>2. \A i \in 1 .. 1 :
          /\ Len(stack'[i].dir) = 1 - i /\ IsPrefix(stack'[i].dir, stack'[1].dir)
          /\ \A e \in stack'[i].todo : e \in tree' /\ Front(e) = stack'[i].dir
    BY <1>1, <1>3, <1>4, <1>5, <2>1
  <2> QED
    BY <1>5, <2>2 DEF StackInv
<1>7. LeftInv(stack, {})'
  BY <1>1, <1>2 DEF LeftInv
<1> QED
  BY <1>1, <1>2, <1>5, <1>6, <1>7 DEF ShapeInv, TreeInv, f

\* The entry that is handled is one of the innermost call; nothing is left over there.
LEMMA EntryOfTop ==
    ASSUME ShapeInv, NEW p, Entry(p)
    PROVE  /\ stack # <<>> /\ p \in stack[1].todo /\ p \in tree /\ p \in Paths /\ p \in Seq(Segment)
           /\ phase = "traverse" /\ mode \in {"base", "user"}
           /\ \A q \in leftover : ~IsPrefix(p, q)
           /\ LeftInv(stack, {p})
<1>1. phase = "traverse" /\ stack # <<>> /\ mode \in {"base", "user"}
  BY DEF Entry, ShapeInv
<1>2. stack \in Seq(Frames) /\ Len(stack) \in Nat
  BY DEF ShapeInv, StackInv
<1>3. p \in stack[1].todo /\ 1 \in 1 .. Len(stack)
  BY <1>1, <1>2, TailProperties DEF Entry, Top
<1>4. p \in tree /\ p \in Paths /\ p \in Seq(Segment)
  BY <1>3, TodoProperties DEF ShapeInv
<1>5. \A q \in leftover : ~IsPrefix(p, q)
  BY <1>3 DEF ShapeInv, LeftInv
<1>6. LeftInv(stack, {p})
  BY DEF ShapeInv, LeftInv
<1> QED
  BY <1>1, <1>3, <1>4, <1>5, <1>6

\* An entry stays.
LEMMA KeepEntryShape ==
    ASSUME ShapeInv, NEW p \in Paths, KeepEntry(p)
    PROVE  ShapeInv'
<1>1. /\ Entry(p) /\ stack' = Handled(stack, p, FALSE) /\ mode' = mode /\ rules' = rules /\ graph' = graph
      /\ phase' = phase /\ tree' = tree /\ leftover' = leftover
  BY DEF KeepEntry
<1>2. stack # <<>> /\ p \in stack[1].todo /\ phase = "traverse" /\ LeftInv(stack, {p})
  BY <1>1, EntryOfTop
<1>3. TreeInv /\ TreeInv' /\ StackInv(stack)
  BY <1>1 DEF ShapeInv, TreeInv
<1>4. StackInv(stack)' /\ LeftInv(stack, {})' /\ stack' # <<>>
  BY <1>1, <1>2, <1>3, AfterEntry
<1> QED
  BY <1>1, <1>2, <1>3, <1>4 DEF ShapeInv

\* An entry goes, or what is left of it cannot be removed.
LEMMA RemoveEntryShape ==
    ASSUME ShapeInv, NEW p \in Paths, RemoveEntry(p)
    PROVE  ShapeInv'
<1>1. /\ Entry(p) /\ stack' = Handled(stack, p, TRUE)
      /\ mode' = mode /\ rules' = rules /\ graph' = graph /\ phase' = phase
  BY DEF RemoveEntry
<1>2. PICK left \in Remains(p) : Delete(p, left)
  BY DEF RemoveEntry
<1>3. /\ stack # <<>> /\ p \in stack[1].todo /\ p \in tree /\ phase = "traverse"
      /\ LeftInv(stack, {p}) /\ \A q \in leftover : ~IsPrefix(p, q)
  BY <1>1, EntryOfTop
<1>4. TreeInv /\ StackInv(stack)
  BY DEF ShapeInv
<1>5. /\ TreeInv' /\ tree' \subseteq tree
      /\ \A q \in tree : ~IsPrefix(p, q) => q \in tree'
      /\ \A q \in leftover' : q \in leftover \/ IsPrefix(p, q)
  BY <1>2, <1>3, <1>4, Removed
<1>6. StackInv(stack)' /\ LeftInv(stack, {})' /\ stack' # <<>>
  BY <1>1, <1>3, <1>4, <1>5, AfterEntry
<1> QED
  BY <1>1, <1>3, <1>5, <1>6 DEF ShapeInv

\* An entry is not listed, and nor is what it holds.
LEMMA SkipEntryShape ==
    ASSUME ShapeInv, NEW p \in Paths, SkipEntry(p)
    PROVE  ShapeInv'
<1>1. /\ Entry(p) /\ stack' = Handled(stack, p, TRUE) /\ mode' = mode /\ rules' = rules /\ graph' = graph
      /\ phase' = phase /\ tree' = tree /\ leftover' = leftover \cup AtOrBelow(p)
  BY DEF SkipEntry
<1>2. stack # <<>> /\ p \in stack[1].todo /\ phase = "traverse" /\ LeftInv(stack, {p})
  BY <1>1, EntryOfTop
<1>3. TreeInv /\ TreeInv' /\ StackInv(stack)
  BY <1>1 DEF ShapeInv, TreeInv, AtOrBelow
<1>4. \A q \in leftover' : q \in leftover \/ IsPrefix(p, q)
  BY <1>1 DEF AtOrBelow
<1>5. StackInv(stack)' /\ LeftInv(stack, {})' /\ stack' # <<>>
  BY <1>1, <1>2, <1>3, <1>4, AfterEntry
<1> QED
  BY <1>1, <1>2, <1>3, <1>5 DEF ShapeInv

\* A directory is entered.
LEMMA EnterDirShape ==
    ASSUME ShapeInv, NEW p \in Paths, EnterDir(p)
    PROVE  ShapeInv'
<1>1. /\ Entry(p) /\ Entered(p) /\ ~GetAction(graph, p).panic /\ stack' = <<Frame(p)>> \o stack
      /\ mode' = mode /\ rules' = rules /\ graph' = graph /\ phase' = phase /\ tree' = tree
      /\ leftover' = leftover
  BY DEF EnterDir
<1>2. stack # <<>> /\ p \in stack[1].todo \cap Dir /\ phase = "traverse"
  BY <1>1, EntryOfTop DEF Entered
<1>3. StackInv(stack)' /\ LeftInv(stack, {})'
  BY <1>1, <1>2, Called DEF ShapeInv
<1>4. stack' # <<>>
  BY <1>1 DEF ShapeInv, StackInv
<1> QED
  BY <1>1, <1>2, <1>3, <1>4 DEF ShapeInv, TreeInv

\* A directory is left: it is an entry of the call around it, nothing of it is left
\* over, and it goes only when nothing is in it.
LEMMA LeaveDirShape ==
    ASSUME ShapeInv, LeaveDir
    PROVE  ShapeInv'
<1> DEFINE d == stack[1].dir
           s == Tail(stack)
           b == stack[1].empty
           Goes == b /\ Decides(d, "delete") /\ Entries(d) = {}
<1>1. Len(stack) > 1 /\ phase = "traverse" /\ TreeInv /\ StackInv(stack) /\ LeftInv(stack, {})
  BY DEF LeaveDir, ShapeInv
<1>2. /\ s # <<>> /\ d \in s[1].todo /\ StackInv(s) /\ LeftInv(s, {d}) /\ d \notin leftover /\ b \in BOOLEAN
      /\ Head(stack) = stack[1]
  BY <1>1, Returned
<1>3. /\ mode' = mode /\ rules' = rules /\ graph' = graph /\ phase' = phase /\ stack' = Handled(s, d, b)
      /\ IF Goes THEN \E left \in Remains(d) : Delete(d, left) ELSE tree' = tree /\ leftover' = leftover
  BY <1>2 DEF LeaveDir, Top
<1>4. d \in tree /\ d \in Seq(Segment)
  <2>1. 1 \in 1 .. Len(s)
    BY <1>2 DEF StackInv
  <2> QED
    BY <1>1, <1>2, <2>1, TodoProperties
<1> HIDE DEF s, b
<1> DEFINE Effect == /\ TreeInv' /\ tree' \subseteq tree
                     /\ \A q \in tree : ~IsPrefix(d, q) => q \in tree'
                     /\ \A q \in leftover' : q \in leftover \/ IsPrefix(d, q)
<1>5. ASSUME Goes
      PROVE  Effect
  <2>1. PICK left \in Remains(d) : Delete(d, left)
    BY <1>3, <1>5
  <2>2. \A q \in leftover : ~IsPrefix(d, q)
    BY <1>1, <1>2, <1>4, <1>5, FrameCovers DEF TreeInv
  <2> QED
    BY <1>1, <1>4, <2>1, <2>2, Removed
<1>6. ASSUME ~Goes
      PROVE  Effect
  BY <1>1, <1>3, <1>6 DEF TreeInv
<1>7. Effect
  BY <1>5, <1>6
<1> HIDE DEF d
<1>8. StackInv(stack)' /\ LeftInv(stack, {})' /\ stack' # <<>>
  BY <1>1, <1>2, <1>3, <1>7, AfterEntry
<1> QED
  BY <1>1, <1>3, <1>7, <1>8 DEF ShapeInv

\* The run ends, or nothing happens.
LEMMA EndsShape ==
    ASSUME ShapeInv,
           ReadGarbage \/ Finish \/ TraversalFails \/ (\E p \in Paths : Panic(p)) \/ UNCHANGED vars
    PROVE  ShapeInv'
<1>1. /\ mode' = mode /\ rules' = rules /\ graph' = graph /\ tree' = tree /\ leftover' = leftover
      /\ phase' = phase \/ phase' \in {"done", "panicked", "aborted"}
      /\ (stack' = stack \/ stack' = <<>>) /\ (phase' = phase => stack' = stack)
  BY DEF ReadGarbage, Finish, TraversalFails, Panic, vars, ShapeInv
<1>2. StackInv(stack)' /\ LeftInv(stack, {})'
  <2>1. CASE stack' = <<>>
    BY <2>1, NoCalls
  <2>2. CASE stack' = stack
    <3>1. StackInv(stack)'
      BY <1>1, <2>2 DEF ShapeInv, StackInv
    <3>2. LeftInv(stack, {})'
      BY <1>1, <2>2 DEF ShapeInv, LeftInv
    <3> QED
      BY <3>1, <3>2
  <2> QED
    BY <1>1, <2>1, <2>2
<1> QED
  BY <1>1, <1>2 DEF ShapeInv, TreeInv

\* One step.
LEMMA NextShape ==
    ASSUME ShapeInv, [Next]_vars
    PROVE  ShapeInv'
<1>1. CASE \E rule \in Rule : ReadRule(rule)
  BY <1>1, ReadRuleShape
<1>2. CASE StartTraversal
  BY <1>2, StartTraversalShape
<1>3. CASE \E p \in Paths : KeepEntry(p)
  BY <1>3, KeepEntryShape
<1>4. CASE \E p \in Paths : RemoveEntry(p)
  BY <1>4, RemoveEntryShape
<1>5. CASE \E p \in Paths : EnterDir(p)
  BY <1>5, EnterDirShape
<1>6. CASE LeaveDir
  BY <1>6, LeaveDirShape
<1>7. CASE \E p \in Paths : SkipEntry(p)
  BY <1>7, SkipEntryShape
<1>8. CASE ReadGarbage \/ Finish \/ TraversalFails \/ (\E p \in Paths : Panic(p)) \/ UNCHANGED vars
  BY <1>8, EndsShape
<1> QED
  BY <1>1, <1>2, <1>3, <1>4, <1>5, <1>6, <1>7, <1>8 DEF Next

\* The shape of a run is the same whatever the rules are.
THEOREM ShapeHolds == Spec => []ShapeInv
<1> QED
  BY InitShape, NextShape, PTL DEF Spec

\* TypeOK holds for every set of patterns, also where the code does not do what the
\* rules mean: the calls of traverse are on nested directories of the folder, and
\* what they still have to handle is there, whatever was removed meanwhile.
THEOREM TypeCorrect == Spec => []TypeOK
<1>1. ASSUME ShapeInv
      PROVE  TypeOK
  <2>1. /\ mode \in {"base", "user"} /\ phase \in {"parse", "traverse", "done", "panicked", "aborted"}
        /\ rules \in Seq(Rule \cup {EnforcedRule})
    BY <1>1 DEF ShapeInv, AllRules
  <2>2. tree \in SUBSET Paths /\ leftover \subseteq tree
    BY <1>1 DEF ShapeInv, TreeInv, ClosedTree
  <2>3. DOMAIN stack = 1 .. Len(stack)
    BY <1>1 DEF ShapeInv, StackInv
  <2>4. \A i \in DOMAIN stack :
          /\ \A p \in stack[i].todo : p \in tree /\ Front(p) = stack[i].dir
          /\ i < Len(stack) => stack[i].dir \in stack[i + 1].todo \cap Dir
    BY <1>1, <2>3 DEF ShapeInv, StackInv
  <2> QED
    BY <2>1, <2>2, <2>4 DEF TypeOK
<1> QED
  BY <1>1, ShapeHolds, PTL

-----------------------------------------------------------------------------
(* What the rules want of the tree.                                        *)

\* What has been handled is as the rules want it; where the traversal is done, that
\* is everything.
SettledInv ==
    /\ HandledInv(stack) /\ EmptyInv(stack)
    /\ phase = "done" => \A p \in tree : Settled(p)

IInv == ShapeInv /\ GraphInv /\ SettledInv

\* What is kept outlives the step.
KeptSurvive == \A q \in tree : Wanted(q) = "keep" => q \in tree'

\* Nothing but the calls and the phase changes.
LEMMA Unchanged ==
    ASSUME UNCHANGED <<rules, graph, tree, leftover, mode>>
    PROVE  /\ GraphInv => GraphInv'
           /\ \A p : Settled(p)' <=> Settled(p)
           /\ KeptSurvive
<1>1. \A p : Settled(p)' <=> Settled(p)
  BY DEF Settled, AtOrBelow, Wanted
<1> QED
  BY <1>1 DEF GraphInv, KeptSurvive

\* The invariant holds in the beginning: the graph stands for no rules.
LEMMA InitHolds ==
    ASSUME Init
    PROVE  IInv
<1>1. GraphInv
  <2>1. rules \in Seq(AllRules)
    BY DEF Init
  <2> QED
    BY <2>1, NewGraphRepresents DEF Init, GraphInv
<1>2. SettledInv
  <2>1. Len(stack) = 0 /\ 1 .. 0 = {} /\ phase # "done"
    BY DEF Init
  <2> QED
    BY <2>1 DEF SettledInv, HandledInv, EmptyInv
<1> QED
  BY <1>1, <1>2, InitShape DEF IInv

\* The graph stands for the rules with the new one.
LEMMA ReadRuleHolds ==
    ASSUME TrailingPatterns, IInv, NEW rule \in Rule, ReadRule(rule)
    PROVE  GraphInv' /\ SettledInv' /\ KeptSurvive
<1>1. /\ phase = "parse" /\ phase' = phase /\ tree' = tree /\ stack' = stack
      /\ rules' = Append(rules, rule) /\ graph' = AddRule(graph, rule)
  BY DEF ReadRule
<1>2. GraphInv'
  <2>1. rule \in AllRules
    BY DEF AllRules
  <2> QED
    BY <1>1, <2>1, GraphGrows DEF IInv
<1>3. stack' = <<>>
  BY <1>1 DEF IInv, ShapeInv
<1>4. HandledInv(stack)' /\ EmptyInv(stack)'
  BY <1>3, NoCalls
<1> QED
  BY <1>1, <1>2, <1>4 DEF SettledInv, KeptSurvive

\* With the last rule read, everything is still to be handled.
LEMMA StartTraversalHolds ==
    ASSUME TrailingPatterns, IInv, StartTraversal
    PROVE  GraphInv' /\ SettledInv' /\ KeptSurvive
<1> DEFINE f == Frame(<<>>)
<1>1. /\ phase' = "traverse" /\ tree' = tree
      /\ rules' = Append(rules, EnforcedRule) /\ graph' = AddRule(graph, EnforcedRule)
  BY DEF StartTraversal
<1>2. GraphInv'
  <2>1. EnforcedRule \in AllRules
    BY DEF AllRules
  <2> QED
    BY <1>1, <2>1, GraphGrows DEF IInv
<1>3. Len(stack') = 1 /\ stack'[1] = f /\ \A i \in 1 .. 1 : i = 1
  BY StartTraversalShape DEF IInv
<1>4. <<>> \in Seq(Segment)
  OBVIOUS
<1>5. /\ f.dir = <<>> /\ f.todo = Entries(<<>>) /\ f.empty
      /\ \A q \in tree : IsPrefix(<<>>, q) /\ q # <<>> => \E e \in Entries(<<>>) : IsPrefix(e, q)
  BY <1>4, FrameCovers DEF IInv, ShapeInv
<1> HIDE DEF f
<1>6. HandledInv(stack)'
  <2>1. \A i \in 1 .. 1 : \A p \in tree' :
          IsPrefix(stack'[i].dir, p) /\ p # stack'[i].dir => \E e \in stack'[i].todo : IsPrefix(e, p)
    BY <1>1, <1>3, <1>5
  <2> QED
    BY <1>3, <2>1 DEF HandledInv
<1>7. EmptyInv(stack)'
  BY <1>3, <1>5 DEF EmptyInv
<1> QED
  BY <1>1, <1>2, <1>6, <1>7 DEF SettledInv, KeptSurvive

\* Where the traversal does not descend into what it keeps, all below is kept.
LEMMA KeepEntryHolds ==
    ASSUME TrailingPatterns, IInv, NEW p \in Paths, KeepEntry(p)
    PROVE  GraphInv' /\ SettledInv' /\ KeptSurvive
<1>1. /\ Entry(p) /\ ~Entered(p) /\ Decides(p, "keep") /\ stack' = Handled(stack, p, FALSE)
      /\ mode' = mode /\ rules' = rules /\ graph' = graph /\ phase' = phase /\ tree' = tree
      /\ leftover' = leftover
  BY DEF KeepEntry
<1>2. /\ GraphInv /\ TreeInv /\ StackInv(stack) /\ HandledInv(stack) /\ EmptyInv(stack) /\ ShapeInv
      /\ phase = "done" => \A q \in tree : Settled(q)
  BY DEF IInv, ShapeInv, SettledInv
<1>3. /\ stack # <<>> /\ p \in stack[1].todo /\ p \in tree /\ p \in Seq(Segment) /\ mode \in {"base", "user"}
  BY <1>1, <1>2, EntryOfTop
<1>4. \A q \in AtOrBelow(p) : Wanted(q) = "keep"
  BY <1>1, <1>2, <1>3, NotEntered
<1>5. GraphInv' /\ KeptSurvive /\ \A q : Settled(q)' <=> Settled(q)
  BY <1>1, <1>2, Unchanged
<1>6. \A q \in tree' : IsPrefix(p, q) => Settled(q)'
  <2> SUFFICES ASSUME NEW q \in tree, IsPrefix(p, q)
               PROVE  Settled(q)
    BY <1>1, <1>5
  <2>1. IsPrefix(q, q)
    BY PathsAreSequences, PrefixReflexive, <1>2 DEF TreeInv, ClosedTree
  <2> QED
    BY <1>4, <2>1 DEF Settled, AtOrBelow
<1>7. \E q \in tree : IsPrefix(p, q) /\ Wanted(q) = "keep"
  <2>1. IsPrefix(p, p)
    BY <1>3, PrefixReflexive
  <2> QED
    BY <1>3, <1>4, <2>1 DEF AtOrBelow
<1>8. HandledInv(stack)' /\ EmptyInv(stack)'
  BY <1>1, <1>2, <1>3, <1>5, <1>6, <1>7, SettledAfterEntry
<1> QED
  BY <1>1, <1>2, <1>5, <1>8 DEF SettledInv

\* Where it does not descend into what it deletes, nothing below is kept.
LEMMA RemoveEntryHolds ==
    ASSUME TrailingPatterns, IInv, NEW p \in Paths, RemoveEntry(p)
    PROVE  GraphInv' /\ SettledInv' /\ KeptSurvive
<1>1. /\ Entry(p) /\ ~Entered(p) /\ Decides(p, "delete") /\ stack' = Handled(stack, p, TRUE)
      /\ mode' = mode /\ rules' = rules /\ graph' = graph /\ phase' = phase
  BY DEF RemoveEntry
<1>2. PICK left \in Remains(p) : Delete(p, left)
  BY DEF RemoveEntry
<1>3. GraphInv /\ TreeInv /\ StackInv(stack) /\ HandledInv(stack) /\ EmptyInv(stack) /\ ShapeInv
  BY DEF IInv, ShapeInv, SettledInv
<1>4. /\ stack # <<>> /\ p \in stack[1].todo /\ p \in tree /\ phase = "traverse"
      /\ mode \in {"base", "user"} /\ \A q \in leftover : ~IsPrefix(p, q)
  BY <1>1, <1>3, EntryOfTop
<1>5. \A q \in AtOrBelow(p) : Wanted(q) # "keep"
  <2>1. \A q \in AtOrBelow(p) : Wanted(q) = "delete"
    BY <1>1, <1>3, <1>4, NotEntered
  <2> QED
    BY <2>1
<1>6. /\ tree' \subseteq tree
      /\ \A q \in tree' : Settled(q) => Settled(q)'
      /\ \A q \in tree : Wanted(q) = "keep" \/ ~IsPrefix(p, q) => q \in tree'
      /\ \A q \in tree' : IsPrefix(p, q) => Settled(q)'
  BY <1>1, <1>2, <1>3, <1>4, <1>5, Removed, RemovedSettled
<1>7. HandledInv(stack)' /\ EmptyInv(stack)'
  BY <1>1, <1>3, <1>4, <1>6, SettledAfterEntry
<1> QED
  BY <1>1, <1>3, <1>4, <1>6, <1>7 DEF SettledInv, GraphInv, KeptSurvive

\* What was not listed is accounted for, with all below it.
LEMMA SkipEntryHolds ==
    ASSUME TrailingPatterns, IInv, NEW p \in Paths, SkipEntry(p)
    PROVE  GraphInv' /\ SettledInv' /\ KeptSurvive
<1>1. /\ Entry(p) /\ stack' = Handled(stack, p, TRUE) /\ mode' = mode /\ rules' = rules /\ graph' = graph
      /\ phase' = phase /\ tree' = tree /\ leftover' = leftover \cup AtOrBelow(p)
  BY DEF SkipEntry
<1>2. GraphInv /\ TreeInv /\ StackInv(stack) /\ HandledInv(stack) /\ EmptyInv(stack) /\ ShapeInv
  BY DEF IInv, ShapeInv, SettledInv
<1>3. stack # <<>> /\ p \in stack[1].todo /\ phase = "traverse"
  BY <1>1, <1>2, EntryOfTop
<1>4. GraphInv' /\ KeptSurvive
  BY <1>1, <1>2 DEF GraphInv, KeptSurvive
<1>5. \A q : Settled(q) => Settled(q)'
  BY <1>1 DEF Settled, AtOrBelow, Wanted
<1>6. ASSUME NEW q \in tree', IsPrefix(p, q)
      PROVE  Settled(q)'
  <2>1. q \in tree /\ IsPrefix(q, q)
    BY PathsAreSequences, PrefixReflexive, <1>1, <1>2, <1>6 DEF TreeInv, ClosedTree
  <2>2. q \in leftover'
    BY <1>1, <1>6, <2>1 DEF AtOrBelow
  <2> QED
    BY <1>6, <2>1, <2>2 DEF Settled, AtOrBelow
<1>7. HandledInv(stack)' /\ EmptyInv(stack)'
  <2>1. \A q \in tree : Wanted(q) = "keep" => q \in tree'
    BY <1>4 DEF KeptSurvive
  <2> QED
    BY <1>1, <1>2, <1>3, <1>5, <1>6, <2>1, SettledAfterEntry
<1> QED
  BY <1>1, <1>3, <1>4, <1>7 DEF SettledInv

\* A call is on a directory of which everything is still to be handled.
LEMMA EnterDirHolds ==
    ASSUME TrailingPatterns, IInv, NEW p \in Paths, EnterDir(p)
    PROVE  GraphInv' /\ SettledInv' /\ KeptSurvive
<1>1. /\ Entry(p) /\ Entered(p) /\ stack' = <<Frame(p)>> \o stack
      /\ mode' = mode /\ rules' = rules /\ graph' = graph /\ phase' = phase /\ tree' = tree
      /\ leftover' = leftover
  BY DEF EnterDir
<1>2. GraphInv /\ TreeInv /\ StackInv(stack) /\ HandledInv(stack) /\ EmptyInv(stack) /\ ShapeInv
  BY DEF IInv, ShapeInv, SettledInv
<1>3. stack # <<>> /\ p \in stack[1].todo \cap Dir /\ phase = "traverse"
  BY <1>1, <1>2, EntryOfTop DEF Entered
<1>4. HandledInv(stack)' /\ EmptyInv(stack)'
  BY <1>1, <1>2, <1>3, CalledSettled
<1>5. GraphInv' /\ KeptSurvive
  BY <1>1, <1>2, Unchanged
<1> QED
  BY <1>1, <1>3, <1>4, <1>5 DEF SettledInv

\* remove_dir is called on an empty directory only; one that stays holds something
\* that has a reason to be there, or is kept itself.
LEMMA LeaveDirHolds ==
    ASSUME TrailingPatterns, IInv, LeaveDir
    PROVE  GraphInv' /\ SettledInv' /\ KeptSurvive
<1> DEFINE d == stack[1].dir
           s == Tail(stack)
           b == stack[1].empty
           Goes == b /\ Decides(d, "delete") /\ Entries(d) = {}
<1>1. /\ GraphInv /\ TreeInv /\ StackInv(stack) /\ LeftInv(stack, {}) /\ HandledInv(stack)
      /\ EmptyInv(stack) /\ mode \in {"base", "user"}
  BY DEF IInv, ShapeInv, SettledInv
<1>2. Len(stack) > 1 /\ phase = "traverse" /\ Top.todo = {}
  BY DEF LeaveDir
<1>3. /\ s # <<>> /\ d \in s[1].todo /\ ~GetAction(graph, d).panic /\ StackInv(s)
      /\ d \notin leftover /\ b \in BOOLEAN /\ Head(stack) = stack[1]
  BY <1>1, <1>2, Returned
<1>4. /\ HandledInv(s) /\ EmptyInv(s)
      /\ \A q \in tree : IsPrefix(d, q) /\ q # d => Settled(q)
      /\ ~b => \E q \in tree : IsPrefix(d, q) /\ q # d /\ Wanted(q) = "keep"
  <2>1. stack[1].todo = {}
    BY <1>2, <1>3 DEF Top
  <2> QED
    BY <1>1, <1>2, <2>1, ReturnedSettled
<1>5. /\ mode' = mode /\ rules' = rules /\ graph' = graph /\ phase' = phase /\ stack' = Handled(s, d, b)
      /\ IF Goes THEN \E left \in Remains(d) : Delete(d, left) ELSE tree' = tree /\ leftover' = leftover
  BY <1>3 DEF LeaveDir, Top
<1>6. d \in tree /\ d \in Paths /\ d \in Seq(Segment)
  <2>1. 1 \in 1 .. Len(s)
    BY <1>3 DEF StackInv
  <2> QED
    BY <1>1, <1>3, <2>1, TodoProperties
<1> HIDE DEF s, b
<1>7. /\ Wanted(d) \in {"keep", "delete"}
      /\ Decides(d, "delete") <=> Wanted(d) = "delete"
  BY <1>1, <1>3, <1>6, Decisions
<1>8. \A q \in tree : IsPrefix(d, q) => q \in Seq(Segment) /\ (q = d \/ \E e \in Entries(d) : IsPrefix(e, q))
  BY <1>1, <1>6, FrameCovers, PathsAreSequences DEF TreeInv, ClosedTree
<1> DEFINE Effect == /\ tree' \subseteq tree
                     /\ \A q \in tree' : Settled(q) => Settled(q)'
                     /\ \A q \in tree : Wanted(q) = "keep" \/ ~IsPrefix(d, q) => q \in tree'
                     /\ \A q \in tree' : IsPrefix(d, q) => Settled(q)'
<1>9. ASSUME Goes
      PROVE  Effect
  <2>1. PICK left \in Remains(d) : Delete(d, left)
    BY <1>5, <1>9
  <2>2. \A q \in AtOrBelow(d) : Wanted(q) # "keep" /\ q \notin leftover
    BY <1>3, <1>7, <1>8, <1>9 DEF AtOrBelow
  <2>3. \A q \in leftover : ~IsPrefix(d, q)
    BY <1>1, <2>2 DEF AtOrBelow, TreeInv
  <2> QED
    BY <1>1, <1>5, <1>6, <2>1, <2>2, <2>3, Removed, RemovedSettled
<1>10. ASSUME ~Goes
       PROVE  Effect
  <2>1. tree' = tree /\ leftover' = leftover
    BY <1>5, <1>10
  <2>2. \A q : Settled(q)' <=> Settled(q)
    BY <1>5, <2>1, Unchanged
  <2>3. Settled(d)
    <3>1. CASE Entries(d) # {}
      <4>1. PICK e \in tree : IsPrefix(d, e) /\ e # d
        BY <1>1, <1>6, <3>1, FrameCovers
      <4>2. PICK q \in tree : IsPrefix(e, q) /\ (Wanted(q) = "keep" \/ q \in leftover)
        BY <1>4, <4>1 DEF Settled, AtOrBelow
      <4>3. e \in Seq(Segment) /\ q \in Seq(Segment)
        BY <1>1, PathsAreSequences DEF TreeInv, ClosedTree
      <4>4. IsPrefix(d, q)
        BY <1>6, <4>1, <4>2, <4>3, PrefixTransitive
      <4> QED
        BY <4>2, <4>4 DEF Settled, AtOrBelow
    <3>2. CASE Entries(d) = {}
      <4>1. b
        BY <1>4, <1>8, <3>2
      <4>2. Wanted(d) = "keep"
        BY <1>7, <1>10, <3>2, <4>1
      <4>3. IsPrefix(d, d)
        BY <1>6, PrefixReflexive
      <4> QED
        BY <1>6, <4>2, <4>3 DEF Settled, AtOrBelow
    <3> QED
      BY <3>1, <3>2
  <2>4. \A q \in tree : IsPrefix(d, q) => Settled(q)
    BY <1>4, <2>3
  <2> QED
    BY <2>1, <2>2, <2>4
<1>11. Effect
  BY <1>9, <1>10
<1>12. ~b => \E q \in tree : IsPrefix(d, q) /\ Wanted(q) = "keep"
  BY <1>4
<1> HIDE DEF d
<1>13. HandledInv(stack)' /\ EmptyInv(stack)'
  BY <1>1, <1>3, <1>4, <1>5, <1>11, <1>12, SettledAfterEntry
<1> QED
  BY <1>1, <1>2, <1>5, <1>11, <1>13 DEF SettledInv, GraphInv, KeptSurvive

\* The call on the folder is over: all that is in it has been handled.
LEMMA FinishHolds ==
    ASSUME IInv, Finish
    PROVE  GraphInv' /\ SettledInv' /\ KeptSurvive
<1>1. /\ phase = "traverse" /\ Len(stack) = 1 /\ Top.todo = {} /\ phase' = "done" /\ stack' = <<>>
      /\ mode' = mode /\ rules' = rules /\ graph' = graph /\ tree' = tree /\ leftover' = leftover
  BY DEF Finish
<1>2. GraphInv /\ TreeInv /\ StackInv(stack) /\ HandledInv(stack) /\ stack # <<>>
  BY <1>1 DEF IInv, ShapeInv, SettledInv
<1>3. stack[1].todo = {} /\ stack[1].dir = <<>>
  <2>1. stack \in Seq(Frames) /\ stack # <<>> /\ 1 \in 1 .. Len(stack)
    BY <1>1, <1>2 DEF StackInv
  <2>2. stack[1].todo = {}
    BY <1>1, <2>1, TailProperties DEF Top
  <2>3. stack[1].dir \in Seq(Segment) /\ Len(stack[1].dir) = 1 - 1
    BY <1>1, <1>2, <2>1, TodoProperties
  <2> QED
    BY <2>2, <2>3
<1>4. \A p \in tree : p \in Seq(Segment) /\ p # <<>>
  BY <1>2, PathsAreSequences DEF TreeInv, ClosedTree
<1>5. \A p \in tree : IsPrefix(<<>>, p)
  <2> DEFINE e == <<>>
  <2>1. e \in Seq(Segment) /\ Len(e) = 0 /\ 1 .. 0 = {}
    OBVIOUS
  <2> HIDE DEF e
  <2>2. ASSUME NEW p \in tree
        PROVE  IsPrefix(e, p)
    <3>1. p \in Seq(Segment) /\ Len(p) \in Nat
      BY <1>4
    <3>2. Len(e) <= Len(p) /\ \A i \in 1 .. Len(e) : e[i] = p[i]
      BY <2>1, <3>1
    <3> QED
      BY <2>1, <3>1, <3>2, PrefixPointwise
  <2> QED
    BY <2>2 DEF e
<1>6. \A p \in tree : Settled(p)
  <2>1. 1 \in 1 .. Len(stack)
    BY <1>1
  <2> QED
    BY <1>2, <1>3, <1>4, <1>5, <2>1 DEF HandledInv
<1>7. GraphInv' /\ KeptSurvive /\ \A p : Settled(p)' <=> Settled(p)
  BY <1>1, <1>2, Unchanged
<1>8. HandledInv(stack)' /\ EmptyInv(stack)'
  BY <1>1, NoCalls
<1> QED
  BY <1>1, <1>6, <1>7, <1>8 DEF SettledInv

\* The run ends early, or nothing happens.
LEMMA EndsEarly ==
    ASSUME IInv, ReadGarbage \/ TraversalFails \/ (\E p \in Paths : Panic(p)) \/ UNCHANGED vars
    PROVE  GraphInv' /\ SettledInv' /\ KeptSurvive
<1>1. /\ mode' = mode /\ rules' = rules /\ graph' = graph /\ tree' = tree /\ leftover' = leftover
      /\ (phase' = phase \/ phase' # "done") /\ (stack' = stack \/ stack' = <<>>)
  BY DEF ReadGarbage, TraversalFails, Panic, vars
<1>2. GraphInv /\ SettledInv
  BY DEF IInv
<1>3. GraphInv' /\ KeptSurvive /\ \A p : Settled(p)' <=> Settled(p)
  BY <1>1, <1>2, Unchanged
<1>4. HandledInv(stack)' /\ EmptyInv(stack)'
  <2>1. CASE stack' = <<>>
    BY <2>1, NoCalls
  <2>2. CASE stack' = stack
    <3>1. HandledInv(stack)'
      BY <1>1, <1>2, <1>3, <2>2 DEF SettledInv, HandledInv
    <3>2. EmptyInv(stack)'
      BY <1>1, <1>2, <2>2 DEF SettledInv, EmptyInv, Wanted
    <3> QED
      BY <3>1, <3>2
  <2> QED
    BY <1>1, <2>1, <2>2
<1> QED
  BY <1>1, <1>2, <1>3, <1>4 DEF SettledInv

\* One step.
LEMMA NextHolds ==
    ASSUME TrailingPatterns, IInv, [Next]_vars
    PROVE  IInv' /\ KeptSurvive
<1>1. CASE \E rule \in Rule : ReadRule(rule)
  BY <1>1, ReadRuleHolds, NextShape DEF IInv
<1>2. CASE StartTraversal
  BY <1>2, StartTraversalHolds, NextShape DEF IInv
<1>3. CASE \E p \in Paths : KeepEntry(p)
  BY <1>3, KeepEntryHolds, NextShape DEF IInv
<1>4. CASE \E p \in Paths : RemoveEntry(p)
  BY <1>4, RemoveEntryHolds, NextShape DEF IInv
<1>5. CASE \E p \in Paths : EnterDir(p)
  BY <1>5, EnterDirHolds, NextShape DEF IInv
<1>6. CASE LeaveDir
  BY <1>6, LeaveDirHolds, NextShape DEF IInv
<1>7. CASE Finish
  BY <1>7, FinishHolds, NextShape DEF IInv
<1>8. CASE \E p \in Paths : SkipEntry(p)
  BY <1>8, SkipEntryHolds, NextShape DEF IInv
<1>9. CASE ReadGarbage \/ TraversalFails \/ (\E p \in Paths : Panic(p)) \/ UNCHANGED vars
  BY <1>9, EndsEarly, NextShape DEF IInv
<1> QED
  BY <1>1, <1>2, <1>3, <1>4, <1>5, <1>6, <1>7, <1>8, <1>9 DEF Next

\* The inductive invariant of a run whose rules have "**" at their end only.
THEOREM Inductive == ASSUME TrailingPatterns PROVE Spec => []IInv
<1> QED
  BY InitHolds, NextHolds, PTL DEF Spec

\* LastRuleDecides: the graph of add_rule and get_action decides like the last rule
\* that matches, for every sequence of rules and every path.
THEOREM LastRuleAlwaysDecides == ASSUME TrailingPatterns PROVE Spec => []LastRuleDecides
<1>1. ASSUME IInv
      PROVE  LastRuleDecides
  <2> SUFFICES ASSUME NEW p \in Paths \cap Seq(Unicode)
               PROVE  /\ ~GetAction(graph, p).panic
                      /\ GetAction(graph, p).actions = LastRule(rules, p).actions
    BY DEF LastRuleDecides
  <2>1. p \in Seq(Segment) /\ p # <<>> /\ \A i \in DOMAIN p : p[i] \in Unicode
    BY PathsAreSequences
  <2>2. graph \in Seq(Plain[MaxLength]) /\ Represents(graph, rules)
    BY <1>1 DEF IInv, GraphInv
  <2> QED
    BY <2>1, <2>2, GetActionFinds
<1> QED
  BY <1>1, Inductive, PTL

\* DeletedPathsAreGone: a traversal that ran to its end has left nothing that the
\* rules delete, but for what holds a kept path, could not be removed or was not
\* listed.
THEOREM DeletedAreGone == ASSUME TrailingPatterns PROVE Spec => []DeletedPathsAreGone
<1>1. IInv => DeletedPathsAreGone
  BY DEF IInv, SettledInv, DeletedPathsAreGone, Settled
<1> QED
  BY <1>1, Inductive, PTL

\* KeptPathsSurvive: no step of the traversal deletes a path that the rules keep.
THEOREM KeptAreKept == ASSUME TrailingPatterns PROVE Spec => KeptPathsSurvive
<1>1. ASSUME IInv, [Next]_vars
      PROVE  [\A p \in tree \ tree' : Wanted(p) = "delete"]_vars
  <2> SUFFICES ASSUME NEW p \in tree \ tree'
               PROVE  Wanted(p) = "delete"
    OBVIOUS
  <2>1. Wanted(p) # "keep"
    BY <1>1, NextHolds DEF KeptSurvive
  <2>2. Wanted(p) \in {"keep", "delete"}
    BY <1>1, Decisions DEF IInv, ShapeInv, TreeInv, ClosedTree
  <2> QED
    BY <2>1, <2>2
<1> QED
  BY <1>1, Inductive, PTL DEF Spec, KeptPathsSurvive
=============================================================================
