------------------------ MODULE DecisionGraphProofs -------------------------
(***************************************************************************)
(* Proofs about DecisionGraph, for any segments, patterns and graphs: the  *)
(* functions are well defined, and what a search finds is what the last    *)
(* rule added says.                                                        *)
(***************************************************************************)
EXTENDS DecisionGraph, SequenceLemmas

-----------------------------------------------------------------------------
(* InTurn.                                                                 *)

\* The results along the way.
IsTrace(trace, steps, r) ==
    /\ trace[0] = r
    /\ \A k \in DOMAIN steps : trace[k] = steps[k][trace[k - 1]]

\* The definition of InTurn, by the fold over sets of indices that FoldLeft is.
LEMMA InTurnTrace ==
    ASSUME NEW n \in Nat, NEW steps, DOMAIN steps = 1 .. n, NEW r
    PROVE  \E trace : IsTrace(trace, steps, r) /\ InTurn(steps, r) = trace[n]
<1> DEFINE Iter(k, g) ==
              g = [s \in SUBSET (1 .. k) |-> IF s = {} THEN r ELSE steps[Max(s)][g[s \ {Max(s)}]]]
           Defined == {k \in Nat : \E g : Iter(k, g)}
<1>1. 0 \in Defined
  <2> DEFINE g == [s \in SUBSET (1 .. 0) |-> r]
  <2>1. \A s \in SUBSET (1 .. 0) : s = {}
    OBVIOUS
  <2>2. Iter(0, g)
    BY <2>1
  <2> QED
    BY <2>2
<1>2. ASSUME NEW k \in Nat, k \in Defined
      PROVE  k + 1 \in Defined
  <2>1. PICK g : Iter(k, g)
    BY <1>2
  <2>2. \A s \in SUBSET (1 .. k) : g[s] = IF s = {} THEN r ELSE steps[Max(s)][g[s \ {Max(s)}]]
    BY <2>1
  <2> DEFINE h == [s \in SUBSET (1 .. k + 1) |->
                     IF k + 1 \in s THEN steps[k + 1][g[s \ {k + 1}]] ELSE g[s]]
  <2>3. ASSUME NEW s \in SUBSET (1 .. k + 1)
        PROVE  h[s] = IF s = {} THEN r ELSE steps[Max(s)][h[s \ {Max(s)}]]
    <3>1. CASE k + 1 \in s
      <4>1. Max(s) = k + 1
        <5>1. s \subseteq 1 .. k + 1 /\ s # {} /\ k + 1 \in Nat
          BY <3>1
        <5>2. Max(s) \in s /\ \A i \in s : i <= Max(s)
          BY <5>1, MaxExists
        <5>3. Max(s) \in 1 .. k + 1 /\ k + 1 <= Max(s)
          BY <3>1, <5>1, <5>2
        <5> QED
          BY <5>3
      <4>2. s \ {k + 1} \in SUBSET (1 .. k + 1) /\ k + 1 \notin s \ {k + 1}
        OBVIOUS
      <4>3. h[s \ {k + 1}] = g[s \ {k + 1}]
        BY <4>2
      <4> QED
        BY <3>1, <4>1, <4>3
    <3>2. CASE k + 1 \notin s
      <4>1. s \in SUBSET (1 .. k) /\ h[s] = g[s]
        BY <3>2
      <4>2. s \ {Max(s)} \in SUBSET (1 .. k + 1) /\ k + 1 \notin s \ {Max(s)}
        BY <3>2
      <4>3. h[s \ {Max(s)}] = g[s \ {Max(s)}]
        BY <4>2
      <4> QED
        BY <2>2, <4>1, <4>3
    <3> QED
      BY <3>1, <3>2
  <2>4. Iter(k + 1, h)
    <3>1. h = [s \in SUBSET (1 .. k + 1) |-> h[s]]
      OBVIOUS
    <3> HIDE DEF h
    <3> QED
      BY <2>3, <3>1
  <2>5. k + 1 \in Nat /\ \E f : Iter(k + 1, f)
    <3> HIDE DEF h, Iter
    <3> QED
      BY <2>4
  <2> QED
    BY <2>5
<1>3. Nat \subseteq Defined
  <2> HIDE DEF Defined
  <2> QED
    BY <1>1, <1>2, Induction
<1> DEFINE g == CHOOSE f : Iter(n, f)
<1>4. Iter(n, g)
  BY <1>3
<1>5. InTurn(steps, r) = g[1 .. n]
  BY Zenon DEF InTurn, FoldLeft, MapThenFoldSet
<1> DEFINE trace == [k \in 0 .. n |-> g[1 .. k]]
<1>6. trace[0] = r
  <2>1. 1 .. 0 = {}
    OBVIOUS
  <2> HIDE DEF g
  <2> QED
    BY <1>4, <2>1
<1>7. ASSUME NEW k \in 1 .. n
      PROVE  trace[k] = steps[k][trace[k - 1]]
  <2> HIDE DEF g
  <2>1. Max(1 .. k) = k
    <3>1. 1 .. k # {} /\ k \in Nat
      OBVIOUS
    <3>2. Max(1 .. k) \in 1 .. k /\ \A i \in 1 .. k : i <= Max(1 .. k)
      BY <3>1, MaxExists
    <3> QED
      BY <3>2
  <2>2. (1 .. k) \ {k} = 1 .. k - 1 /\ 1 .. k # {} /\ 1 .. k \in SUBSET (1 .. n)
    OBVIOUS
  <2>3. g[1 .. k] = steps[k][g[1 .. k - 1]]
    BY <1>4, <2>1, <2>2
  <2> QED
    BY <2>3
<1> HIDE DEF trace
<1>8. trace[n] = g[1 .. n]
  BY DEF trace
<1> HIDE DEF g
<1> QED
  BY <1>5, <1>6, <1>7, <1>8 DEF IsTrace

\* No other trace ends elsewhere.
LEMMA TraceUnique ==
    ASSUME NEW n \in Nat, NEW steps, DOMAIN steps = 1 .. n, NEW r, NEW trace,
           IsTrace(trace, steps, r)
    PROVE  InTurn(steps, r) = trace[n]
<1>1. PICK other : IsTrace(other, steps, r) /\ InTurn(steps, r) = other[n]
  BY InTurnTrace
<1> DEFINE Same == {k \in 0 .. n : trace[k] = other[k]}
<1>2. 0 \in Same
  BY <1>1 DEF IsTrace
<1>3. ASSUME NEW k \in 0 .. n - 1, k \in Same
      PROVE  k + 1 \in Same
  <2>1. k + 1 \in 1 .. n /\ k + 1 \in 0 .. n /\ (k + 1) - 1 = k
    OBVIOUS
  <2> QED
    BY <1>1, <1>3, <2>1 DEF IsTrace
<1>4. 0 .. n \subseteq Same
  <2> HIDE DEF Same
  <2> QED
    BY <1>2, <1>3, InductionUpTo
<1> QED
  BY <1>1, <1>4

\* The last of the steps is taken last.
LEMMA InTurnAppend ==
    ASSUME NEW S, NEW steps \in Seq(S), NEW step \in S, NEW r
    PROVE  InTurn(Append(steps, step), r) = step[InTurn(steps, r)]
<1> DEFINE n == Len(steps)
           more == Append(steps, step)
<1>1. /\ n \in Nat /\ n + 1 \in Nat /\ DOMAIN steps = 1 .. n /\ DOMAIN more = 1 .. n + 1
      /\ more[n + 1] = step /\ \A k \in 1 .. n : more[k] = steps[k]
  OBVIOUS
<1> HIDE DEF n, more
<1>2. PICK trace : IsTrace(trace, more, r) /\ InTurn(more, r) = trace[n + 1]
  BY <1>1, InTurnTrace
<1>3. IsTrace(trace, steps, r)
  BY <1>1, <1>2 DEF IsTrace
<1>4. InTurn(steps, r) = trace[n]
  BY <1>1, <1>3, TraceUnique
<1>5. trace[n + 1] = step[trace[n]]
  BY <1>1, <1>2 DEF IsTrace
<1> QED
  BY <1>2, <1>4, <1>5 DEF more

\* No step, no change.
LEMMA InTurnEmpty ==
    ASSUME NEW steps, DOMAIN steps = {}, NEW r
    PROVE  InTurn(steps, r) = r
<1>1. 0 \in Nat /\ DOMAIN steps = 1 .. 0
  OBVIOUS
<1> QED
  BY <1>1, InTurnTrace DEF IsTrace

\* Two runs of as many steps, related step by step, are related at their ends.
LEMMA InTurnRelated ==
    ASSUME NEW n \in Nat,
           NEW steps, DOMAIN steps = 1 .. n, NEW others, DOMAIN others = 1 .. n,
           NEW Rel, NEW r, NEW o, <<r, o>> \in Rel,
           \A k \in 1 .. n : \A x, y : <<x, y>> \in Rel => <<steps[k][x], others[k][y]>> \in Rel
    PROVE  <<InTurn(steps, r), InTurn(others, o)>> \in Rel
<1>1. PICK s : IsTrace(s, steps, r) /\ InTurn(steps, r) = s[n]
  BY InTurnTrace
<1>2. PICK t : IsTrace(t, others, o) /\ InTurn(others, o) = t[n]
  BY InTurnTrace
<1> DEFINE Related == {k \in 0 .. n : <<s[k], t[k]>> \in Rel}
<1>3. 0 \in Related
  BY <1>1, <1>2 DEF IsTrace
<1>4. ASSUME NEW k \in 0 .. n - 1, k \in Related
      PROVE  k + 1 \in Related
  <2>1. k + 1 \in 1 .. n /\ k + 1 \in 0 .. n /\ (k + 1) - 1 = k
    OBVIOUS
  <2> QED
    BY <1>1, <1>2, <1>4, <2>1 DEF IsTrace
<1>5. 0 .. n \subseteq Related
  <2> HIDE DEF Related
  <2> QED
    BY <1>3, <1>4, InductionUpTo
<1> QED
  BY <1>1, <1>2, <1>5

\* What every step preserves, all of them do.
LEMMA InTurnPreserves ==
    ASSUME NEW n \in Nat, NEW steps, DOMAIN steps = 1 .. n, NEW Inv, NEW r \in Inv,
           \A k \in 1 .. n : \A x \in Inv : steps[k][x] \in Inv
    PROVE  InTurn(steps, r) \in Inv
<1> DEFINE Rel == Inv \X Inv
<1>1. <<InTurn(steps, r), InTurn(steps, r)>> \in Rel
  <2>1. /\ <<r, r>> \in Rel
        /\ \A k \in 1 .. n : \A x, y : <<x, y>> \in Rel => <<steps[k][x], steps[k][y]>> \in Rel
    OBVIOUS
  <2> HIDE DEF Rel
  <2> QED
    BY <2>1, InTurnRelated
<1> QED
  BY <1>1

-----------------------------------------------------------------------------
(* The recursive functions are what their definitions say.                 *)

\* Node satisfies its own definition: the nodes of a height are built from those one
\* less high.
LEMMA NodeDef ==
    \A h \in Nat : Node[h] = IF h = 0 THEN {}
                            ELSE [multi : BOOLEAN, pattern : DOMAIN Glob, actions : SUBSET Decision,
                                  children : Seq(Node[h - 1])]
<1> DEFINE Over(nodes) == [multi : BOOLEAN, pattern : DOMAIN Glob, actions : SUBSET Decision,
                           children : Seq(nodes)]
           Upto(n, g) == g[0] = {} /\ \A i \in 1 .. n : g[i] = Over(g[i - 1])
           Defined == {n \in Nat : \E g : Upto(n, g)}
<1> HIDE DEF Over
<1>1. 0 \in Defined
  <2>1. Upto(0, [i \in {0} |-> {}])
    OBVIOUS
  <2> QED
    BY <2>1
<1>2. ASSUME NEW n \in Nat, n \in Defined
      PROVE  n + 1 \in Defined
  <2>1. PICK g : Upto(n, g)
    BY <1>2
  <2> DEFINE k == [i \in 0 .. n + 1 |-> IF i = n + 1 THEN Over(g[n]) ELSE g[i]]
  <2>2. Upto(n + 1, k)
    BY <2>1
  <2>3. n + 1 \in Nat /\ \E f : Upto(n + 1, f)
    <3> HIDE DEF k, Upto
    <3> QED
      BY <2>2
  <2> QED
    BY <2>3
<1>3. Nat \subseteq Defined
  <2> HIDE DEF Defined
  <2> QED
    BY <1>1, <1>2, Induction
<1>4. ASSUME NEW n \in Nat, NEW m \in Nat, n <= m, NEW g, NEW k, Upto(n, g), Upto(m, k)
      PROVE  g[n] = k[n]
  <2> DEFINE Same == {i \in 0 .. n : g[i] = k[i]}
  <2>1. 0 \in Same
    BY <1>4
  <2>2. ASSUME NEW i \in 0 .. n - 1, i \in Same
        PROVE  i + 1 \in Same
    <3>1. i + 1 \in 1 .. n /\ i + 1 \in 1 .. m /\ i + 1 \in 0 .. n /\ (i + 1) - 1 = i
      BY <1>4
    <3> QED
      BY <1>4, <2>2, <3>1
  <2>3. 0 .. n \subseteq Same
    <3> HIDE DEF Same
    <3> QED
      BY <2>1, <2>2, InductionUpTo
  <2> QED
    BY <2>3
<1> DEFINE G(n) == CHOOSE g : Upto(n, g)
           nodes == [n \in Nat |-> G(n)[n]]
           Eq(f) == f = [n \in Nat |-> IF n = 0 THEN {} ELSE Over(f[n - 1])]
<1>5. \A n \in Nat : Upto(n, G(n))
  BY <1>3
<1>6. ASSUME NEW n \in Nat
      PROVE  nodes[n] = IF n = 0 THEN {} ELSE Over(nodes[n - 1])
  <2>1. CASE n = 0
    BY <1>5, <2>1
  <2>2. CASE n # 0
    <3>1. n - 1 \in Nat /\ n \in 1 .. n /\ n - 1 <= n
      BY <2>2
    <3>2. G(n)[n] = Over(G(n)[n - 1])
      BY <1>5, <3>1
    <3>3. G(n - 1)[n - 1] = G(n)[n - 1]
      <4> HIDE DEF G, Upto
      <4> QED
        BY <1>4, <1>5, <3>1
    <3> QED
      BY <2>2, <3>1, <3>2, <3>3
  <2> QED
    BY <2>1, <2>2
<1>7. Eq(nodes)
  <2>1. nodes = [n \in Nat |-> nodes[n]]
    OBVIOUS
  <2> HIDE DEF nodes
  <2> QED
    BY <1>6, <2>1
<1>8. Node = CHOOSE f : Eq(f)
  BY Zenon DEF Node, Over
<1>9. Eq(Node)
  <2> HIDE DEF Eq, nodes
  <2> QED
    BY <1>7, <1>8
<1>10. \A h \in Nat : Node[h] = IF h = 0 THEN {} ELSE Over(Node[h - 1])
  BY <1>9
<1> QED
  BY <1>10 DEF Over

\* Plain nodes: a "**" is the last segment of its pattern.
Plain[height \in Nat] ==
    IF height = 0 THEN {}
    ELSE {node \in Node[height] :
            /\ node.children \in Seq(Plain[height - 1])
            /\ node.multi => node.pattern = "**" /\ node.children = <<>>}

\* So does Plain, and its nodes are nodes.
LEMMA PlainDef ==
    \A h \in Nat : /\ Plain[h] \subseteq Node[h]
                   /\ Plain[h] = IF h = 0 THEN {}
                                 ELSE {node \in Node[h] :
                                         /\ node.children \in Seq(Plain[h - 1])
                                         /\ node.multi => node.pattern = "**" /\ node.children = <<>>}
<1> DEFINE Over(n, nodes) == {node \in Node[n] :
                                /\ node.children \in Seq(nodes)
                                /\ node.multi => node.pattern = "**" /\ node.children = <<>>}
           T == [n \in Nat |-> SUBSET Node[n]]
           step == [n \in Nat |-> [nodes \in SUBSET Node[n - 1] |-> Over(n, nodes)]]
           Eq(f) == f = [n \in Nat |-> IF n = 0 THEN {} ELSE Over(n, f[n - 1])]
<1>1. \A n \in Nat : \A v \in T[n] : step[n + 1][v] = Over(n + 1, v) /\ step[n + 1][v] \in T[n + 1]
  <2> SUFFICES ASSUME NEW n \in Nat, NEW v \in T[n]
               PROVE  step[n + 1][v] = Over(n + 1, v) /\ step[n + 1][v] \in T[n + 1]
    OBVIOUS
  <2>1. n + 1 \in Nat /\ (n + 1) - 1 = n /\ v \in SUBSET Node[n]
    OBVIOUS
  <2>2. step[n + 1][v] = Over(n + 1, v)
    BY <2>1
  <2> QED
    BY <2>1, <2>2
<1>2. PICK g : /\ g = [n \in Nat |-> IF n = 0 THEN {} ELSE step[n][g[n - 1]]]
               /\ \A n \in Nat : g[n] \in T[n]
  <2>1. {} \in T[0] /\ \A n \in Nat : \A v \in T[n] : step[n + 1][v] \in T[n + 1]
    BY <1>1
  <2> HIDE DEF T, step
  <2> QED
    BY <2>1, PrimitiveRecursion
<1>3. Eq(g)
  <2>1. ASSUME NEW n \in Nat, n # 0
        PROVE  step[n][g[n - 1]] = Over(n, g[n - 1])
    <3>1. n - 1 \in Nat /\ (n - 1) + 1 = n
      BY <2>1
    <3> HIDE DEF T, step, Over
    <3> QED
      BY <1>1, <1>2, <3>1
  <2> HIDE DEF T, step, Over
  <2> QED
    BY <1>2, <2>1
<1>4. Plain = CHOOSE f : Eq(f)
  BY Zenon DEF Plain
<1>5. Eq(Plain)
  <2> HIDE DEF Eq
  <2> QED
    BY <1>3, <1>4
<1>6. \A h \in Nat : Plain[h] = IF h = 0 THEN {} ELSE Over(h, Plain[h - 1])
  <2> HIDE DEF Over
  <2> QED
    BY <1>5
<1> QED
  BY <1>6

-----------------------------------------------------------------------------
(* Replaced.                                                               *)

\* The sequences Replaced builds on its way.
IsFiltered(others, s, g) ==
    /\ others[0] = <<>>
    /\ \A k \in 1 .. Len(s) : others[k] = IF s[k].pattern = g THEN others[k - 1]
                                          ELSE Append(others[k - 1], s[k])

\* The recursive function in Replaced is what its definition says.
LEMMA ReplacedFiltered ==
    ASSUME NEW S, NEW s \in Seq(S), NEW g
    PROVE  \E others : /\ IsFiltered(others, s, g) /\ Replaced(s, g) = others[Len(s)]
                       /\ \A k \in 0 .. Len(s) : others[k] \in Seq(S)
<1> DEFINE n == Len(s)
           Eq(f) == f = [k \in 0 .. n |-> IF k = 0 THEN <<>>
                                          ELSE IF s[k].pattern = g THEN f[k - 1]
                                          ELSE Append(f[k - 1], s[k])]
           T == [k \in Nat |-> Seq(S)]
           step == [k \in Nat |-> [v \in Seq(S) |->
                      IF k \notin 1 .. n \/ s[k].pattern = g THEN v ELSE Append(v, s[k])]]
<1>1. PICK h : /\ h = [k \in Nat |-> IF k = 0 THEN <<>> ELSE step[k][h[k - 1]]]
               /\ \A k \in Nat : h[k] \in T[k]
  <2>1. <<>> \in T[0] /\ \A k \in Nat : \A v \in T[k] : step[k + 1][v] \in T[k + 1]
    <3>1. ASSUME NEW k \in Nat, NEW v \in Seq(S)
          PROVE  step[k + 1][v] \in Seq(S)
      <4>1. k + 1 \in Nat
        OBVIOUS
      <4>2. k + 1 \in 1 .. n => s[k + 1] \in S
        OBVIOUS
      <4>3. step[k + 1][v] = IF k + 1 \notin 1 .. n \/ s[k + 1].pattern = g THEN v ELSE Append(v, s[k + 1])
        BY <4>1
      <4> HIDE DEF step
      <4> QED
        BY <4>2, <4>3
    <3>2. <<>> \in Seq(S) /\ T[0] = Seq(S) /\ \A k \in Nat : T[k] = Seq(S) /\ T[k + 1] = Seq(S)
      OBVIOUS
    <3> HIDE DEF T, step
    <3> QED
      BY <3>1, <3>2
  <2> HIDE DEF T, step
  <2> QED
    BY <2>1, PrimitiveRecursion
<1>2. \A k \in Nat : h[k] \in Seq(S)
  BY <1>1
<1>3. h[0] = <<>>
  BY <1>1
<1>4. ASSUME NEW k \in 1 .. n
      PROVE  h[k] = IF s[k].pattern = g THEN h[k - 1] ELSE Append(h[k - 1], s[k])
  <2>1. k \in Nat /\ k # 0 /\ k - 1 \in Nat
    OBVIOUS
  <2>2. h[k] = step[k][h[k - 1]]
    <3> HIDE DEF step
    <3> QED
      BY <1>1, <2>1
  <2> QED
    BY <1>2, <2>1, <2>2
<1> DEFINE f == [k \in 0 .. n |-> h[k]]
<1>5. Eq(f)
  <2>1. ASSUME NEW k \in 0 .. n
        PROVE  f[k] = IF k = 0 THEN <<>> ELSE IF s[k].pattern = g THEN f[k - 1] ELSE Append(f[k - 1], s[k])
    <3>1. CASE k = 0
      BY <1>3, <3>1
    <3>2. CASE k # 0
      <4>1. k \in 1 .. n /\ k - 1 \in 0 .. n
        BY <3>2
      <4> QED
        BY <1>4, <3>2, <4>1
    <3> QED
      BY <3>1, <3>2
  <2>2. f = [k \in 0 .. n |-> f[k]]
    OBVIOUS
  <2> HIDE DEF f
  <2> QED
    BY <2>1, <2>2
<1> DEFINE others == CHOOSE e : Eq(e)
<1>6. Eq(others)
  <2> HIDE DEF Eq, f
  <2> QED
    BY <1>5
<1>7. Replaced(s, g) = others[Len(s)]
  BY Zenon DEF Replaced
<1> HIDE DEF others
<1>8. IsFiltered(others, s, g)
  <2>1. ASSUME NEW k \in 0 .. n
        PROVE  others[k] = IF k = 0 THEN <<>> ELSE IF s[k].pattern = g THEN others[k - 1]
                           ELSE Append(others[k - 1], s[k])
    BY <1>6
  <2>2. n = Len(s) /\ 0 \in 0 .. n /\ \A k \in 1 .. n : k \in 0 .. n /\ k # 0
    OBVIOUS
  <2> QED
    BY <2>1, <2>2 DEF IsFiltered
<1> DEFINE Typed == {k \in 0 .. n : others[k] \in Seq(S)}
<1>9. 0 \in Typed
  <2>1. 0 \in 0 .. n /\ <<>> \in Seq(S)
    OBVIOUS
  <2> QED
    BY <1>8, <2>1 DEF IsFiltered
<1>10. ASSUME NEW k \in 0 .. n - 1, k \in Typed
       PROVE  k + 1 \in Typed
  <2>1. k + 1 \in 1 .. Len(s) /\ k + 1 \in 0 .. n /\ (k + 1) - 1 = k /\ s[k + 1] \in S
    OBVIOUS
  <2>2. others[k + 1] = IF s[k + 1].pattern = g THEN others[k] ELSE Append(others[k], s[k + 1])
    BY <1>8, <2>1 DEF IsFiltered
  <2>3. others[k] \in Seq(S)
    BY <1>10
  <2>4. others[k + 1] \in Seq(S)
    BY <2>1, <2>2, <2>3
  <2> QED
    BY <2>1, <2>4
<1>11. 0 .. n \subseteq Typed
  <2> HIDE DEF Typed
  <2> QED
    BY <1>9, <1>10, InductionUpTo
<1> QED
  BY <1>7, <1>8, <1>11

\* Replaced by the last node of a sequence.
LEMMA ReplacedAppend ==
    ASSUME NEW S, NEW s \in Seq(S), NEW e \in S, NEW g
    PROVE  Replaced(Append(s, e), g) =
             IF e.pattern = g THEN Replaced(s, g) ELSE Append(Replaced(s, g), e)
<1> DEFINE n == Len(s)
           t == Append(s, e)
<1>1. t \in Seq(S) /\ Len(t) = n + 1 /\ t[n + 1] = e /\ n \in Nat /\ \A k \in 1 .. n : t[k] = s[k]
  OBVIOUS
<1> HIDE DEF t
<1>2. PICK f : IsFiltered(f, s, g) /\ Replaced(s, g) = f[n]
  BY ReplacedFiltered
<1>3. PICK h : IsFiltered(h, t, g) /\ Replaced(t, g) = h[n + 1]
  BY <1>1, ReplacedFiltered
<1> DEFINE Same == {k \in 0 .. n : f[k] = h[k]}
<1>4. 0 \in Same
  BY <1>1, <1>2, <1>3 DEF IsFiltered
<1>5. ASSUME NEW k \in 0 .. n - 1, k \in Same
      PROVE  k + 1 \in Same
  <2>1. /\ k + 1 \in 1 .. Len(s) /\ k + 1 \in 1 .. Len(t) /\ k + 1 \in 0 .. n /\ (k + 1) - 1 = k
        /\ t[k + 1] = s[k + 1] /\ f[k] = h[k]
    BY <1>1, <1>5
  <2>2. f[k + 1] = IF s[k + 1].pattern = g THEN f[k] ELSE Append(f[k], s[k + 1])
    BY <1>2, <2>1 DEF IsFiltered
  <2>3. h[k + 1] = IF t[k + 1].pattern = g THEN h[k] ELSE Append(h[k], t[k + 1])
    BY <1>3, <2>1 DEF IsFiltered
  <2> QED
    BY <2>1, <2>2, <2>3
<1>6. f[n] = h[n]
  <2>1. n \in 0 .. n
    OBVIOUS
  <2>2. 0 .. n \subseteq Same
    <3> HIDE DEF Same, n
    <3> QED
      BY <1>1, <1>4, <1>5, InductionUpTo
  <2> QED
    BY <2>1, <2>2
<1>7. h[n + 1] = IF e.pattern = g THEN h[n] ELSE Append(h[n], e)
  <2>1. n + 1 \in 1 .. Len(t) /\ (n + 1) - 1 = n
    BY <1>1
  <2> QED
    BY <1>1, <1>3, <2>1 DEF IsFiltered
<1> QED
  BY <1>2, <1>3, <1>6, <1>7 DEF t

\* Nothing to replace in an empty sequence, and nothing but its own nodes in any.
LEMMA ReplacedBasics ==
    ASSUME NEW S, NEW g
    PROVE  /\ Replaced(<<>>, g) = <<>>
           /\ \A s \in Seq(S) : Replaced(s, g) \in Seq(S)
<1>1. Replaced(<<>>, g) = <<>>
  <2>1. <<>> \in Seq(S) /\ Len(<<>>) = 0
    OBVIOUS
  <2>2. PICK others : IsFiltered(others, <<>>, g) /\ Replaced(<<>>, g) = others[Len(<<>>)]
    BY <2>1, ReplacedFiltered
  <2> QED
    BY <2>1, <2>2 DEF IsFiltered
<1>2. ASSUME NEW s \in Seq(S)
      PROVE  Replaced(s, g) \in Seq(S)
  <2>1. Len(s) \in 0 .. Len(s)
    OBVIOUS
  <2> QED
    BY <2>1, ReplacedFiltered
<1> QED
  BY <1>1, <1>2

-----------------------------------------------------------------------------
(* Adding a rule: add_rule, traverse_add.                                  *)

\* A node made for a pattern, and one with no child below it.
LEMMA NewNode ==
    ASSUME NEW h \in Nat \ {0}, NEW g \in DOMAIN Glob, NEW actions \in SUBSET Decision
    PROVE  /\ NodeFromSegmentPattern(g, actions) \in Plain[h]
           /\ NodeFromSegmentPattern(g, actions).pattern = g
           /\ NodeFromSegmentPattern(g, actions).actions = actions
           /\ NodeFromSegmentPattern(g, actions).children = <<>>
           /\ NodeFromSegmentPattern(g, actions).multi => g = "**"
<1> DEFINE node == NodeFromSegmentPattern(g, actions)
<1>1. /\ node = [multi |-> g = "**", pattern |-> g, actions |-> actions, children |-> <<>>]
  BY DEF NodeFromSegmentPattern, MultiSegmentNode, SingleSegmentNode
<1>2. h - 1 \in Nat /\ h \in Nat /\ h # 0 /\ <<>> \in Seq(Node[h - 1]) /\ <<>> \in Seq(Plain[h - 1])
  OBVIOUS
<1>3. node \in Node[h]
  <2>1. Node[h] = [multi : BOOLEAN, pattern : DOMAIN Glob, actions : SUBSET Decision,
                   children : Seq(Node[h - 1])]
    BY <1>2, NodeDef
  <2> HIDE DEF node
  <2> QED
    BY <1>1, <1>2, <2>1
<1>4. Plain[h] = {n \in Node[h] : /\ n.children \in Seq(Plain[h - 1])
                                  /\ n.multi => n.pattern = "**" /\ n.children = <<>>}
  BY <1>2, PlainDef
<1> HIDE DEF node
<1>5. node \in Plain[h]
  BY <1>1, <1>2, <1>3, <1>4
<1>6. node.pattern = g /\ node.actions = actions /\ node.children = <<>> /\ (node.multi => g = "**")
  BY <1>1
<1> QED
  BY <1>5, <1>6 DEF node

\* What add_rule does with a rule below the nodes it is given.
IsAdd(below, h) ==
    below \in [Seq(Node[h]) -> [Patterns(h) -> [Decision -> Seq(Node[h])]]]

\* A rule added to nodes gives nodes of the same height.
LEMMA AddedToType ==
    ASSUME NEW h \in Nat, NEW below, IsAdd(below, h),
           NEW children \in Seq(Node[h + 1]), NEW pattern \in Patterns(h + 1), NEW actions \in Decision
    PROVE  AddedTo(children, pattern, actions, below) \in Seq(Node[h + 1])
<1> DEFINE S == Node[h + 1]
           first == Head(pattern)
           new(a) == NodeFromSegmentPattern(first, a)
           grown == IF EndsWith(children, first) THEN children ELSE Append(children, new({}))
           deeper(n) == [n EXCEPT !.children = below[@][Tail(pattern)][actions]]
<1>1. pattern \in Seq(DOMAIN Glob) /\ Len(pattern) \in 1 .. h + 1 /\ first \in DOMAIN Glob
  BY DEF Patterns
<1>2. \A a \in SUBSET Decision : new(a) \in S
  <2>1. h + 1 \in Nat \ {0}
    OBVIOUS
  <2> QED
    BY <1>1, <2>1, NewNode, PlainDef
<1>3. Append(Replaced(children, first), new({actions})) \in Seq(S)
  <2>1. Replaced(children, first) \in Seq(S) /\ new({actions}) \in S
    BY <1>2, ReplacedBasics
  <2> HIDE DEF S, new, first
  <2> QED
    BY <2>1
<1>4. grown \in Seq(S)
  <2>1. new({}) \in S /\ children \in Seq(S)
    BY <1>2
  <2> HIDE DEF S, new, first
  <2> QED
    BY <2>1
<1>5. ASSUME Len(pattern) # 1, NEW n \in S
      PROVE  deeper(n) \in S
  <2>1. Tail(pattern) \in Patterns(h)
    <3>1. Tail(pattern) \in Seq(DOMAIN Glob) /\ Len(Tail(pattern)) = Len(pattern) - 1
      BY <1>1
    <3>2. Len(pattern) - 1 \in 1 .. h
      BY <1>1, <1>5
    <3> QED
      BY <3>1, <3>2 DEF Patterns
  <2>2. S = [multi : BOOLEAN, pattern : DOMAIN Glob, actions : SUBSET Decision, children : Seq(Node[h])]
    <3>1. h + 1 \in Nat /\ h + 1 # 0 /\ (h + 1) - 1 = h
      OBVIOUS
    <3> QED
      BY <3>1, NodeDef
  <2>3. below[n.children][Tail(pattern)][actions] \in Seq(Node[h])
    BY <2>1, <2>2, <1>5 DEF IsAdd
  <2> HIDE DEF S
  <2> QED
    BY <1>5, <2>2, <2>3
<1>6. ASSUME Len(pattern) # 1
      PROVE  [i \in DOMAIN grown |-> IF grown[i].pattern = first THEN deeper(grown[i]) ELSE grown[i]] \in Seq(S)
  <2> HIDE DEF grown, S, deeper, first
  <2>1. DOMAIN grown = 1 .. Len(grown) /\ Len(grown) \in Nat /\ \A i \in DOMAIN grown : grown[i] \in S
    BY <1>4
  <2>2. \A i \in DOMAIN grown : deeper(grown[i]) \in S
    BY <1>5, <1>6, <2>1
  <2> QED
    BY <2>1, <2>2
<1> QED
  BY <1>3, <1>6 DEF AddedTo

\* The recursive function TraverseAdd is what its definition says.
LEMMA TraverseAddDef ==
    \A h \in Nat :
        /\ IsAdd(TraverseAdd[h], h)
        /\ \A children \in Seq(Node[h]), pattern \in Patterns(h), actions \in Decision :
             TraverseAdd[h][children][pattern][actions] =
               AddedTo(children, pattern, actions, TraverseAdd[h - 1])
<1> DEFINE Body(h, below) ==
              [children \in Seq(Node[h]) |-> [pattern \in Patterns(h) |-> [actions \in Decision |->
                  AddedTo(children, pattern, actions, below)]]]
           T == [h \in Nat |-> [Seq(Node[h]) -> [Patterns(h) -> [Decision -> Seq(Node[h])]]]]
           step == [h \in Nat |-> [below \in T[h - 1] |-> Body(h, below)]]
           Eq(f) == f = [h \in Nat |-> Body(h, f[h - 1])]
<1>1. ASSUME NEW below
      PROVE  Body(0, below) = Body(0, <<>>) /\ Body(0, below) \in T[0]
  <2>1. Patterns(0) = {}
    BY DEF Patterns
  <2>2. Body(0, below) = [children \in Seq(Node[0]) |-> [pattern \in {} |-> <<>>]]
    BY <2>1
  <2>3. Body(0, <<>>) = [children \in Seq(Node[0]) |-> [pattern \in {} |-> <<>>]]
    BY <2>1
  <2>4. T[0] = [Seq(Node[0]) -> [{} -> [Decision -> Seq(Node[0])]]]
    BY <2>1
  <2> HIDE DEF Body, T
  <2> QED
    BY <2>2, <2>3, <2>4
<1>2. ASSUME NEW h \in Nat, NEW below \in T[h]
      PROVE  step[h + 1][below] = Body(h + 1, below) /\ Body(h + 1, below) \in T[h + 1]
  <2>1. h + 1 \in Nat /\ (h + 1) - 1 = h
    OBVIOUS
  <2>2. step[h + 1][below] = Body(h + 1, below)
    <3> HIDE DEF Body, T
    <3> QED
      BY <2>1
  <2>3. IsAdd(below, h)
    BY DEF IsAdd
  <2>4. \A children \in Seq(Node[h + 1]), pattern \in Patterns(h + 1), actions \in Decision :
          AddedTo(children, pattern, actions, below) \in Seq(Node[h + 1])
    BY <2>3, AddedToType
  <2>5. Body(h + 1, below) \in T[h + 1]
    BY <2>1, <2>4
  <2> QED
    BY <2>2, <2>5
<1>3. PICK g : /\ g = [n \in Nat |-> IF n = 0 THEN Body(0, <<>>) ELSE step[n][g[n - 1]]]
               /\ \A n \in Nat : g[n] \in T[n]
  <2>1. Body(0, <<>>) \in T[0]
    BY <1>1
  <2>2. \A n \in Nat : \A v \in T[n] : step[n + 1][v] \in T[n + 1]
    <3> HIDE DEF T, step, Body
    <3> QED
      BY <1>2
  <2> HIDE DEF T, step, Body
  <2> QED
    BY <2>1, <2>2, PrimitiveRecursion
<1>4. Eq(g)
  <2>1. ASSUME NEW n \in Nat
        PROVE  g[n] = Body(n, g[n - 1])
    <3>1. CASE n = 0
      <4> HIDE DEF T, step, Body
      <4> QED
        BY <1>1, <1>3, <3>1
    <3>2. CASE n # 0
      <4>1. n - 1 \in Nat /\ (n - 1) + 1 = n
        BY <3>2
      <4> HIDE DEF T, step, Body
      <4> QED
        BY <1>2, <1>3, <3>2, <4>1
    <3> QED
      BY <3>1, <3>2
  <2>2. g = [n \in Nat |-> g[n]]
    <3> HIDE DEF T, step, Body
    <3> QED
      BY <1>3
  <2> HIDE DEF T, step, Body
  <2> QED
    BY <2>1, <2>2
<1>5. TraverseAdd = CHOOSE f : Eq(f)
  BY Zenon DEF TraverseAdd
<1>6. Eq(TraverseAdd)
  <2> HIDE DEF Eq
  <2> QED
    BY <1>4, <1>5
<1>7. \A h \in Nat : TraverseAdd[h] = Body(h, TraverseAdd[h - 1])
  <2> HIDE DEF Body
  <2> QED
    BY <1>6
<1> DEFINE Typed == {h \in Nat : TraverseAdd[h] \in T[h]}
<1>8. 0 \in Typed
  <2> HIDE DEF Body, T
  <2> QED
    BY <1>1, <1>7
<1>9. ASSUME NEW h \in Nat, h \in Typed
      PROVE  h + 1 \in Typed
  <2>1. h + 1 \in Nat /\ (h + 1) - 1 = h
    OBVIOUS
  <2> HIDE DEF Body, T
  <2> QED
    BY <1>2, <1>7, <1>9, <2>1
<1>10. \A h \in Nat : TraverseAdd[h] \in T[h]
  <2> HIDE DEF Typed
  <2>1. Nat \subseteq Typed
    BY <1>8, <1>9, Induction
  <2> QED
    BY <2>1 DEF Typed
<1> SUFFICES ASSUME NEW h \in Nat
             PROVE  /\ IsAdd(TraverseAdd[h], h)
                    /\ \A children \in Seq(Node[h]), pattern \in Patterns(h), actions \in Decision :
                         TraverseAdd[h][children][pattern][actions] =
                           AddedTo(children, pattern, actions, TraverseAdd[h - 1])
  OBVIOUS
<1>11. IsAdd(TraverseAdd[h], h)
  BY <1>10 DEF IsAdd
<1>12. TraverseAdd[h] = Body(h, TraverseAdd[h - 1])
  BY <1>7
<1> QED
  BY <1>11, <1>12

-----------------------------------------------------------------------------
(* Searching: get_action.                                                  *)

\* A node of the height below has children of that height.
LEMMA NodeFields ==
    ASSUME NEW h \in Nat, NEW node \in Node[h + 1]
    PROVE  /\ node.multi \in BOOLEAN /\ node.pattern \in DOMAIN Glob /\ node.actions \in SUBSET Decision
           /\ node.children \in Seq(Node[h]) /\ DOMAIN node.children = 1 .. Len(node.children)
           /\ Len(node.children) \in Nat /\ \A i \in DOMAIN node.children : node.children[i] \in Node[h]
<1>1. h + 1 \in Nat /\ h + 1 # 0 /\ (h + 1) - 1 = h
  OBVIOUS
<1>2. Node[h + 1] = [multi : BOOLEAN, pattern : DOMAIN Glob, actions : SUBSET Decision, children : Seq(Node[h])]
  BY <1>1, NodeDef
<1>3. /\ node.multi \in BOOLEAN /\ node.pattern \in DOMAIN Glob /\ node.actions \in SUBSET Decision
      /\ node.children \in Seq(Node[h])
  BY <1>2
<1> QED
  BY <1>3

\* What a node makes of a result before its children are asked.
LEMMA OverwrittenType ==
    ASSUME NEW h \in Nat, NEW node \in Node[h + 1], NEW r \in Result
    PROVE  /\ Overwritten(r, node) \in Result
           /\ Overwritten(r, node).descend = r.descend
           /\ Overwritten(r, node).panic = r.panic
           /\ Overwritten(r, node).actions = IF node.actions = {} THEN r.actions
                                             ELSE CHOOSE a \in node.actions : TRUE
<1>1. node.actions # {} => (CHOOSE a \in node.actions : TRUE) \in Decision
  BY NodeFields
<1> DEFINE a == CHOOSE d \in node.actions : TRUE
<1> HIDE DEF a
<1>2. CASE node.actions = {}
  BY <1>2 DEF Overwritten
<1>3. CASE node.actions # {}
  <2>1. Overwritten(r, node) = [r EXCEPT !.actions = a]
    BY Zenon, <1>3 DEF Overwritten, a
  <2>2. a \in Decision
    BY <1>1, <1>3 DEF a
  <2>3. Overwritten(r, node).actions = CHOOSE d \in node.actions : TRUE
    BY <2>1 DEF Result, a
  <2> QED
    BY <1>3, <2>1, <2>2, <2>3 DEF Result
<1> QED
  BY <1>2, <1>3

\* What get_action does with the children of a node.
IsSearch(below, h) ==
    below \in [Node[h] -> [Seq(Segment) -> [Result -> Result]]]

\* A visit to a node makes a result of a result.
LEMMA VisitedType ==
    ASSUME NEW h \in Nat, NEW below, IsSearch(below, h),
           NEW node \in Node[h + 1], NEW segments \in Seq(Segment), NEW r \in Result
    PROVE  Visited(node, segments, r, below) \in Result
<1> DEFINE own == Overwritten(r, node)
           deeper == [own EXCEPT !.descend = @ \/ (Len(segments) = 1 /\ node.children # <<>>)]
           rest(n) == SubSeq(segments, n + 1, Len(segments))
           children(n) == [i \in DOMAIN node.children |-> below[node.children[i]][rest(n)]]
           try(n) == [x \in Result |-> IF n > Len(segments) THEN Panicked(x)
                                       ELSE InTurn(children(n), x)]
           tries == Consumed(node, segments)
<1>1. own \in Result
  BY OverwrittenType
<1>2. deeper \in Result
  <2> HIDE DEF own
  <2> QED
    BY <1>1 DEF Result
<1>3. \A x \in Result : Panicked(x) \in Result
  BY DEF Panicked, Result
<1>4. ASSUME NEW n \in Nat, NEW x \in Result, n <= Len(segments)
      PROVE  InTurn(children(n), x) \in Result
  <2>1. rest(n) \in Seq(Segment)
    BY <1>4
  <2>2. DOMAIN children(n) = 1 .. Len(node.children) /\ Len(node.children) \in Nat
    BY NodeFields
  <2>3. \A k \in 1 .. Len(node.children) : \A y \in Result : children(n)[k][y] \in Result
    <3> HIDE DEF rest
    <3> QED
      BY <2>1, NodeFields DEF IsSearch
  <2> HIDE DEF children
  <2> QED
    BY <2>2, <2>3, InTurnPreserves
<1>5. ASSUME NEW n \in Nat
      PROVE  try(n) \in [Result -> Result]
  <2> HIDE DEF children
  <2>1. Len(segments) \in Nat
    OBVIOUS
  <2> QED
    BY <1>3, <1>4, <2>1
<1>6. InTurn([i \in DOMAIN tries |-> try(tries[i])], deeper) \in Result
  <2> DEFINE m == Len(node.children) - 2
             n == IF m \in Nat THEN m ELSE 0
             steps == [i \in DOMAIN tries |-> try(tries[i])]
  <2>1. DOMAIN tries = 1 .. n /\ n \in Nat /\ \A i \in 1 .. n : tries[i] = i /\ i \in Nat
    BY NodeFields DEF Consumed
  <2>2. DOMAIN steps = 1 .. n /\ \A k \in 1 .. n : \A x \in Result : steps[k][x] \in Result
    <3> HIDE DEF n, try, tries
    <3> QED
      BY <1>5, <2>1
  <2> HIDE DEF n, steps, deeper
  <2>3. InTurn(steps, deeper) \in Result
    BY <1>2, <2>1, <2>2, InTurnPreserves
  <2> QED
    BY <2>3 DEF steps
<1>7. Len(segments) \in Nat /\ (segments # <<>> => 1 <= Len(segments))
  OBVIOUS
<1>8. segments # <<>> => InTurn(children(1), own) \in Result
  <2> HIDE DEF children, own
  <2> QED
    BY <1>1, <1>4, <1>7
<1>9. Visited(node, segments, r, below) =
        IF r.panic THEN r
        ELSE IF node.multi THEN InTurn([i \in DOMAIN tries |-> try(tries[i])], deeper)
        ELSE IF segments = <<>> THEN Panicked(r)
        ELSE IF Head(segments) \notin Glob[node.pattern] THEN r
        ELSE IF Len(segments) = 1 THEN deeper
        ELSE InTurn(children(1), own)
  BY Zenon DEF Visited
<1> HIDE DEF own, deeper, rest, children, try, tries
<1> QED
  BY <1>2, <1>3, <1>6, <1>8, <1>9

\* The recursive function NodeAction is what its definition says.
LEMMA NodeActionDef ==
    \A h \in Nat :
        /\ IsSearch(NodeAction[h], h)
        /\ \A node \in Node[h], segments \in Seq(Segment), r \in Result :
             NodeAction[h][node][segments][r] = Visited(node, segments, r, NodeAction[h - 1])
<1> DEFINE Body(h, below) ==
              [node \in Node[h] |-> [segments \in Seq(Segment) |-> [result \in Result |->
                  Visited(node, segments, result, below)]]]
           T == [h \in Nat |-> [Node[h] -> [Seq(Segment) -> [Result -> Result]]]]
           step == [h \in Nat |-> [below \in T[h - 1] |-> Body(h, below)]]
           Eq(f) == f = [h \in Nat |-> Body(h, f[h - 1])]
<1>1. ASSUME NEW below
      PROVE  Body(0, below) = Body(0, <<>>) /\ Body(0, below) \in T[0]
  <2>1. Node[0] = {}
    BY NodeDef
  <2>2. Body(0, below) = [node \in {} |-> <<>>]
    BY <2>1
  <2>3. Body(0, <<>>) = [node \in {} |-> <<>>]
    BY <2>1
  <2>4. T[0] = [{} -> [Seq(Segment) -> [Result -> Result]]]
    BY <2>1
  <2> HIDE DEF Body, T
  <2> QED
    BY <2>2, <2>3, <2>4
<1>2. ASSUME NEW h \in Nat, NEW below \in T[h]
      PROVE  step[h + 1][below] = Body(h + 1, below) /\ Body(h + 1, below) \in T[h + 1]
  <2>1. h + 1 \in Nat /\ (h + 1) - 1 = h
    OBVIOUS
  <2>2. step[h + 1][below] = Body(h + 1, below)
    <3> HIDE DEF Body, T
    <3> QED
      BY <2>1
  <2>3. IsSearch(below, h)
    BY DEF IsSearch
  <2>4. \A node \in Node[h + 1], segments \in Seq(Segment), r \in Result :
          Visited(node, segments, r, below) \in Result
    BY <2>3, VisitedType
  <2>5. Body(h + 1, below) \in T[h + 1]
    BY <2>1, <2>4
  <2> QED
    BY <2>2, <2>5
<1>3. PICK g : /\ g = [n \in Nat |-> IF n = 0 THEN Body(0, <<>>) ELSE step[n][g[n - 1]]]
               /\ \A n \in Nat : g[n] \in T[n]
  <2>1. Body(0, <<>>) \in T[0]
    BY <1>1
  <2>2. \A n \in Nat : \A v \in T[n] : step[n + 1][v] \in T[n + 1]
    <3> HIDE DEF T, step, Body
    <3> QED
      BY <1>2
  <2> HIDE DEF T, step, Body
  <2> QED
    BY <2>1, <2>2, PrimitiveRecursion
<1>4. Eq(g)
  <2>1. ASSUME NEW n \in Nat
        PROVE  g[n] = Body(n, g[n - 1])
    <3>1. CASE n = 0
      <4> HIDE DEF T, step, Body
      <4> QED
        BY <1>1, <1>3, <3>1
    <3>2. CASE n # 0
      <4>1. n - 1 \in Nat /\ (n - 1) + 1 = n
        BY <3>2
      <4> HIDE DEF T, step, Body
      <4> QED
        BY <1>2, <1>3, <3>2, <4>1
    <3> QED
      BY <3>1, <3>2
  <2>2. g = [n \in Nat |-> g[n]]
    <3> HIDE DEF T, step, Body
    <3> QED
      BY <1>3
  <2> HIDE DEF T, step, Body
  <2> QED
    BY <2>1, <2>2
<1>5. NodeAction = CHOOSE f : Eq(f)
  BY Zenon DEF NodeAction
<1>6. Eq(NodeAction)
  <2> HIDE DEF Eq
  <2> QED
    BY <1>4, <1>5
<1>7. \A h \in Nat : NodeAction[h] = Body(h, NodeAction[h - 1])
  <2> HIDE DEF Body
  <2> QED
    BY <1>6
<1> DEFINE Typed == {h \in Nat : NodeAction[h] \in T[h]}
<1>8. 0 \in Typed
  <2> HIDE DEF Body, T
  <2> QED
    BY <1>1, <1>7
<1>9. ASSUME NEW h \in Nat, h \in Typed
      PROVE  h + 1 \in Typed
  <2>1. h + 1 \in Nat /\ (h + 1) - 1 = h
    OBVIOUS
  <2> HIDE DEF Body, T
  <2> QED
    BY <1>2, <1>7, <1>9, <2>1
<1>10. \A h \in Nat : NodeAction[h] \in T[h]
  <2> HIDE DEF Typed
  <2>1. Nat \subseteq Typed
    BY <1>8, <1>9, Induction
  <2> QED
    BY <2>1 DEF Typed
<1> SUFFICES ASSUME NEW h \in Nat
             PROVE  /\ IsSearch(NodeAction[h], h)
                    /\ \A node \in Node[h], segments \in Seq(Segment), r \in Result :
                         NodeAction[h][node][segments][r] = Visited(node, segments, r, NodeAction[h - 1])
  OBVIOUS
<1>11. IsSearch(NodeAction[h], h)
  BY <1>10 DEF IsSearch
<1>12. NodeAction[h] = Body(h, NodeAction[h - 1])
  BY <1>7
<1> QED
  BY <1>11, <1>12

\* The children of a node, or of the graph, asked one after the other.
Steps(h, nodes, q) == [i \in DOMAIN nodes |-> NodeAction[h][nodes[i]][q]]
Search(h, nodes, q, r) == InTurn(Steps(h, nodes, q), r)

\* The results of searches that did not panic.
Sound == {r \in Result : ~r.panic}

\* A plain node is a node, and its children are plain.
LEMMA PlainFields ==
    ASSUME NEW h \in Nat, NEW node \in Plain[h + 1]
    PROVE  /\ node \in Node[h + 1] /\ node.children \in Seq(Plain[h]) /\ node.children \in Seq(Node[h])
           /\ node.multi \in BOOLEAN /\ node.pattern \in DOMAIN Glob
           /\ node.multi => node.pattern = "**" /\ node.children = <<>>
<1>1. h + 1 \in Nat /\ h + 1 # 0 /\ (h + 1) - 1 = h
  OBVIOUS
<1>2. Plain[h + 1] = {n \in Node[h + 1] : /\ n.children \in Seq(Plain[h])
                                          /\ n.multi => n.pattern = "**" /\ n.children = <<>>}
  BY <1>1, PlainDef
<1>3. node \in Node[h + 1]
  BY <1>2
<1> QED
  BY <1>2, <1>3, NodeFields

\* The steps of a search are functions on results.
LEMMA StepsType ==
    ASSUME NEW h \in Nat, NEW nodes \in Seq(Node[h]), NEW q \in Seq(Segment)
    PROVE  /\ DOMAIN Steps(h, nodes, q) = 1 .. Len(nodes) /\ Len(nodes) \in Nat
           /\ \A k \in 1 .. Len(nodes) : /\ Steps(h, nodes, q)[k] = NodeAction[h][nodes[k]][q]
                                         /\ nodes[k] \in Node[h]
           /\ \A node \in Node[h] : NodeAction[h][node][q] \in [Result -> Result]
           /\ Steps(h, nodes, q) \in Seq([Result -> Result])
<1>1. \A node \in Node[h] : NodeAction[h][node][q] \in [Result -> Result]
  BY NodeActionDef DEF IsSearch
<1>2. DOMAIN nodes = 1 .. Len(nodes) /\ Len(nodes) \in Nat /\ \A k \in 1 .. Len(nodes) : nodes[k] \in Node[h]
  OBVIOUS
<1>3. Steps(h, nodes, q) \in [1 .. Len(nodes) -> [Result -> Result]]
  BY <1>1, <1>2 DEF Steps
<1>4. Steps(h, nodes, q) \in Seq([Result -> Result])
  <2> DEFINE R == [Result -> Result]
  <2> HIDE DEF R
  <2> QED
    BY <1>2, <1>3 DEF R
<1> QED
  BY <1>1, <1>2, <1>3, <1>4 DEF Steps

\* A search ends in a result, asks nobody when there is no node, and asks the
\* last node last.
LEMMA SearchBasics ==
    ASSUME NEW h \in Nat, NEW q \in Seq(Segment), NEW r \in Result
    PROVE  /\ Search(h, <<>>, q, r) = r
           /\ \A nodes \in Seq(Node[h]) :
                /\ Search(h, nodes, q, r) \in Result
                /\ \A node \in Node[h] :
                     Search(h, Append(nodes, node), q, r) = NodeAction[h][node][q][Search(h, nodes, q, r)]
<1>1. Search(h, <<>>, q, r) = r
  <2>1. DOMAIN Steps(h, <<>>, q) = {}
    BY DEF Steps
  <2> QED
    BY <2>1, InTurnEmpty DEF Search
<1>2. ASSUME NEW nodes \in Seq(Node[h])
      PROVE  Search(h, nodes, q, r) \in Result
  <2> DEFINE n == Len(nodes)
             steps == Steps(h, nodes, q)
  <2>1. /\ n \in Nat /\ DOMAIN steps = 1 .. n
        /\ \A k \in 1 .. n : \A x \in Result : steps[k][x] \in Result
    BY StepsType
  <2> HIDE DEF n, steps
  <2>2. InTurn(steps, r) \in Result
    BY <2>1, InTurnPreserves
  <2> QED
    BY <2>2 DEF Search, steps
<1>3. ASSUME NEW nodes \in Seq(Node[h]), NEW node \in Node[h]
      PROVE  Search(h, Append(nodes, node), q, r) = NodeAction[h][node][q][Search(h, nodes, q, r)]
  <2> DEFINE more == Append(nodes, node)
             step == NodeAction[h][node][q]
             steps == Steps(h, nodes, q)
  <2>1. more \in Seq(Node[h]) /\ Len(more) = Len(nodes) + 1 /\ more[Len(nodes) + 1] = node
        /\ Len(nodes) \in Nat /\ \A k \in 1 .. Len(nodes) : more[k] = nodes[k]
    OBVIOUS
  <2> HIDE DEF more
  <2>2. steps \in Seq([Result -> Result]) /\ step \in [Result -> Result]
    BY StepsType
  <2>3. Steps(h, more, q) = Append(steps, step)
    <3>1. /\ DOMAIN Steps(h, more, q) = 1 .. Len(nodes) + 1
          /\ \A k \in 1 .. Len(nodes) + 1 : Steps(h, more, q)[k] = NodeAction[h][more[k]][q]
      BY <2>1, StepsType
    <3>2. Steps(h, more, q) = [k \in 1 .. Len(nodes) + 1 |-> NodeAction[h][more[k]][q]]
      <4>1. DOMAIN more = 1 .. Len(nodes) + 1
        BY <2>1
      <4> QED
        BY <4>1 DEF Steps
    <3>3. /\ DOMAIN steps = 1 .. Len(nodes) /\ \A k \in 1 .. Len(nodes) : steps[k] = NodeAction[h][nodes[k]][q]
      BY StepsType
    <3>4. Len(steps) = Len(nodes)
      <4> DEFINE R == [Result -> Result]
      <4> HIDE DEF R, steps
      <4>1. steps \in Seq(R)
        BY <2>2 DEF R
      <4> QED
        BY <2>1, <3>3, <4>1
    <3>5. Append(steps, step) = [k \in 1 .. Len(nodes) + 1 |-> IF k = Len(nodes) + 1 THEN step ELSE steps[k]]
      <4> DEFINE R == [Result -> Result]
      <4> HIDE DEF R, steps, step
      <4>1. steps \in Seq(R) /\ step \in R
        BY <2>2 DEF R
      <4> DEFINE all == Append(steps, step)
      <4>2. /\ all \in Seq(R) /\ Len(all) = Len(nodes) + 1 /\ all[Len(nodes) + 1] = step
            /\ \A k \in 1 .. Len(nodes) : all[k] = steps[k]
        BY <3>4, <4>1, AppendProperties
      <4> HIDE DEF all
      <4>3. all = [k \in 1 .. Len(nodes) + 1 |-> all[k]]
        BY <4>2
      <4>4. \A k \in 1 .. Len(nodes) + 1 : k = Len(nodes) + 1 \/ k \in 1 .. Len(nodes)
        BY <2>1
      <4>5. all = [k \in 1 .. Len(nodes) + 1 |-> IF k = Len(nodes) + 1 THEN step ELSE steps[k]]
        BY <2>1, <4>2, <4>3, <4>4
      <4> QED
        BY <4>5 DEF all
    <3>6. \A k \in 1 .. Len(nodes) + 1 :
             NodeAction[h][more[k]][q] = IF k = Len(nodes) + 1 THEN step ELSE steps[k]
      <4> SUFFICES ASSUME NEW k \in 1 .. Len(nodes) + 1
                   PROVE  NodeAction[h][more[k]][q] = IF k = Len(nodes) + 1 THEN step ELSE steps[k]
        OBVIOUS
      <4>1. k = Len(nodes) + 1 \/ k \in 1 .. Len(nodes)
        BY <2>1
      <4> HIDE DEF steps
      <4> QED
        BY <2>1, <3>3, <4>1
    <3> HIDE DEF steps, step
    <3> QED
      BY <3>2, <3>5, <3>6
  <2> HIDE DEF steps, step
  <2>4. InTurn(Append(steps, step), r) = step[InTurn(steps, r)]
    BY <2>2, InTurnAppend
  <2> QED
    BY <2>3, <2>4 DEF Search, more, steps, step
<1> QED
  BY <1>1, <1>2, <1>3

\* Unless it panics, a plain node that matches says what it has to say, and its
\* children after it.
LEMMA NodeSearch ==
    ASSUME NEW h \in Nat, NEW node \in Plain[h + 1], NEW q \in Seq(Segment), q # <<>>, NEW r \in Sound
    PROVE  NodeAction[h + 1][node][q][r] =
             IF node.multi THEN Overwritten(r, node)
             ELSE IF Head(q) \notin Glob[node.pattern] THEN r
             ELSE IF Len(q) = 1
             THEN [Overwritten(r, node) EXCEPT !.descend = @ \/ node.children # <<>>]
             ELSE Search(h, node.children, Tail(q), Overwritten(r, node))
<1> DEFINE own == Overwritten(r, node)
           deeper == [own EXCEPT !.descend = @ \/ (Len(q) = 1 /\ node.children # <<>>)]
           children(n) == [i \in DOMAIN node.children |-> NodeAction[h][node.children[i]][SubSeq(q, n + 1, Len(q))]]
           try(n) == [x \in Result |-> IF n > Len(q) THEN Panicked(x) ELSE InTurn(children(n), x)]
           tries == Consumed(node, q)
<1>1. h + 1 \in Nat /\ (h + 1) - 1 = h /\ r \in Result /\ ~r.panic
  BY DEF Sound
<1>2. node \in Node[h + 1] /\ (node.multi => node.children = <<>>)
  BY PlainFields
<1>3. own \in Result
  BY <1>1, <1>2, OverwrittenType
<1>4. NodeAction[h + 1][node][q][r] = Visited(node, q, r, NodeAction[h])
  BY <1>1, <1>2, NodeActionDef
<1>5. Visited(node, q, r, NodeAction[h]) =
        IF r.panic THEN r
        ELSE IF node.multi THEN InTurn([i \in DOMAIN tries |-> try(tries[i])], deeper)
        ELSE IF q = <<>> THEN Panicked(r)
        ELSE IF Head(q) \notin Glob[node.pattern] THEN r
        ELSE IF Len(q) = 1 THEN deeper
        ELSE InTurn(children(1), own)
  BY Zenon DEF Visited
<1>6. ASSUME node.multi
      PROVE  InTurn([i \in DOMAIN tries |-> try(tries[i])], deeper) = own
  <2>1. DOMAIN tries = {}
    BY <1>2, <1>6 DEF Consumed
  <2>2. deeper = own
    <3> HIDE DEF own
    <3>1. own.descend = (own.descend \/ (Len(q) = 1 /\ node.children # <<>>))
      BY <1>2, <1>3, <1>6 DEF Result
    <3> QED
      BY <1>3, <3>1 DEF Result
  <2> HIDE DEF deeper, own, try, tries
  <2>3. DOMAIN [i \in DOMAIN tries |-> try(tries[i])] = {}
    BY <2>1
  <2> QED
    BY <2>2, <2>3, InTurnEmpty
<1>7. ASSUME Len(q) = 1
      PROVE  deeper = [own EXCEPT !.descend = @ \/ node.children # <<>>]
  BY <1>7
<1>8. InTurn(children(1), own) = Search(h, node.children, Tail(q), own)
  <2>1. SubSeq(q, 1 + 1, Len(q)) = Tail(q)
    OBVIOUS
  <2>2. children(1) = Steps(h, node.children, Tail(q))
    BY <2>1 DEF Steps
  <2> QED
    BY <2>2 DEF Search
<1> HIDE DEF own, deeper, children, try, tries
<1>9. NodeAction[h + 1][node][q][r] =
             IF node.multi THEN own
             ELSE IF Head(q) \notin Glob[node.pattern] THEN r
             ELSE IF Len(q) = 1
             THEN [own EXCEPT !.descend = @ \/ node.children # <<>>]
             ELSE Search(h, node.children, Tail(q), own)
  BY <1>1, <1>4, <1>5, <1>6, <1>7, <1>8
<1> QED
  BY <1>9 DEF own

-----------------------------------------------------------------------------
(* What the result of a search depends on.                                 *)

\* Plain nodes are nodes, one by one and in sequences.
LEMMA PlainNodes ==
    ASSUME NEW h \in Nat, NEW nodes \in Seq(Plain[h])
    PROVE  /\ nodes \in Seq(Node[h]) /\ Len(nodes) \in Nat
           /\ \A k \in 1 .. Len(nodes) : nodes[k] \in Plain[h]
<1> DEFINE P == Plain[h]
           N == Node[h]
<1>1. P \subseteq N
  BY PlainDef
<1>2. nodes \in Seq(P)
  OBVIOUS
<1> HIDE DEF P, N
<1>3. nodes \in Seq(N) /\ Len(nodes) \in Nat /\ \A k \in 1 .. Len(nodes) : nodes[k] \in P
  BY <1>1, <1>2
<1> QED
  BY <1>3 DEF P, N

\* Two searches in as many nodes, related node by node, are related at their ends.
LEMMA SearchRelated ==
    ASSUME NEW h \in Nat, NEW q \in Seq(Segment), NEW p \in Seq(Segment),
           NEW nodes \in Seq(Node[h]), NEW others \in Seq(Node[h]), Len(nodes) = Len(others),
           NEW Rel, NEW r, NEW o, <<r, o>> \in Rel,
           \A k \in 1 .. Len(nodes) : \A x, y : <<x, y>> \in Rel =>
             <<NodeAction[h][nodes[k]][q][x], NodeAction[h][others[k]][p][y]>> \in Rel
    PROVE  <<Search(h, nodes, q, r), Search(h, others, p, o)>> \in Rel
<1> DEFINE s == Steps(h, nodes, q)
           t == Steps(h, others, p)
           n == Len(nodes)
<1>1. /\ n \in Nat /\ DOMAIN s = 1 .. n /\ DOMAIN t = 1 .. n
      /\ \A k \in 1 .. n : s[k] = NodeAction[h][nodes[k]][q] /\ t[k] = NodeAction[h][others[k]][p]
  BY StepsType
<1>2. \A k \in 1 .. n : \A x, y : <<x, y>> \in Rel => <<s[k][x], t[k][y]>> \in Rel
  BY <1>1
<1> HIDE DEF s, t, n
<1>3. <<InTurn(s, r), InTurn(t, o)>> \in Rel
  BY <1>1, <1>2, InTurnRelated
<1> QED
  BY <1>3 DEF Search, s, t

\* What is left of a path of several segments.
LEMMA TailLonger ==
    ASSUME NEW S, NEW q \in Seq(S), q # <<>>, Len(q) # 1
    PROVE  Tail(q) \in Seq(S) /\ Tail(q) # <<>> /\ Len(q) \in Nat /\ Len(q) > 1
<1>1. Len(q) \in Nat /\ Len(q) > 1 /\ Tail(q) \in Seq(S) /\ Len(Tail(q)) = Len(q) - 1
  <2>1. Len(q) \in Nat \ {0} /\ Tail(q) \in Seq(S) /\ Len(Tail(q)) = Len(q) - 1
    BY TailProperties
  <2> QED
    BY <2>1
<1>2. Len(<<>>) = 0
  OBVIOUS
<1>3. Len(Tail(q)) # 0
  BY <1>1
<1> QED
  BY <1>1, <1>2, <1>3

\* Pairs of results that agree on what to do.
SameActions == {e \in Sound \X Sound : e[1].actions = e[2].actions}

\* A plain node asked for a path that has a segment does not panic, and what it
\* says depends on nothing but what was said before it.
LEMMA SameFromNode ==
    \A h \in Nat : \A node \in Plain[h], q \in Seq(Segment) \ {<<>>} : \A x, y :
        <<x, y>> \in SameActions => <<NodeAction[h][node][q][x], NodeAction[h][node][q][y]>> \in SameActions
<1> DEFINE Good == {h \in Nat : \A node \in Plain[h], q \in Seq(Segment) \ {<<>>} : \A x, y :
                      <<x, y>> \in SameActions =>
                        <<NodeAction[h][node][q][x], NodeAction[h][node][q][y]>> \in SameActions}
<1>1. 0 \in Good
  BY PlainDef
<1>2. ASSUME NEW h \in Nat, h \in Good
      PROVE  h + 1 \in Good
  <2> SUFFICES ASSUME NEW node \in Plain[h + 1], NEW q \in Seq(Segment), q # <<>>, NEW x, NEW y,
                      <<x, y>> \in SameActions
               PROVE  <<NodeAction[h + 1][node][q][x], NodeAction[h + 1][node][q][y]>> \in SameActions
    BY <1>2
  <2> DEFINE a == Overwritten(x, node)
             b == Overwritten(y, node)
             deeper(r) == [r EXCEPT !.descend = @ \/ node.children # <<>>]
             below(r) == Search(h, node.children, Tail(q), r)
  <2>1. x \in Sound /\ y \in Sound /\ x.actions = y.actions /\ x \in Result /\ y \in Result
    BY DEF SameActions, Sound
  <2>2. node \in Node[h + 1] /\ node.children \in Seq(Node[h]) /\ node.children \in Seq(Plain[h])
    BY PlainFields
  <2>3. <<a, b>> \in SameActions
    <3>1. a \in Result /\ b \in Result /\ a.panic = x.panic /\ b.panic = y.panic /\ a.actions = b.actions
      <4> DEFINE said == CHOOSE d \in node.actions : TRUE
      <4>1. /\ a \in Result /\ a.panic = x.panic /\ a.descend = x.descend
            /\ a.actions = IF node.actions = {} THEN x.actions ELSE said
        BY <2>1, <2>2, OverwrittenType
      <4>2. /\ b \in Result /\ b.panic = y.panic
            /\ b.actions = IF node.actions = {} THEN y.actions ELSE said
        BY <2>1, <2>2, OverwrittenType
      <4> HIDE DEF a, b, said
      <4> QED
        BY <2>1, <4>1, <4>2
    <3> HIDE DEF a, b
    <3> QED
      BY <2>1, <3>1 DEF SameActions, Sound
  <2> HIDE DEF a, b
  <2>4. <<deeper(a), deeper(b)>> \in SameActions
    BY <2>3 DEF SameActions, Sound, Result
  <2>5. Len(q) # 1 => <<below(a), below(b)>> \in SameActions
    <3> SUFFICES ASSUME Len(q) # 1
                 PROVE  <<below(a), below(b)>> \in SameActions
      OBVIOUS
    <3>1. Tail(q) \in Seq(Segment) \ {<<>>}
      BY TailLonger
    <3>2. \A k \in 1 .. Len(node.children) : \A s, t : <<s, t>> \in SameActions =>
            <<NodeAction[h][node.children[k]][Tail(q)][s],
              NodeAction[h][node.children[k]][Tail(q)][t]>> \in SameActions
      BY <1>2, <2>2, <3>1, PlainNodes
    <3> HIDE DEF Good
    <3> QED
      BY <2>2, <2>3, <3>1, <3>2, SearchRelated
  <2>6. NodeAction[h + 1][node][q][x] =
          IF node.multi THEN a ELSE IF Head(q) \notin Glob[node.pattern] THEN x
          ELSE IF Len(q) = 1 THEN deeper(a) ELSE below(a)
    BY <2>1, NodeSearch DEF a
  <2>7. NodeAction[h + 1][node][q][y] =
          IF node.multi THEN b ELSE IF Head(q) \notin Glob[node.pattern] THEN y
          ELSE IF Len(q) = 1 THEN deeper(b) ELSE below(b)
    BY <2>1, NodeSearch DEF b
  <2> HIDE DEF deeper, below
  <2> QED
    BY <2>3, <2>4, <2>5, <2>6, <2>7
<1>3. Nat \subseteq Good
  <2> HIDE DEF Good
  <2> QED
    BY <1>1, <1>2, Induction
<1> QED
  BY <1>3

\* The same for a search in several nodes.
LEMMA SameFromSearch ==
    ASSUME NEW h \in Nat, NEW nodes \in Seq(Plain[h]), NEW q \in Seq(Segment), q # <<>>,
           NEW x \in Sound, NEW y \in Sound, x.actions = y.actions
    PROVE  /\ Search(h, nodes, q, x) \in Sound /\ Search(h, nodes, q, y) \in Sound
           /\ Search(h, nodes, q, x).actions = Search(h, nodes, q, y).actions
<1>1. <<x, y>> \in SameActions
  BY DEF SameActions
<1>2. \A k \in 1 .. Len(nodes) : \A s, t : <<s, t>> \in SameActions =>
        <<NodeAction[h][nodes[k]][q][s], NodeAction[h][nodes[k]][q][t]>> \in SameActions
  BY PlainNodes, SameFromNode
<1>3. <<Search(h, nodes, q, x), Search(h, nodes, q, y)>> \in SameActions
  BY <1>1, <1>2, PlainNodes, SearchRelated
<1> QED
  BY <1>3 DEF SameActions

\* Pairs of results, for a path and for one below it, that agree on what to do
\* unless the first says to look below.
SameBelow == {e \in Sound \X Sound : e[1].descend \/ e[1].actions = e[2].actions}

\* q is p or a directory above it.
Above(q, p) == Len(q) <= Len(p) /\ \A i \in 1 .. Len(q) : q[i] = p[i]

\* Where a plain node does not say to descend, it says the same of every path
\* below.
LEMMA BelowFromNode ==
    \A h \in Nat : \A node \in Plain[h], q, p \in Seq(Segment) \ {<<>>} : \A x, y :
        Above(q, p) /\ <<x, y>> \in SameBelow =>
          <<NodeAction[h][node][q][x], NodeAction[h][node][p][y]>> \in SameBelow
<1> DEFINE Good == {h \in Nat : \A node \in Plain[h], q, p \in Seq(Segment) \ {<<>>} : \A x, y :
                      Above(q, p) /\ <<x, y>> \in SameBelow =>
                        <<NodeAction[h][node][q][x], NodeAction[h][node][p][y]>> \in SameBelow}
<1>1. 0 \in Good
  BY PlainDef
<1>2. ASSUME NEW h \in Nat, h \in Good
      PROVE  h + 1 \in Good
  <2> SUFFICES ASSUME NEW node \in Plain[h + 1], NEW q \in Seq(Segment), q # <<>>,
                      NEW p \in Seq(Segment), p # <<>>, Above(q, p),
                      NEW x, NEW y, <<x, y>> \in SameBelow
               PROVE  <<NodeAction[h + 1][node][q][x], NodeAction[h + 1][node][p][y]>> \in SameBelow
    BY <1>2
  <2> DEFINE a == Overwritten(x, node)
             b == Overwritten(y, node)
             deeper(r) == [r EXCEPT !.descend = @ \/ node.children # <<>>]
             below(s, r) == Search(h, node.children, Tail(s), r)
  <2>1. x \in Sound /\ y \in Sound /\ x \in Result /\ y \in Result /\ (x.descend \/ x.actions = y.actions)
    BY DEF SameBelow, Sound
  <2>2. node \in Node[h + 1] /\ node.children \in Seq(Node[h]) /\ node.children \in Seq(Plain[h])
    BY PlainFields
  <2>3. <<a, b>> \in SameBelow /\ a \in Sound /\ b \in Sound /\ a \in Result /\ b \in Result
    <3>1. /\ a \in Result /\ b \in Result /\ a.panic = x.panic /\ b.panic = y.panic
          /\ a.descend = x.descend /\ (x.actions = y.actions => a.actions = b.actions)
      <4> DEFINE said == CHOOSE d \in node.actions : TRUE
      <4>1. /\ a \in Result /\ a.panic = x.panic /\ a.descend = x.descend
            /\ a.actions = IF node.actions = {} THEN x.actions ELSE said
        BY <2>1, <2>2, OverwrittenType
      <4>2. /\ b \in Result /\ b.panic = y.panic
            /\ b.actions = IF node.actions = {} THEN y.actions ELSE said
        BY <2>1, <2>2, OverwrittenType
      <4> HIDE DEF a, b, said
      <4> QED
        BY <2>1, <4>1, <4>2
    <3> HIDE DEF a, b
    <3> QED
      BY <2>1, <3>1 DEF SameBelow, Sound
  <2> HIDE DEF a, b
  <2>4. <<deeper(a), deeper(b)>> \in SameBelow
    BY <2>3 DEF SameBelow, Sound, Result
  <2>5. ASSUME Len(q) = 1, Len(p) # 1
        PROVE  <<deeper(a), below(p, b)>> \in SameBelow
    <3>1. Tail(p) \in Seq(Segment) /\ Tail(p) # <<>>
      BY <2>5, TailLonger
    <3>2. below(p, b) \in Sound
      <4>1. b.actions = b.actions
        OBVIOUS
      <4> QED
        BY <2>2, <2>3, <3>1, <4>1, SameFromSearch
    <3>3. deeper(a) \in Sound /\ deeper(a).descend = (a.descend \/ node.children # <<>>)
          /\ deeper(a).actions = a.actions
      BY <2>3 DEF Sound, Result
    <3>4. node.children = <<>> => below(p, b) = b
      <4>1. Search(h, <<>>, Tail(p), b) = b
        BY <2>3, <3>1, SearchBasics
      <4> QED
        BY <4>1
    <3> HIDE DEF deeper, below
    <3> QED
      BY <2>3, <3>2, <3>3, <3>4 DEF SameBelow
  <2>6. ASSUME Len(q) # 1
        PROVE  Len(p) # 1 /\ <<below(q, a), below(p, b)>> \in SameBelow
    <3>1. Tail(q) \in Seq(Segment) \ {<<>>} /\ Len(q) > 1 /\ Len(q) \in Nat
      BY <2>6, TailLonger
    <3>2. Len(p) \in Nat /\ Len(p) # 1 /\ Len(p) > 1 /\ Tail(p) \in Seq(Segment) \ {<<>>}
      <4>1. Len(p) \in Nat /\ Len(q) <= Len(p)
        BY DEF Above
      <4>2. \A m, n \in Nat : m > 1 /\ m <= n => n # 1 /\ n > 1
        OBVIOUS
      <4>3. Len(q) > 1 /\ Len(q) \in Nat
        BY <3>1
      <4>4. Len(p) # 1 /\ Len(p) > 1
        BY <4>1, <4>2, <4>3
      <4> QED
        BY <4>1, <4>4, TailLonger
    <3>3. Above(Tail(q), Tail(p))
      <4>1. /\ Len(Tail(q)) = Len(q) - 1 /\ \A i \in 1 .. Len(q) - 1 : Tail(q)[i] = q[i + 1]
            /\ Len(Tail(p)) = Len(p) - 1 /\ \A i \in 1 .. Len(p) - 1 : Tail(p)[i] = p[i + 1]
        BY TailProperties
      <4>2. \A i \in 1 .. Len(q) - 1 : i \in 1 .. Len(p) - 1 /\ q[i + 1] = p[i + 1]
        BY <3>1, <3>2 DEF Above
      <4>3. Len(q) - 1 <= Len(p) - 1
        BY <3>1, <3>2 DEF Above
      <4> QED
        BY <4>1, <4>2, <4>3 DEF Above
    <3>4. \A k \in 1 .. Len(node.children) : \A s, t : <<s, t>> \in SameBelow =>
            <<NodeAction[h][node.children[k]][Tail(q)][s],
              NodeAction[h][node.children[k]][Tail(p)][t]>> \in SameBelow
      BY <1>2, <2>2, <3>1, <3>2, <3>3, PlainNodes
    <3>5. <<below(q, a), below(p, b)>> \in SameBelow
      <4> HIDE DEF Good
      <4> QED
        BY <2>2, <2>3, <3>1, <3>2, <3>4, SearchRelated
    <3> HIDE DEF below
    <3> QED
      BY Zenon, <3>2, <3>5
  <2>7. NodeAction[h + 1][node][q][x] =
          IF node.multi THEN a ELSE IF Head(q) \notin Glob[node.pattern] THEN x
          ELSE IF Len(q) = 1 THEN deeper(a) ELSE below(q, a)
    BY <2>1, NodeSearch DEF a
  <2>8. NodeAction[h + 1][node][p][y] =
          IF node.multi THEN b ELSE IF Head(p) \notin Glob[node.pattern] THEN y
          ELSE IF Len(p) = 1 THEN deeper(b) ELSE below(p, b)
    BY <2>1, NodeSearch DEF b
  <2>9. Head(q) = Head(p)
    <3>1. 1 \in 1 .. Len(q) /\ Head(q) = q[1] /\ Head(p) = p[1]
      BY TailProperties
    <3> QED
      BY <3>1 DEF Above
  <2> HIDE DEF deeper, below
  <2> QED
    BY <2>3, <2>4, <2>5, <2>6, <2>7, <2>8, <2>9
<1>3. Nat \subseteq Good
  <2> HIDE DEF Good
  <2> QED
    BY <1>1, <1>2, Induction
<1> QED
  BY <1>3

\* The same for a search in several nodes.
LEMMA BelowFromSearch ==
    ASSUME NEW h \in Nat, NEW nodes \in Seq(Plain[h]), NEW q \in Seq(Segment), q # <<>>,
           NEW p \in Seq(Segment), p # <<>>, Above(q, p), NEW x \in Sound
    PROVE  Search(h, nodes, q, x).descend \/
           Search(h, nodes, q, x).actions = Search(h, nodes, p, x).actions
<1>1. <<x, x>> \in SameBelow
  BY DEF SameBelow
<1>2. \A k \in 1 .. Len(nodes) : \A s, t : <<s, t>> \in SameBelow =>
        <<NodeAction[h][nodes[k]][q][s], NodeAction[h][nodes[k]][p][t]>> \in SameBelow
  BY PlainNodes, BelowFromNode
<1>3. <<Search(h, nodes, q, x), Search(h, nodes, p, x)>> \in SameBelow
  BY <1>1, <1>2, PlainNodes, SearchRelated
<1> QED
  BY <1>3 DEF SameBelow

-----------------------------------------------------------------------------
(* Patterns with a "**" nowhere but at the end.                            *)

\* A "**" is nowhere but at the end.
Trailing(pattern) == \A i \in 1 .. Len(pattern) - 1 : pattern[i] # "**"

\* The path has a segment for each of the pattern, which matches it.
Fits(pattern, path) ==
    Len(pattern) <= Len(path) /\ \A i \in 1 .. Len(pattern) : path[i] \in Glob[pattern[i]]

\* With a "**" nowhere but at its end, a pattern matches segment by segment.
LEMMA MatchesTrailing ==
    ASSUME NEW pattern \in Seq(DOMAIN Glob), pattern # <<>>, Trailing(pattern),
           NEW path \in Seq(Segment)
    PROVE  MatchesPath(pattern, path) <=> Fits(pattern, path)
<1> DEFINE n == Len(pattern)
           m == Len(path)
           Ends(ends) ==
              /\ ends[0] = 0
              /\ \A i \in 1 .. n :
                    IF pattern[i] = "**"
                    THEN ends[i] > ends[i - 1]
                    ELSE ends[i] = ends[i - 1] + 1 /\ path[ends[i]] \in Glob[pattern[i]]
<1>1. n \in Nat /\ n >= 1 /\ m \in Nat /\ \A i \in 1 .. m : path[i] \in Segment
  OBVIOUS
<1>2. Glob["**"] = Segment
  BY GlobAssumption
<1>3. ASSUME Fits(pattern, path)
      PROVE  MatchesPath(pattern, path)
  <2> DEFINE ends == [i \in 0 .. n |-> i]
  <2>1. n <= m /\ \A i \in 1 .. n : path[i] \in Glob[pattern[i]]
    BY <1>3 DEF Fits
  <2>2. ends \in [0 .. n -> 0 .. m]
    BY <1>1, <2>1
  <2>3. ends[0] = 0 /\ \A i \in 1 .. n : ends[i] = i /\ ends[i - 1] = i - 1 /\ i > i - 1 /\ i = (i - 1) + 1
    BY <1>1
  <2>4. Ends(ends)
    <3> HIDE DEF ends, n
    <3> QED
      BY <2>1, <2>3
  <2> HIDE DEF ends
  <2> QED
    BY <2>2, <2>4 DEF MatchesPath
<1>4. ASSUME MatchesPath(pattern, path)
      PROVE  Fits(pattern, path)
  <2>1. PICK ends \in [0 .. n -> 0 .. m] : Ends(ends)
    BY <1>4 DEF MatchesPath
  <2> DEFINE Same == {i \in 0 .. n - 1 : ends[i] = i}
  <2>2. 0 \in Same
    BY <1>1, <2>1
  <2>3. ASSUME NEW i \in 0 .. (n - 1) - 1, i \in Same
        PROVE  i + 1 \in Same
    <3>1. i + 1 \in 1 .. n /\ i + 1 \in 0 .. n - 1 /\ i + 1 \in 1 .. Len(pattern) - 1 /\ (i + 1) - 1 = i
      BY <1>1
    <3>2. pattern[i + 1] # "**"
      BY <3>1 DEF Trailing
    <3>3. ends[i + 1] = ends[i] + 1
      BY <2>1, <3>1, <3>2
    <3> QED
      BY <2>3, <3>1, <3>3
  <2>4. \A i \in 0 .. n - 1 : ends[i] = i
    <3>1. n - 1 \in Nat
      BY <1>1
    <3>2. 0 .. n - 1 \subseteq Same
      <4> HIDE DEF Same, n
      <4> QED
        BY <2>2, <2>3, <3>1, InductionUpTo
    <3> QED
      BY <3>2
  <2>5. n - 1 \in 0 .. n - 1 /\ n \in 1 .. n /\ n \in 0 .. n
    BY <1>1
  <2>6. ends[n - 1] = n - 1 /\ ends[n] \in 0 .. m
    BY <2>4, <2>5
  <2>7. n <= m
    <3>1. ends[n] > ends[n - 1]
      <4>1. ends[n] > ends[n - 1] \/ ends[n] = ends[n - 1] + 1
        BY <2>1, <2>5
      <4> QED
        BY <1>1, <2>6, <4>1
    <3> QED
      BY <1>1, <2>6, <3>1
  <2>8. ASSUME NEW i \in 1 .. n
        PROVE  path[i] \in Glob[pattern[i]]
    <3>1. i - 1 \in 0 .. n - 1 /\ i \in 1 .. m
      BY <1>1, <2>7
    <3>2. CASE pattern[i] = "**"
      BY <1>1, <1>2, <3>1, <3>2
    <3>3. CASE pattern[i] # "**"
      <4>1. ends[i] = ends[i - 1] + 1 /\ path[ends[i]] \in Glob[pattern[i]]
        BY <2>1, <3>3
      <4>2. ends[i] = i
        BY <2>4, <3>1, <4>1
      <4> QED
        BY <4>1, <4>2
    <3> QED
      BY <3>2, <3>3
  <2> QED
    BY <2>7, <2>8 DEF Fits
<1> QED
  BY <1>3, <1>4

\* Segment by segment: the first, and the others.
LEMMA FitsHead ==
    ASSUME NEW pattern \in Seq(DOMAIN Glob), pattern # <<>>,
           NEW path \in Seq(Segment), path # <<>>
    PROVE  /\ Fits(pattern, path) => Head(path) \in Glob[Head(pattern)]
           /\ Len(pattern) = 1 /\ Head(path) \in Glob[Head(pattern)] => Fits(pattern, path)
           /\ Len(pattern) # 1 => (Fits(pattern, path) <=> /\ Head(path) \in Glob[Head(pattern)]
                                                           /\ Len(path) # 1
                                                           /\ Fits(Tail(pattern), Tail(path)))
<1>1. /\ Len(pattern) \in Nat \ {0} /\ Head(pattern) = pattern[1] /\ Len(Tail(pattern)) = Len(pattern) - 1
      /\ \A i \in 1 .. Len(pattern) - 1 : Tail(pattern)[i] = pattern[i + 1]
  BY TailProperties
<1>2. /\ Len(path) \in Nat \ {0} /\ Head(path) = path[1] /\ Len(Tail(path)) = Len(path) - 1
      /\ \A i \in 1 .. Len(path) - 1 : Tail(path)[i] = path[i + 1]
  BY TailProperties
<1> DEFINE n == Len(pattern)
           m == Len(path)
<1>3. Fits(pattern, path) => Head(path) \in Glob[Head(pattern)]
  <2>1. 1 \in 1 .. n
    BY <1>1
  <2> QED
    BY <1>1, <1>2, <2>1 DEF Fits
<1>4. ASSUME n = 1, Head(path) \in Glob[Head(pattern)]
      PROVE  Fits(pattern, path)
  BY <1>1, <1>2, <1>4 DEF Fits
<1>5. ASSUME n # 1, Fits(pattern, path)
      PROVE  m # 1 /\ Fits(Tail(pattern), Tail(path))
  <2>1. n <= m /\ n - 1 <= m - 1 /\ m # 1
    BY <1>1, <1>2, <1>5 DEF Fits
  <2>2. ASSUME NEW i \in 1 .. n - 1
        PROVE  Tail(path)[i] \in Glob[Tail(pattern)[i]]
    <3>1. i + 1 \in 1 .. n /\ i \in 1 .. m - 1
      BY <1>1, <1>2, <2>1
    <3>2. path[i + 1] \in Glob[pattern[i + 1]]
      BY <1>5, <3>1 DEF Fits
    <3>3. Tail(path)[i] = path[i + 1] /\ Tail(pattern)[i] = pattern[i + 1]
      BY <1>1, <1>2, <3>1
    <3> QED
      BY <3>2, <3>3
  <2> QED
    BY <1>1, <1>2, <2>1, <2>2 DEF Fits
<1>6. ASSUME n # 1, m # 1, Fits(Tail(pattern), Tail(path)), Head(path) \in Glob[Head(pattern)]
      PROVE  Fits(pattern, path)
  <2>1. n - 1 <= m - 1 /\ n <= m
    BY <1>1, <1>2, <1>6 DEF Fits
  <2>2. ASSUME NEW i \in 1 .. n
        PROVE  path[i] \in Glob[pattern[i]]
    <3>1. CASE i = 1
      BY <1>1, <1>2, <1>6, <3>1
    <3>2. CASE i # 1
      <4>1. i - 1 \in 1 .. n - 1 /\ i - 1 \in 1 .. m - 1 /\ (i - 1) + 1 = i
        BY <1>1, <1>2, <2>1, <3>2
      <4>2. Tail(path)[i - 1] \in Glob[Tail(pattern)[i - 1]]
        BY <1>1, <1>6, <4>1 DEF Fits
      <4>3. Tail(path)[i - 1] = path[i] /\ Tail(pattern)[i - 1] = pattern[i]
        BY <1>1, <1>2, <4>1
      <4> QED
        BY <4>2, <4>3
    <3> QED
      BY <3>1, <3>2
  <2> QED
    BY <2>1, <2>2 DEF Fits
<1> QED
  BY <1>3, <1>4, <1>5, <1>6

\* The rest of a pattern fits one level down, and has its "**" where it was.
LEMMA RestOfPattern ==
    ASSUME NEW h \in Nat, NEW pattern \in Patterns(h + 1), Trailing(pattern)
    PROVE  /\ pattern \in Seq(DOMAIN Glob) /\ pattern # <<>> /\ Head(pattern) \in DOMAIN Glob
           /\ Len(pattern) # 1 => /\ Tail(pattern) \in Patterns(h) /\ Trailing(Tail(pattern))
                                  /\ Head(pattern) # "**"
<1>1. pattern \in Seq(DOMAIN Glob) /\ Len(pattern) \in 1 .. h + 1
  BY DEF Patterns
<1>2. pattern # <<>>
  <2>1. Len(<<>>) = 0
    OBVIOUS
  <2> QED
    BY <1>1, <2>1
<1>3. /\ Len(pattern) \in Nat \ {0} /\ Head(pattern) = pattern[1] /\ Head(pattern) \in DOMAIN Glob
      /\ Tail(pattern) \in Seq(DOMAIN Glob) /\ Len(Tail(pattern)) = Len(pattern) - 1
      /\ \A i \in 1 .. Len(pattern) - 1 : Tail(pattern)[i] = pattern[i + 1]
  BY <1>1, <1>2, TailProperties
<1>4. ASSUME Len(pattern) # 1
      PROVE  Tail(pattern) \in Patterns(h) /\ Trailing(Tail(pattern)) /\ Head(pattern) # "**"
  <2>1. Len(pattern) - 1 \in 1 .. h /\ 1 \in 1 .. Len(pattern) - 1
    BY <1>1, <1>3, <1>4
  <2>2. Head(pattern) # "**"
    BY <1>3, <2>1 DEF Trailing
  <2>3. ASSUME NEW i \in 1 .. (Len(pattern) - 1) - 1
        PROVE  Tail(pattern)[i] # "**"
    <3>1. i \in 1 .. Len(pattern) - 1 /\ i + 1 \in 1 .. Len(pattern) - 1
      BY <2>1
    <3>2. Tail(pattern)[i] = pattern[i + 1] /\ pattern[i + 1] # "**"
      BY <1>3, <3>1 DEF Trailing
    <3> QED
      BY <3>2
  <2> QED
    BY <1>3, <2>1, <2>2, <2>3 DEF Patterns, Trailing
<1> QED
  BY <1>1, <1>2, <1>3, <1>4

-----------------------------------------------------------------------------
(* Single nodes in a search.                                               *)

\* A search that did not panic before a node does not panic after it either.
LEMMA SearchSound ==
    ASSUME NEW h \in Nat, NEW nodes \in Seq(Plain[h]), NEW q \in Seq(Segment), q # <<>>, NEW r \in Sound
    PROVE  Search(h, nodes, q, r) \in Sound
<1>1. r.actions = r.actions
  OBVIOUS
<1> QED
  BY <1>1, SameFromSearch

\* The last node has the last word.
LEMMA SearchLast ==
    ASSUME NEW h \in Nat, NEW nodes \in Seq(Plain[h]), nodes # <<>>,
           NEW q \in Seq(Segment), q # <<>>, NEW r \in Sound
    PROVE  \E x \in Sound : Search(h, nodes, q, r) = NodeAction[h][nodes[Len(nodes)]][q][x]
<1> DEFINE P == Plain[h]
           most == SubSeq(nodes, 1, Len(nodes) - 1)
           last == nodes[Len(nodes)]
<1>1. most \in Seq(P) /\ last \in P /\ nodes = Append(most, last)
  <2>1. nodes \in Seq(P)
    OBVIOUS
  <2> HIDE DEF P
  <2> QED
    BY <2>1
<1> HIDE DEF most, last
<1>2. last \in Node[h] /\ most \in Seq(Node[h])
  BY <1>1, PlainNodes, PlainDef
<1>3. r \in Result
  BY DEF Sound
<1>4. Search(h, Append(most, last), q, r) = NodeAction[h][last][q][Search(h, most, q, r)]
  BY <1>2, <1>3, SearchBasics
<1>5. Search(h, most, q, r) \in Sound
  BY <1>1, SearchSound
<1> QED
  BY <1>1, <1>4, <1>5 DEF last

\* A node without children says what it has to say of a path that it matches.
LEMMA LeafSearch ==
    ASSUME NEW h \in Nat, NEW g \in DOMAIN Glob, NEW actions \in SUBSET Decision,
           NEW q \in Seq(Segment), q # <<>>, NEW x \in Sound
    PROVE  NodeAction[h + 1][NodeFromSegmentPattern(g, actions)][q][x] =
             IF Head(q) \in Glob[g] THEN Overwritten(x, NodeFromSegmentPattern(g, actions)) ELSE x
<1> DEFINE node == NodeFromSegmentPattern(g, actions)
           own == Overwritten(x, node)
<1>1. h + 1 \in Nat \ {0} /\ x \in Result
  BY DEF Sound
<1>2. node \in Plain[h + 1] /\ node.pattern = g /\ node.children = <<>> /\ (node.multi => g = "**")
  BY <1>1, NewNode
<1> HIDE DEF node
<1>3. node \in Node[h + 1]
  BY <1>2, PlainFields
<1>4. own \in Result
  BY <1>1, <1>3, OverwrittenType
<1>5. [own EXCEPT !.descend = @ \/ node.children # <<>>] = own
  <2> HIDE DEF own
  <2>1. (own.descend \/ node.children # <<>>) = own.descend
    BY <1>2, <1>4 DEF Result
  <2> QED
    BY <1>4, <2>1 DEF Result
<1>6. Len(q) # 1 => Search(h, node.children, Tail(q), own) = own
  <2>1. ASSUME Len(q) # 1
        PROVE  Search(h, <<>>, Tail(q), own) = own
    BY <1>4, <2>1, SearchBasics, TailLonger
  <2> QED
    BY <1>2, <2>1
<1>7. Head(q) \in Segment /\ (g = "**" => Head(q) \in Glob[g])
  BY GlobAssumption
<1>8. NodeAction[h + 1][node][q][x] =
             IF node.multi THEN own
             ELSE IF Head(q) \notin Glob[node.pattern] THEN x
             ELSE IF Len(q) = 1
             THEN [own EXCEPT !.descend = @ \/ node.children # <<>>]
             ELSE Search(h, node.children, Tail(q), own)
  BY <1>2, NodeSearch
<1> HIDE DEF own
<1>9. NodeAction[h + 1][node][q][x] = IF Head(q) \in Glob[g] THEN own ELSE x
  BY <1>2, <1>5, <1>6, <1>7, <1>8
<1> QED
  BY <1>9 DEF own, node

\* A new node for a path that has nothing to say, and one that has.
LEMMA LeafActions ==
    ASSUME NEW h \in Nat, NEW g \in DOMAIN Glob, NEW a \in Decision,
           NEW q \in Seq(Segment), q # <<>>, NEW x \in Sound
    PROVE  /\ NodeAction[h + 1][NodeFromSegmentPattern(g, {})][q][x] = x
           /\ NodeAction[h + 1][NodeFromSegmentPattern(g, {a})][q][x].actions =
                IF Head(q) \in Glob[g] THEN a ELSE x.actions
<1>1. h + 1 \in Nat \ {0} /\ x \in Result /\ {} \in SUBSET Decision /\ {a} \in SUBSET Decision
  BY DEF Sound
<1>2. NodeFromSegmentPattern(g, {}).actions = {} /\ NodeFromSegmentPattern(g, {a}).actions = {a}
  BY <1>1, NewNode
<1>3. Overwritten(x, NodeFromSegmentPattern(g, {})) = x
  BY <1>2 DEF Overwritten
<1>4. Overwritten(x, NodeFromSegmentPattern(g, {a})).actions = a
  <2>1. NodeFromSegmentPattern(g, {a}) \in Node[h + 1]
    BY <1>1, NewNode, PlainFields
  <2>2. (CHOOSE d \in {a} : TRUE) = a /\ {a} # {}
    OBVIOUS
  <2> DEFINE node == NodeFromSegmentPattern(g, {a})
  <2>3. Overwritten(x, node).actions = IF node.actions = {} THEN x.actions
                                       ELSE CHOOSE d \in node.actions : TRUE
    BY <1>1, <2>1, OverwrittenType
  <2>4. node.actions = {a}
    BY <1>2
  <2> HIDE DEF node
  <2>5. Overwritten(x, node).actions = a
    BY <2>2, <2>3, <2>4
  <2> QED
    BY <2>5 DEF node
<1>5. /\ NodeAction[h + 1][NodeFromSegmentPattern(g, {})][q][x] =
           IF Head(q) \in Glob[g] THEN Overwritten(x, NodeFromSegmentPattern(g, {})) ELSE x
      /\ NodeAction[h + 1][NodeFromSegmentPattern(g, {a})][q][x] =
           IF Head(q) \in Glob[g] THEN Overwritten(x, NodeFromSegmentPattern(g, {a})) ELSE x
  BY <1>1, LeafSearch
<1> QED
  BY <1>3, <1>4, <1>5

\* The nodes that Replaced drops have nothing to say of a path that their pattern
\* does not match.
LEMMA ReplacedSearch ==
    ASSUME NEW h \in Nat, NEW g \in DOMAIN Glob, NEW q \in Seq(Segment), q # <<>>,
           Head(q) \notin Glob[g], NEW r \in Sound, NEW nodes \in Seq(Plain[h + 1])
    PROVE  Search(h + 1, Replaced(nodes, g), q, r) = Search(h + 1, nodes, q, r)
<1> DEFINE P == Plain[h + 1]
           Good == {s \in Seq(P) : Search(h + 1, Replaced(s, g), q, r) = Search(h + 1, s, q, r)}
<1>1. h + 1 \in Nat /\ r \in Result
  BY DEF Sound
<1>2. <<>> \in Good
  BY ReplacedBasics
<1>3. ASSUME NEW s \in Seq(P), NEW e \in P, s \in Good
      PROVE  Append(s, e) \in Good
  <2> DEFINE kept == Replaced(s, g)
             x == Search(h + 1, s, q, r)
  <2>1. kept \in Seq(P) /\ Append(s, e) \in Seq(P)
    <3>1. kept \in Seq(P)
      BY ReplacedBasics
    <3> HIDE DEF P, kept
    <3> QED
      BY <3>1
  <2>2. e \in Node[h + 1] /\ s \in Seq(Node[h + 1]) /\ kept \in Seq(Node[h + 1])
    BY <1>1, <2>1, PlainFields, PlainNodes
  <2>3. /\ Search(h + 1, Append(s, e), q, r) = NodeAction[h + 1][e][q][x]
        /\ Search(h + 1, Append(kept, e), q, r) = NodeAction[h + 1][e][q][Search(h + 1, kept, q, r)]
    BY <1>1, <2>2, SearchBasics
  <2>4. Search(h + 1, kept, q, r) = x
    BY <1>3
  <2>5. Replaced(Append(s, e), g) = IF e.pattern = g THEN kept ELSE Append(kept, e)
    BY ReplacedAppend
  <2>6. ASSUME e.pattern = g
        PROVE  NodeAction[h + 1][e][q][x] = x
    <3>1. x \in Sound
      BY <1>1, SearchSound
    <3>2. ~e.multi
      <4>1. Head(q) \in Segment
        OBVIOUS
      <4> QED
        BY <2>6, <4>1, PlainFields, GlobAssumption
    <3> HIDE DEF x
    <3> QED
      BY <2>6, <3>1, <3>2, NodeSearch
  <2>7. Search(h + 1, Replaced(Append(s, e), g), q, r) = Search(h + 1, Append(s, e), q, r)
    <3> HIDE DEF kept, x
    <3> QED
      BY <2>3, <2>4, <2>5, <2>6
  <2> QED
    BY <2>1, <2>7
<1>4. Seq(P) \subseteq Good
  <2> HIDE DEF Good, P
  <2> QED
    BY <1>2, <1>3, SequenceInduction
<1> QED
  BY <1>4

-----------------------------------------------------------------------------
(* What a rule added changes.                                              *)

\* After a rule of one segment: it decides about the paths that start with a match.
LEMMA AddedLast ==
    ASSUME NEW h \in Nat, NEW nodes \in Seq(Plain[h + 1]), NEW g \in DOMAIN Glob, NEW a \in Decision
    PROVE  LET added == Append(Replaced(nodes, g), NodeFromSegmentPattern(g, {a}))
           IN  /\ added \in Seq(Plain[h + 1])
               /\ \A q \in Seq(Segment) \ {<<>>}, r \in Sound :
                    Search(h + 1, added, q, r).actions =
                      IF Head(q) \in Glob[g] THEN a ELSE Search(h + 1, nodes, q, r).actions
<1> DEFINE P == Plain[h + 1]
           node == NodeFromSegmentPattern(g, {a})
           kept == Replaced(nodes, g)
           added == Append(kept, node)
<1>1. h + 1 \in Nat \ {0} /\ {a} \in SUBSET Decision
  OBVIOUS
<1>2. node \in P /\ kept \in Seq(P)
  BY <1>1, NewNode, ReplacedBasics
<1>3. added \in Seq(P)
  <2> HIDE DEF P, node, kept
  <2> QED
    BY <1>2
<1>4. ASSUME NEW q \in Seq(Segment), q # <<>>, NEW r \in Sound
      PROVE  Search(h + 1, added, q, r).actions =
               IF Head(q) \in Glob[g] THEN a ELSE Search(h + 1, nodes, q, r).actions
  <2> DEFINE x == Search(h + 1, kept, q, r)
  <2>1. x \in Sound /\ r \in Result
    BY <1>1, <1>2, <1>4, SearchSound DEF Sound
  <2>2. node \in Node[h + 1] /\ kept \in Seq(Node[h + 1])
    BY <1>1, <1>2, PlainFields, PlainNodes
  <2>3. Search(h + 1, added, q, r) = NodeAction[h + 1][node][q][x]
    BY <1>1, <2>1, <2>2, SearchBasics
  <2>4. NodeAction[h + 1][node][q][x].actions = IF Head(q) \in Glob[g] THEN a ELSE x.actions
    <3> HIDE DEF x
    <3> QED
      BY <1>4, <2>1, LeafActions
  <2>5. Head(q) \notin Glob[g] => x = Search(h + 1, nodes, q, r)
    BY <1>4, ReplacedSearch
  <2> HIDE DEF x, added, node
  <2> QED
    BY <2>3, <2>4, <2>5
<1> QED
  BY <1>3, <1>4

\* A node without actions, appended where no node ends the sequence that a longer
\* rule could go into, changes no search.
LEMMA GrownSearch ==
    ASSUME NEW h \in Nat, NEW nodes \in Seq(Plain[h + 1]), NEW g \in DOMAIN Glob, g # "**"
    PROVE  LET grown == IF EndsWith(nodes, g) THEN nodes
                        ELSE Append(nodes, NodeFromSegmentPattern(g, {}))
           IN  /\ grown \in Seq(Plain[h + 1]) /\ grown # <<>> /\ grown[Len(grown)].pattern = g
               /\ \A q \in Seq(Segment) \ {<<>>}, r \in Sound :
                    Search(h + 1, grown, q, r) = Search(h + 1, nodes, q, r)
<1> DEFINE P == Plain[h + 1]
           node == NodeFromSegmentPattern(g, {})
           more == Append(nodes, node)
<1>1. h + 1 \in Nat \ {0} /\ {} \in SUBSET Decision
  OBVIOUS
<1>2. node \in P /\ node.pattern = g
  BY <1>1, NewNode
<1>3. more \in Seq(P) /\ more # <<>> /\ more[Len(more)].pattern = g
  <2>1. nodes \in Seq(P)
    OBVIOUS
  <2> HIDE DEF P, node
  <2> QED
    BY <1>2, <2>1
<1>4. ASSUME NEW q \in Seq(Segment), q # <<>>, NEW r \in Sound
      PROVE  Search(h + 1, more, q, r) = Search(h + 1, nodes, q, r)
  <2> DEFINE x == Search(h + 1, nodes, q, r)
  <2>1. x \in Sound /\ r \in Result
    BY <1>1, <1>4, SearchSound DEF Sound
  <2>2. node \in Node[h + 1] /\ nodes \in Seq(Node[h + 1])
    BY <1>1, <1>2, PlainFields, PlainNodes
  <2>3. Search(h + 1, more, q, r) = NodeAction[h + 1][node][q][x]
    BY <1>1, <2>1, <2>2, SearchBasics
  <2>4. \A a \in Decision : NodeAction[h + 1][node][q][x] = x
    BY <1>4, <2>1, LeafActions
  <2>5. \E a : a \in Decision
    <3>1. [base |-> "keep", user |-> "keep"] \in Decision
      BY DEF Decision
    <3> QED
      BY <3>1
  <2> QED
    BY <2>3, <2>4, <2>5
<1>5. EndsWith(nodes, g) => nodes # <<>> /\ nodes[Len(nodes)].pattern = g
  BY DEF EndsWith, Last
<1> HIDE DEF more
<1> QED
  BY <1>3, <1>4, <1>5 DEF more

\* What adding the rest of a rule does to the children of a node, "below" being
\* what does it.
AddsRest(below, h, rest, a) ==
    \A nodes \in Seq(Plain[h]) :
        /\ below[nodes][rest][a] \in Seq(Plain[h])
        /\ \A q \in Seq(Segment) \ {<<>>}, r \in Sound :
             Search(h, below[nodes][rest][a], q, r).actions =
               IF Fits(rest, q) THEN a ELSE Search(h, nodes, q, r).actions

WithRest(node, below, rest, a) == [node EXCEPT !.children = below[@][rest][a]]

\* One node that the rest of a rule went into.
LEMMA WithRestSearch ==
    ASSUME NEW h \in Nat, NEW node \in Plain[h + 1], node.pattern # "**",
           NEW below, NEW rest, NEW a \in Decision, AddsRest(below, h, rest, a)
    PROVE  /\ WithRest(node, below, rest, a) \in Plain[h + 1]
           /\ \A q \in Seq(Segment) \ {<<>>}, x, y \in Sound :
                LET result == NodeAction[h + 1][WithRest(node, below, rest, a)][q][x]
                IN  /\ /\ Head(q) \in Glob[node.pattern] /\ Len(q) # 1 /\ Fits(rest, Tail(q))
                       => result.actions = a
                    /\ /\ ~(/\ Head(q) \in Glob[node.pattern] /\ Len(q) # 1 /\ Fits(rest, Tail(q)))
                       /\ x.actions = y.actions
                       => result.actions = NodeAction[h + 1][node][q][y].actions
<1> DEFINE new == WithRest(node, below, rest, a)
           children == below[node.children][rest][a]
<1>1. h + 1 \in Nat /\ h + 1 # 0 /\ (h + 1) - 1 = h
  OBVIOUS
<1>2. /\ Node[h + 1] = [multi : BOOLEAN, pattern : DOMAIN Glob, actions : SUBSET Decision, children : Seq(Node[h])]
      /\ Plain[h + 1] = {n \in Node[h + 1] : /\ n.children \in Seq(Plain[h])
                                             /\ n.multi => n.pattern = "**" /\ n.children = <<>>}
  BY <1>1, NodeDef, PlainDef
<1>3. /\ node \in Node[h + 1] /\ node.children \in Seq(Plain[h]) /\ ~node.multi
      /\ children \in Seq(Plain[h]) /\ children \in Seq(Node[h])
  BY PlainFields, PlainNodes DEF AddsRest
<1>4. /\ new \in Node[h + 1] /\ new.multi = node.multi /\ new.pattern = node.pattern
      /\ new.actions = node.actions /\ new.children = children
  <2> DEFINE N == Node[h]
  <2> HIDE DEF children, N
  <2>1. new = [node EXCEPT !.children = children]
    BY DEF WithRest, children
  <2>2. node \in [multi : BOOLEAN, pattern : DOMAIN Glob, actions : SUBSET Decision, children : Seq(N)]
    BY <1>2, <1>3 DEF N
  <2>3. children \in Seq(N)
    BY <1>3 DEF N
  <2> HIDE DEF new
  <2>4. /\ new \in [multi : BOOLEAN, pattern : DOMAIN Glob, actions : SUBSET Decision, children : Seq(N)]
        /\ new.multi = node.multi /\ new.pattern = node.pattern
        /\ new.actions = node.actions /\ new.children = children
    BY <2>1, <2>2, <2>3
  <2> QED
    BY <1>2, <2>4 DEF N
<1> HIDE DEF new, children
<1>5. new \in Plain[h + 1]
  BY <1>2, <1>3, <1>4
<1>6. ASSUME NEW q \in Seq(Segment), q # <<>>, NEW x \in Sound, NEW y \in Sound
      PROVE  /\ /\ Head(q) \in Glob[node.pattern] /\ Len(q) # 1 /\ Fits(rest, Tail(q))
                => NodeAction[h + 1][new][q][x].actions = a
             /\ /\ ~(/\ Head(q) \in Glob[node.pattern] /\ Len(q) # 1 /\ Fits(rest, Tail(q)))
                /\ x.actions = y.actions
                => NodeAction[h + 1][new][q][x].actions = NodeAction[h + 1][node][q][y].actions
  <2> DEFINE own(r) == Overwritten(r, node)
             deeper(r, c) == [own(r) EXCEPT !.descend = @ \/ c # <<>>]
             search(c, r) == Search(h, c, Tail(q), own(r))
  <2>1. \A r : Overwritten(r, new) = Overwritten(r, node)
    BY <1>4 DEF Overwritten
  <2>2. \A r \in Sound : /\ own(r) \in Sound /\ own(r) \in Result
    <3> SUFFICES ASSUME NEW r \in Sound
                 PROVE  own(r) \in Sound /\ own(r) \in Result
      OBVIOUS
    <3>1. r \in Result /\ ~r.panic
      BY DEF Sound
    <3>2. own(r) \in Result /\ own(r).panic = r.panic
      BY <1>3, <3>1, OverwrittenType
    <3> HIDE DEF own
    <3> QED
      BY <3>1, <3>2 DEF Sound
  <2>3. x.actions = y.actions => own(x).actions = own(y).actions
    <3> DEFINE said == CHOOSE d \in node.actions : TRUE
    <3>1. x \in Result /\ y \in Result
      BY DEF Sound
    <3>2. /\ own(x).actions = IF node.actions = {} THEN x.actions ELSE said
          /\ own(y).actions = IF node.actions = {} THEN y.actions ELSE said
      BY <1>3, <3>1, OverwrittenType
    <3> HIDE DEF own, said
    <3> QED
      BY <3>2
  <2>4. NodeAction[h + 1][new][q][x] =
          IF Head(q) \notin Glob[node.pattern] THEN x
          ELSE IF Len(q) = 1 THEN deeper(x, children) ELSE search(children, x)
    <3>1. NodeAction[h + 1][new][q][x] =
            IF new.multi THEN Overwritten(x, new)
            ELSE IF Head(q) \notin Glob[new.pattern] THEN x
            ELSE IF Len(q) = 1
            THEN [Overwritten(x, new) EXCEPT !.descend = @ \/ new.children # <<>>]
            ELSE Search(h, new.children, Tail(q), Overwritten(x, new))
      BY <1>5, <1>6, NodeSearch
    <3> QED
      BY <1>3, <1>4, <2>1, <3>1
  <2>5. NodeAction[h + 1][node][q][y] =
          IF Head(q) \notin Glob[node.pattern] THEN y
          ELSE IF Len(q) = 1 THEN deeper(y, node.children) ELSE search(node.children, y)
    <3>1. NodeAction[h + 1][node][q][y] =
            IF node.multi THEN Overwritten(y, node)
            ELSE IF Head(q) \notin Glob[node.pattern] THEN y
            ELSE IF Len(q) = 1
            THEN [Overwritten(y, node) EXCEPT !.descend = @ \/ node.children # <<>>]
            ELSE Search(h, node.children, Tail(q), Overwritten(y, node))
      BY <1>6, NodeSearch
    <3> QED
      BY <1>3, <3>1
  <2>6. \A r \in Sound : \A c : deeper(r, c).actions = own(r).actions
    <3> SUFFICES ASSUME NEW r \in Sound, NEW c
                 PROVE  deeper(r, c).actions = own(r).actions
      OBVIOUS
    <3>1. own(r) \in Result
      BY <2>2
    <3> HIDE DEF own
    <3> QED
      BY <3>1 DEF Result
  <2>7. ASSUME Len(q) # 1
        PROVE  search(children, x).actions =
                 IF Fits(rest, Tail(q)) THEN a ELSE search(node.children, x).actions
    <3>1. Tail(q) \in Seq(Segment) \ {<<>>} /\ own(x) \in Sound
      BY <1>6, <2>2, <2>7, TailLonger
    <3> QED
      BY <1>3, <3>1 DEF AddsRest, children
  <2>8. ASSUME Len(q) # 1, x.actions = y.actions
        PROVE  search(node.children, x).actions = search(node.children, y).actions
    <3>1. Tail(q) \in Seq(Segment) /\ Tail(q) # <<>> /\ own(x) \in Sound /\ own(y) \in Sound
          /\ own(x).actions = own(y).actions
      BY <1>6, <2>2, <2>3, <2>8, TailLonger
    <3> HIDE DEF own
    <3> QED
      BY <1>3, <3>1, SameFromSearch
  <2> HIDE DEF deeper, search, own
  <2> QED
    BY <2>3, <2>4, <2>5, <2>6, <2>7, <2>8
<1> QED
  BY <1>5, <1>6 DEF new

Changed(nodes, g, below, rest, a) ==
    [i \in DOMAIN nodes |-> IF nodes[i].pattern = g THEN WithRest(nodes[i], below, rest, a) ELSE nodes[i]]

\* The rest of a rule went into every node with its first segment, of which the
\* last node is one.
LEMMA ChangedSearch ==
    ASSUME NEW h \in Nat, NEW nodes \in Seq(Plain[h + 1]), nodes # <<>>, NEW g, g # "**",
           nodes[Len(nodes)].pattern = g,
           NEW below, NEW rest, NEW a \in Decision, AddsRest(below, h, rest, a)
    PROVE  /\ Changed(nodes, g, below, rest, a) \in Seq(Plain[h + 1])
           /\ \A q \in Seq(Segment) \ {<<>>}, r \in Sound :
                Search(h + 1, Changed(nodes, g, below, rest, a), q, r).actions =
                  IF Head(q) \in Glob[g] /\ Len(q) # 1 /\ Fits(rest, Tail(q)) THEN a
                  ELSE Search(h + 1, nodes, q, r).actions
<1> DEFINE P == Plain[h + 1]
           n == Len(nodes)
           changed == Changed(nodes, g, below, rest, a)
           match(q) == Head(q) \in Glob[g] /\ Len(q) # 1 /\ Fits(rest, Tail(q))
<1>1. h + 1 \in Nat /\ n \in Nat /\ n \in 1 .. n /\ DOMAIN nodes = 1 .. n /\ \A i \in 1 .. n : nodes[i] \in P
  OBVIOUS
<1>2. \A i \in 1 .. n : nodes[i].pattern = g => WithRest(nodes[i], below, rest, a) \in P
  BY <1>1, WithRestSearch
<1>3. changed \in Seq(P) /\ Len(changed) = n /\ changed # <<>>
      /\ \A i \in 1 .. n : changed[i] = IF nodes[i].pattern = g
                                        THEN WithRest(nodes[i], below, rest, a) ELSE nodes[i]
  <2> HIDE DEF P, n
  <2>1. changed \in [1 .. n -> P]
    BY <1>1, <1>2 DEF Changed
  <2>2. changed \in Seq(P) /\ Len(changed) = n
    BY <1>1, <2>1
  <2>3. changed # <<>>
    <3>1. Len(<<>>) = 0 /\ n # 0
      BY <1>1
    <3> HIDE DEF changed
    <3> QED
      BY <2>2, <3>1
  <2> QED
    BY <1>1, <2>2, <2>3 DEF Changed
<1>4. nodes \in Seq(Node[h + 1]) /\ changed \in Seq(Node[h + 1])
  BY <1>1, <1>3, PlainNodes
<1> HIDE DEF changed
<1>5. ASSUME NEW q \in Seq(Segment), q # <<>>, NEW r \in Sound, match(q)
      PROVE  Search(h + 1, changed, q, r).actions = a
  <2>1. PICK x \in Sound : Search(h + 1, changed, q, r) = NodeAction[h + 1][changed[n]][q][x]
    <3>1. \E x \in Sound : Search(h + 1, changed, q, r) = NodeAction[h + 1][changed[Len(changed)]][q][x]
      BY <1>1, <1>3, <1>5, SearchLast
    <3>2. Len(changed) = n
      BY <1>3
    <3> QED
      BY Zenon, <3>1, <3>2
  <2>2. changed[n] = WithRest(nodes[n], below, rest, a)
    BY <1>1, <1>3
  <2>3. NodeAction[h + 1][WithRest(nodes[n], below, rest, a)][q][x].actions = a
    <3> DEFINE node == nodes[n]
    <3>1. node \in Plain[h + 1] /\ node.pattern = g /\ q \in Seq(Segment) \ {<<>>}
      BY <1>1, <1>5
    <3> HIDE DEF node
    <3>2. NodeAction[h + 1][WithRest(node, below, rest, a)][q][x].actions = a
      BY <1>5, <3>1, WithRestSearch
    <3> QED
      BY <3>2 DEF node
  <2> QED
    BY <2>1, <2>2, <2>3
<1>6. ASSUME NEW q \in Seq(Segment), q # <<>>, NEW r \in Sound, ~match(q)
      PROVE  Search(h + 1, changed, q, r).actions = Search(h + 1, nodes, q, r).actions
  <2>1. ASSUME NEW k \in 1 .. n, NEW x, NEW y, <<x, y>> \in SameActions
        PROVE  <<NodeAction[h + 1][changed[k]][q][x], NodeAction[h + 1][nodes[k]][q][y]>> \in SameActions
    <3> DEFINE node == nodes[k]
    <3>1. node \in Plain[h + 1] /\ q \in Seq(Segment) \ {<<>>} /\ x \in Sound /\ y \in Sound
          /\ x.actions = y.actions
      BY <1>1, <1>6, <2>1 DEF SameActions
    <3>2. changed[k] = IF node.pattern = g THEN WithRest(node, below, rest, a) ELSE node
      BY <1>3
    <3> HIDE DEF node
    <3>3. CASE node.pattern # g
      <4>1. <<NodeAction[h + 1][node][q][x], NodeAction[h + 1][node][q][y]>> \in SameActions
        BY <1>1, <2>1, <3>1, SameFromNode
      <4> QED
        BY <3>2, <3>3, <4>1 DEF node
    <3>4. CASE node.pattern = g
      <4> DEFINE new == WithRest(node, below, rest, a)
      <4>1. /\ new \in Plain[h + 1]
            /\ NodeAction[h + 1][new][q][x].actions = NodeAction[h + 1][node][q][y].actions
        BY <1>6, <3>1, <3>4, WithRestSearch
      <4>2. \A m \in Plain[h + 1], z \in Sound : NodeAction[h + 1][m][q][z] \in Sound
        <5> SUFFICES ASSUME NEW m \in Plain[h + 1], NEW z \in Sound
                     PROVE  NodeAction[h + 1][m][q][z] \in Sound
          OBVIOUS
        <5>1. <<z, z>> \in SameActions
          BY DEF SameActions
        <5>2. <<NodeAction[h + 1][m][q][z], NodeAction[h + 1][m][q][z]>> \in SameActions
          BY <1>1, <3>1, <5>1, SameFromNode
        <5> QED
          BY <5>2 DEF SameActions
      <4> HIDE DEF new
      <4>3. <<NodeAction[h + 1][new][q][x], NodeAction[h + 1][node][q][y]>> \in SameActions
        BY <3>1, <4>1, <4>2 DEF SameActions
      <4> QED
        BY <3>2, <3>4, <4>3 DEF node, new
    <3> QED
      BY <3>3, <3>4
  <2>2. <<r, r>> \in SameActions
    BY DEF SameActions
  <2> HIDE DEF P, n, match
  <2>3. \A k \in 1 .. Len(changed) : \A x, y : <<x, y>> \in SameActions =>
          <<NodeAction[h + 1][changed[k]][q][x], NodeAction[h + 1][nodes[k]][q][y]>> \in SameActions
    BY <1>3, <2>1
  <2>4. <<Search(h + 1, changed, q, r), Search(h + 1, nodes, q, r)>> \in SameActions
    <3>1. Len(changed) = Len(nodes)
      BY <1>3 DEF n
    <3> QED
      BY <1>1, <1>4, <2>2, <2>3, <3>1, SearchRelated
  <2> QED
    BY <2>4 DEF SameActions
<1> SUFFICES /\ changed \in Seq(Plain[h + 1])
             /\ \A q \in Seq(Segment) \ {<<>>}, r \in Sound :
                  Search(h + 1, changed, q, r).actions =
                    IF match(q) THEN a ELSE Search(h + 1, nodes, q, r).actions
  BY DEF changed
<1> HIDE DEF match
<1> QED
  BY <1>3, <1>5, <1>6

\* A rule with a "**" nowhere but at its end, added to plain nodes, leaves plain
\* nodes, in which a search finds the rule for the paths that it fits and what it
\* found before for every other path.
LEMMA AddedSearch ==
    \A h \in Nat : \A nodes \in Seq(Plain[h]), pattern \in Patterns(h), a \in Decision :
        Trailing(pattern) =>
          /\ TraverseAdd[h][nodes][pattern][a] \in Seq(Plain[h])
          /\ \A q \in Seq(Segment) \ {<<>>}, r \in Sound :
               Search(h, TraverseAdd[h][nodes][pattern][a], q, r).actions =
                 IF Fits(pattern, q) THEN a ELSE Search(h, nodes, q, r).actions
<1> DEFINE Adds(h, nodes, pattern, a) ==
              /\ TraverseAdd[h][nodes][pattern][a] \in Seq(Plain[h])
              /\ \A q \in Seq(Segment) \ {<<>>}, r \in Sound :
                   Search(h, TraverseAdd[h][nodes][pattern][a], q, r).actions =
                     IF Fits(pattern, q) THEN a ELSE Search(h, nodes, q, r).actions
           Good == {h \in Nat : \A nodes \in Seq(Plain[h]), pattern \in Patterns(h), a \in Decision :
                      Trailing(pattern) => Adds(h, nodes, pattern, a)}
<1>1. 0 \in Good
  BY DEF Patterns
<1>2. ASSUME NEW h \in Nat, h \in Good
      PROVE  h + 1 \in Good
  <2> SUFFICES ASSUME NEW nodes \in Seq(Plain[h + 1]), NEW pattern \in Patterns(h + 1), NEW a \in Decision,
                      Trailing(pattern)
               PROVE  Adds(h + 1, nodes, pattern, a)
    BY <1>2
  <2> DEFINE g == Head(pattern)
             rest == Tail(pattern)
             below == TraverseAdd[h]
             added == TraverseAdd[h + 1][nodes][pattern][a]
             grown == IF EndsWith(nodes, g) THEN nodes ELSE Append(nodes, NodeFromSegmentPattern(g, {}))
             one == Append(Replaced(nodes, g), NodeFromSegmentPattern(g, {a}))
             more == Changed(grown, g, below, rest, a)
  <2>1. /\ pattern \in Seq(DOMAIN Glob) /\ pattern # <<>> /\ g \in DOMAIN Glob
        /\ Len(pattern) # 1 => rest \in Patterns(h) /\ Trailing(rest) /\ g # "**"
    BY RestOfPattern
  <2>2. added = IF Len(pattern) = 1 THEN one ELSE more
    <3>1. h + 1 \in Nat /\ (h + 1) - 1 = h /\ nodes \in Seq(Node[h + 1])
      BY PlainNodes
    <3>2. added = AddedTo(nodes, pattern, a, TraverseAdd[h])
      BY <3>1, TraverseAddDef
    <3>3. AddedTo(nodes, pattern, a, TraverseAdd[h]) = IF Len(pattern) = 1 THEN one ELSE more
      BY Zenon DEF AddedTo, Changed, WithRest
    <3> QED
      BY <3>2, <3>3
  <2>3. ASSUME Len(pattern) = 1
        PROVE  Adds(h + 1, nodes, pattern, a)
    <3>1. /\ one \in Seq(Plain[h + 1])
          /\ \A q \in Seq(Segment) \ {<<>>}, r \in Sound :
               Search(h + 1, one, q, r).actions =
                 IF Head(q) \in Glob[g] THEN a ELSE Search(h + 1, nodes, q, r).actions
      BY <2>1, AddedLast
    <3>2. \A q \in Seq(Segment) \ {<<>>} : Fits(pattern, q) <=> Head(q) \in Glob[g]
      BY <2>1, <2>3, FitsHead
    <3>3. added = one
      BY <2>2, <2>3
    <3> HIDE DEF one, g
    <3> QED
      BY <3>1, <3>2, <3>3
  <2>4. ASSUME Len(pattern) # 1
        PROVE  Adds(h + 1, nodes, pattern, a)
    <3>1. AddsRest(below, h, rest, a)
      BY <1>2, <2>1, <2>4 DEF AddsRest
    <3>2. /\ grown \in Seq(Plain[h + 1]) /\ grown # <<>> /\ grown[Len(grown)].pattern = g
          /\ \A q \in Seq(Segment) \ {<<>>}, r \in Sound :
               Search(h + 1, grown, q, r) = Search(h + 1, nodes, q, r)
      BY <2>1, <2>4, GrownSearch
    <3>3. g # "**"
      BY <2>1, <2>4
    <3> HIDE DEF g, rest, below, grown, Good
    <3>4. /\ more \in Seq(Plain[h + 1])
          /\ \A q \in Seq(Segment) \ {<<>>}, r \in Sound :
               Search(h + 1, more, q, r).actions =
                 IF Head(q) \in Glob[g] /\ Len(q) # 1 /\ Fits(rest, Tail(q)) THEN a
                 ELSE Search(h + 1, grown, q, r).actions
      <4> DEFINE Concluded(s) ==
                   /\ Changed(s, g, below, rest, a) \in Seq(Plain[h + 1])
                   /\ \A q \in Seq(Segment) \ {<<>>}, r \in Sound :
                        Search(h + 1, Changed(s, g, below, rest, a), q, r).actions =
                          IF Head(q) \in Glob[g] /\ Len(q) # 1 /\ Fits(rest, Tail(q)) THEN a
                          ELSE Search(h + 1, s, q, r).actions
      <4>1. \A s \in Seq(Plain[h + 1]) : s # <<>> /\ s[Len(s)].pattern = g => Concluded(s)
        BY <3>1, <3>3, ChangedSearch
      <4> HIDE DEF Concluded
      <4>2. Concluded(grown)
        BY <3>2, <4>1
      <4> QED
        BY <4>2 DEF Concluded
    <3>5. \A q \in Seq(Segment) \ {<<>>} :
             Fits(pattern, q) <=> Head(q) \in Glob[g] /\ Len(q) # 1 /\ Fits(rest, Tail(q))
      BY <2>1, <2>4, FitsHead DEF g, rest
    <3>6. added = more
      BY <2>2, <2>4
    <3> HIDE DEF more, added
    <3> QED
      BY <3>2, <3>4, <3>5, <3>6 DEF added
  <2> HIDE DEF Adds
  <2> QED
    BY <2>3, <2>4
<1>3. Nat \subseteq Good
  <2> HIDE DEF Good
  <2> QED
    BY <1>1, <1>2, Induction
<1> QED
  BY <1>3

-----------------------------------------------------------------------------
(* The graph and the rules.                                                *)

Rules == [pattern : Seq(DOMAIN Glob), actions : Decision]

\* The rule a .keep file starts from matches every path that has a segment.
LEMMA DefaultMatches ==
    /\ DefaultRule \in Rules /\ DefaultRule.actions = Actions("delete", "keep")
    /\ \A path \in Seq(Segment) \ {<<>>} : MatchesPath(DefaultRule.pattern, path)
<1> DEFINE pattern == <<"**">>
<1>1. "**" \in DOMAIN Glob /\ Glob["**"] = Segment
  BY GlobAssumption
<1>2. pattern \in Seq(DOMAIN Glob) /\ Len(pattern) = 1 /\ pattern # <<>> /\ pattern[1] = "**"
  BY <1>1
<1>3. Actions("delete", "keep") \in Decision
  BY DEF Actions, Decision
<1> HIDE DEF pattern
<1>4. DefaultRule = [pattern |-> pattern, actions |-> Actions("delete", "keep")]
  BY DEF DefaultRule, pattern
<1>5. ASSUME NEW path \in Seq(Segment), path # <<>>
      PROVE  MatchesPath(pattern, path)
  <2>1. Trailing(pattern)
    BY <1>2 DEF Trailing
  <2>2. Len(path) \in Nat \ {0} /\ path[1] \in Segment
    BY <1>5, TailProperties
  <2>3. Fits(pattern, path)
    <3>1. 1 <= Len(path)
      BY <2>2
    <3>2. \A i \in 1 .. 1 : i = 1
      OBVIOUS
    <3> QED
      BY <1>1, <1>2, <2>2, <3>1, <3>2 DEF Fits
  <2> QED
    BY <1>2, <2>1, <2>3, MatchesTrailing
<1> QED
  BY <1>2, <1>3, <1>4, <1>5 DEF Rules

\* Which rule decides before there is any, and after one more.
LEMMA LastRuleAppend ==
    ASSUME NEW rules \in Seq(Rules), NEW path \in Seq(Segment), path # <<>>
    PROVE  /\ LastRule(<<>>, path) = DefaultRule
           /\ LastRule(rules, path) \in Rules
           /\ \A rule \in Rules : LastRule(Append(rules, rule), path) =
                IF MatchesPath(rule.pattern, path) THEN rule ELSE LastRule(rules, path)
<1> DEFINE Deciding(s) == {i \in 1 .. Len(s) : MatchesPath(s[i].pattern, path)}
           All(s) == <<DefaultRule>> \o s
<1>1. ASSUME NEW s
      PROVE  LastRule(s, path) = LET I == Deciding(All(s)) IN All(s)[IF I # {} THEN Max(I) ELSE 0]
  BY Zenon DEF LastRule, SelectLastInSeq
<1>2. ASSUME NEW s \in Seq(Rules)
      PROVE  /\ All(s) \in Seq(Rules) /\ Len(All(s)) = Len(s) + 1 /\ Len(s) \in Nat
             /\ All(s)[1] = DefaultRule /\ 1 \in Deciding(All(s))
  <2>1. <<DefaultRule>> \in Seq(Rules) /\ Len(<<DefaultRule>>) = 1 /\ <<DefaultRule>>[1] = DefaultRule
    BY DefaultMatches
  <2>2. /\ All(s) \in Seq(Rules) /\ Len(All(s)) = Len(s) + 1 /\ Len(s) \in Nat /\ All(s)[1] = DefaultRule
    <3> DEFINE d == <<DefaultRule>>
    <3> HIDE DEF d
    <3>1. d \in Seq(Rules) /\ Len(d) = 1 /\ d[1] = DefaultRule
      BY <2>1 DEF d
    <3>2. d \o s \in Seq(Rules) /\ Len(d \o s) = Len(d) + Len(s) /\ Len(s) \in Nat
          /\ \A i \in 1 .. Len(d) : (d \o s)[i] = d[i]
      <4>1. \A u, v \in Seq(Rules) : u \o v \in Seq(Rules) /\ Len(u \o v) = Len(u) + Len(v) /\ Len(v) \in Nat
                                     /\ \A i \in 1 .. Len(u) : (u \o v)[i] = u[i]
        BY ConcatProperties
      <4> QED
        BY <3>1, <4>1
    <3>3. 1 \in 1 .. Len(d)
      BY <3>1
    <3>4. 1 + Len(s) = Len(s) + 1
      BY <3>2
    <3> QED
      BY <3>1, <3>2, <3>3, <3>4 DEF d
  <2> HIDE DEF All
  <2>3. 1 \in 1 .. Len(All(s))
    BY <2>2
  <2> QED
    BY <2>2, <2>3, DefaultMatches
<1>3. ASSUME NEW s \in Seq(Rules)
      PROVE  /\ Max(Deciding(All(s))) \in Deciding(All(s))
             /\ \A i \in Deciding(All(s)) : i <= Max(Deciding(All(s)))
             /\ LastRule(s, path) = All(s)[Max(Deciding(All(s)))]
  <2> DEFINE I == Deciding(All(s))
  <2>1. I \subseteq 1 .. Len(All(s)) /\ I # {} /\ Len(All(s)) \in Nat
    BY <1>2
  <2>2. LastRule(s, path) = All(s)[IF I # {} THEN Max(I) ELSE 0]
    BY <1>1
  <2> HIDE DEF I, All
  <2>3. Max(I) \in I /\ (\A i \in I : i <= Max(I)) /\ LastRule(s, path) = All(s)[Max(I)]
    BY <2>1, <2>2, MaxExists
  <2> QED
    BY <2>3 DEF I
<1> HIDE DEF All
<1>4. ASSUME NEW s \in Seq(Rules)
      PROVE  LastRule(s, path) \in Rules
  <2> DEFINE n == Max(Deciding(All(s)))
  <2>1. n \in 1 .. Len(All(s)) /\ All(s) \in Seq(Rules) /\ LastRule(s, path) = All(s)[n]
    BY <1>2, <1>3
  <2> HIDE DEF n
  <2> QED
    BY <2>1
<1>5. LastRule(<<>>, path) = DefaultRule
  <2>1. <<>> \in Seq(Rules) /\ Len(<<>>) = 0
    OBVIOUS
  <2>2. Len(All(<<>>)) = 1 /\ All(<<>>)[1] = DefaultRule
    <3>1. Len(All(<<>>)) = Len(<<>>) + 1 /\ All(<<>>)[1] = DefaultRule
      BY <1>2, <2>1
    <3> QED
      BY <2>1, <3>1
  <2>3. Max(Deciding(All(<<>>))) \in 1 .. 1 /\ LastRule(<<>>, path) = All(<<>>)[Max(Deciding(All(<<>>)))]
    BY <1>3, <2>1, <2>2
  <2>4. Max(Deciding(All(<<>>))) = 1
    BY <2>3
  <2> QED
    BY <2>2, <2>3, <2>4
<1>6. ASSUME NEW rule \in Rules
      PROVE  LastRule(Append(rules, rule), path) =
               IF MatchesPath(rule.pattern, path) THEN rule ELSE LastRule(rules, path)
  <2> DEFINE more == Append(rules, rule)
             n == Len(rules)
             I == Deciding(All(rules))
             J == Deciding(All(more))
  <2>1. more \in Seq(Rules) /\ Len(more) = n + 1
    OBVIOUS
  <2>2. All(more) = Append(All(rules), rule)
    BY DefaultMatches DEF All
  <2>3. /\ All(rules) \in Seq(Rules) /\ Len(All(rules)) = n + 1 /\ n \in Nat /\ 1 \in I
    BY <1>2
  <2>4. /\ Len(All(more)) = n + 2 /\ All(more)[n + 2] = rule
        /\ \A i \in 1 .. n + 1 : All(more)[i] = All(rules)[i]
    <3>1. /\ Len(Append(All(rules), rule)) = Len(All(rules)) + 1
          /\ Append(All(rules), rule)[Len(All(rules)) + 1] = rule
          /\ \A i \in 1 .. Len(All(rules)) : Append(All(rules), rule)[i] = All(rules)[i]
      BY <2>3, AppendProperties
    <3>2. (n + 1) + 1 = n + 2
      BY <2>3
    <3> QED
      BY <2>2, <2>3, <3>1, <3>2
  <2>5. Max(I) \in I /\ (\A i \in I : i <= Max(I)) /\ LastRule(rules, path) = All(rules)[Max(I)]
    BY <1>3
  <2>6. Max(J) \in J /\ (\A i \in J : i <= Max(J)) /\ LastRule(more, path) = All(more)[Max(J)]
    BY <1>3, <2>1
  <2>7. \A i \in 1 .. n + 2 : i \in 1 .. n + 1 \/ i = n + 2
    BY <2>3
  <2>8. I = J \ {n + 2} /\ I \subseteq 1 .. n + 1 /\ J \subseteq 1 .. n + 2
        /\ (n + 2 \in J <=> MatchesPath(rule.pattern, path))
    <3>1. n + 2 \in 1 .. n + 2 /\ 1 .. n + 1 \subseteq 1 .. n + 2 /\ n + 2 \notin 1 .. n + 1
      BY <2>3
    <3> HIDE DEF n, more
    <3> QED
      BY <2>3, <2>4, <2>7, <3>1
  <2> HIDE DEF I, J
  <2>9. ASSUME n + 2 \in J
        PROVE  Max(J) = n + 2
    BY <2>3, <2>6, <2>8, <2>9
  <2>10. ASSUME n + 2 \notin J
         PROVE  Max(J) = Max(I) /\ Max(I) \in 1 .. n + 1
    <3>1. I = J
      BY <2>8, <2>10
    <3> QED
      BY <2>5, <2>8, <3>1
  <2> HIDE DEF more
  <2>11. LastRule(more, path) = IF MatchesPath(rule.pattern, path) THEN rule ELSE LastRule(rules, path)
    BY <2>4, <2>5, <2>6, <2>8, <2>9, <2>10
  <2> QED
    BY <2>11 DEF more
<1> QED
  BY <1>4, <1>5, <1>6

\* A search in the graph finds, for every path, what the last rule that matches says.
Represents(graph, rules) ==
    \A q \in Seq(Segment) \ {<<>>}, r \in Sound :
        Search(MaxLength, graph, q, r).actions = LastRule(rules, q).actions

\* The graph that a .keep file starts from.
LEMMA NewGraphRepresents ==
    NewGraph \in Seq(Plain[MaxLength]) /\ Represents(NewGraph, <<>>)
<1> DEFINE h == MaxLength - 1
           a == Actions("delete", "keep")
           node == SingleSegmentNode("**", {a})
<1>1. h \in Nat /\ MaxLength = h + 1 /\ MaxLength \in Nat /\ MaxLength # 0
  BY LengthAssumption
<1>2. a \in Decision /\ "**" \in DOMAIN Glob /\ Glob["**"] = Segment
  BY GlobAssumption DEF Actions, Decision
<1>3. /\ Node[MaxLength] = [multi : BOOLEAN, pattern : DOMAIN Glob, actions : SUBSET Decision, children : Seq(Node[h])]
      /\ Plain[MaxLength] = {n \in Node[MaxLength] : /\ n.children \in Seq(Plain[h])
                                                     /\ n.multi => n.pattern = "**" /\ n.children = <<>>}
  BY <1>1, NodeDef, PlainDef
<1> HIDE DEF h
<1>4. node = [multi |-> FALSE, pattern |-> "**", actions |-> {a}, children |-> <<>>]
  BY DEF SingleSegmentNode
<1> HIDE DEF node, a
<1>5. node \in Plain[MaxLength] /\ node \in Node[MaxLength]
  <2>1. <<>> \in Seq(Node[h]) /\ <<>> \in Seq(Plain[h])
    OBVIOUS
  <2>2. node \in Node[MaxLength]
    BY <1>2, <1>3, <1>4, <2>1
  <2> QED
    BY <1>3, <1>4, <2>1, <2>2
<1>6. NewGraph = <<node>> /\ NewGraph = Append(<<>>, node) /\ NewGraph \in Seq(Plain[MaxLength])
  <2>1. NewGraph = <<node>>
    BY DEF NewGraph, node, a
  <2>2. <<node>> = Append(<<>>, node)
    OBVIOUS
  <2>3. <<node>> \in Seq(Plain[MaxLength])
    <3> DEFINE P == Plain[MaxLength]
    <3>1. node \in P
      BY <1>5
    <3> HIDE DEF P
    <3>2. <<node>> \in Seq(P)
      BY <3>1
    <3> QED
      BY <3>2 DEF P
  <2> QED
    BY <2>1, <2>2, <2>3
<1>7. ASSUME NEW q \in Seq(Segment), q # <<>>, NEW r \in Sound
      PROVE  Search(MaxLength, NewGraph, q, r).actions = LastRule(<<>>, q).actions
  <2> DEFINE own == Overwritten(r, node)
  <2>1. r \in Result
    BY DEF Sound
  <2>2. Search(MaxLength, NewGraph, q, r) = NodeAction[MaxLength][node][q][r]
    <3>1. <<>> \in Seq(Node[MaxLength])
      OBVIOUS
    <3>2. Search(MaxLength, Append(<<>>, node), q, r) =
            NodeAction[MaxLength][node][q][Search(MaxLength, <<>>, q, r)]
      BY <1>1, <1>5, <2>1, <3>1, SearchBasics
    <3>3. Search(MaxLength, <<>>, q, r) = r
      BY <1>1, <2>1, SearchBasics
    <3> QED
      BY <1>6, <3>2, <3>3
  <2>3. own \in Result /\ own.actions = a
    <3>1. /\ own \in Result
          /\ own.actions = IF node.actions = {} THEN r.actions ELSE CHOOSE d \in node.actions : TRUE
      BY <1>1, <1>5, <2>1, OverwrittenType
    <3>2. node.actions = {a} /\ (CHOOSE d \in {a} : TRUE) = a
      BY <1>4
    <3> QED
      BY <3>1, <3>2
  <2>4. Head(q) \in Glob["**"] /\ node.pattern = "**" /\ ~node.multi /\ node.children = <<>>
    <3>1. Head(q) \in Segment
      BY <1>7, TailProperties
    <3> QED
      BY <1>2, <1>4, <3>1
  <2>5. Len(q) # 1 => Search(h, node.children, Tail(q), own) = own
    <3>1. ASSUME Len(q) # 1
          PROVE  Search(h, <<>>, Tail(q), own) = own
      BY <1>1, <1>7, <2>3, <3>1, SearchBasics, TailLonger
    <3> QED
      BY <2>4, <3>1
  <2>6. NodeAction[MaxLength][node][q][r] =
          IF Len(q) = 1 THEN [own EXCEPT !.descend = @ \/ node.children # <<>>]
          ELSE Search(h, node.children, Tail(q), own)
    <3>1. NodeAction[h + 1][node][q][r] =
             IF node.multi THEN own
             ELSE IF Head(q) \notin Glob[node.pattern] THEN r
             ELSE IF Len(q) = 1
             THEN [own EXCEPT !.descend = @ \/ node.children # <<>>]
             ELSE Search(h, node.children, Tail(q), own)
      BY <1>1, <1>5, <1>7, NodeSearch
    <3> HIDE DEF own
    <3> QED
      BY <1>1, <2>4, <3>1
  <2>7. [own EXCEPT !.descend = @ \/ node.children # <<>>].actions = own.actions
    <3> HIDE DEF own
    <3> QED
      BY <2>3 DEF Result
  <2>8. LastRule(<<>>, q).actions = a
    <3>1. <<>> \in Seq(Rules)
      OBVIOUS
    <3> QED
      BY <1>7, <3>1, LastRuleAppend, DefaultMatches DEF a
  <2> HIDE DEF own
  <2> QED
    BY <2>2, <2>3, <2>5, <2>6, <2>7, <2>8
<1> QED
  BY <1>6, <1>7 DEF Represents

\* One more rule in the graph.
THEOREM RuleRepresented ==
    ASSUME NEW graph \in Seq(Plain[MaxLength]), NEW rules \in Seq(Rules), Represents(graph, rules),
           NEW rule \in Rules, rule.pattern \in Patterns(MaxLength), Trailing(rule.pattern)
    PROVE  /\ TraverseAdd[MaxLength][graph][rule.pattern][rule.actions] \in Seq(Plain[MaxLength])
           /\ Represents(TraverseAdd[MaxLength][graph][rule.pattern][rule.actions], Append(rules, rule))
<1> DEFINE new == TraverseAdd[MaxLength][graph][rule.pattern][rule.actions]
<1>1. MaxLength \in Nat /\ rule.actions \in Decision /\ rule.pattern \in Seq(DOMAIN Glob)
  BY LengthAssumption DEF Rules
<1>2. /\ new \in Seq(Plain[MaxLength])
      /\ \A q \in Seq(Segment) \ {<<>>}, r \in Sound :
           Search(MaxLength, new, q, r).actions =
             IF Fits(rule.pattern, q) THEN rule.actions ELSE Search(MaxLength, graph, q, r).actions
  BY <1>1, AddedSearch
<1>3. \A q \in Seq(Segment) \ {<<>>} : MatchesPath(rule.pattern, q) <=> Fits(rule.pattern, q)
  <2>1. rule.pattern # <<>>
    <3>1. Len(rule.pattern) >= 1 /\ Len(<<>>) = 0
      BY DEF Patterns
    <3> QED
      BY <3>1
  <2> QED
    BY <1>1, <2>1, MatchesTrailing
<1>4. \A q \in Seq(Segment) \ {<<>>} :
        LastRule(Append(rules, rule), q) = IF MatchesPath(rule.pattern, q) THEN rule ELSE LastRule(rules, q)
  BY LastRuleAppend
<1> HIDE DEF new
<1>5. \A q \in Seq(Segment) \ {<<>>}, r \in Sound :
        Search(MaxLength, new, q, r).actions = LastRule(Append(rules, rule), q).actions
  BY <1>2, <1>3, <1>4 DEF Represents
<1> QED
  BY <1>2, <1>5 DEF Represents, new

\* A search that starts panicked stays so.
LEMMA SearchPanicked ==
    ASSUME NEW h \in Nat, NEW nodes \in Seq(Node[h]), NEW q \in Seq(Segment), NEW r \in Result, r.panic
    PROVE  Search(h, nodes, q, r).panic
<1> DEFINE Inv == {x \in Result : x.panic}
           n == Len(nodes)
           steps == Steps(h, nodes, q)
<1>1. n \in Nat /\ DOMAIN steps = 1 .. n /\ \A k \in 1 .. n : steps[k] = NodeAction[h][nodes[k]][q] /\ nodes[k] \in Node[h]
  BY StepsType
<1>2. \A k \in 1 .. n : \A x \in Inv : steps[k][x] \in Inv
  <2> SUFFICES ASSUME NEW k \in 1 .. n, NEW x \in Result, x.panic
               PROVE  steps[k][x] = x
    OBVIOUS
  <2> HIDE DEF n, steps
  <2>1. NodeAction[h][nodes[k]][q][x] = Visited(nodes[k], q, x, NodeAction[h - 1])
    BY <1>1, NodeActionDef
  <2>2. Visited(nodes[k], q, x, NodeAction[h - 1]) = x
    BY Zenon DEF Visited
  <2> QED
    BY <1>1, <2>1, <2>2
<1>3. r \in Inv
  OBVIOUS
<1> HIDE DEF Inv, n, steps
<1>4. InTurn(steps, r) \in Inv
  BY <1>1, <1>2, <1>3, InTurnPreserves
<1> QED
  BY <1>4 DEF Search, steps, Inv

\* What get_action makes of a graph of plain nodes.  It panics on the paths that are
\* no UTF-8 only.  For the others it finds what the last rule that matches says.
\* Unless it says to descend, the same holds for every path below.
THEOREM GetActionFinds ==
    ASSUME NEW graph \in Seq(Plain[MaxLength]), NEW rules, Represents(graph, rules),
           NEW q \in Seq(Segment), q # <<>>
    PROVE  /\ GetAction(graph, q) \in Result
           /\ GetAction(graph, q).panic <=> \E i \in DOMAIN q : q[i] \notin Unicode
           /\ ~GetAction(graph, q).panic => GetAction(graph, q).actions = LastRule(rules, q).actions
           /\ ~GetAction(graph, q).panic /\ ~GetAction(graph, q).descend =>
                \A p \in Seq(Segment) : p # <<>> /\ Above(q, p) =>
                  LastRule(rules, p).actions = LastRule(rules, q).actions
<1> DEFINE start == [actions |-> Actions("keep", "keep"), descend |-> FALSE,
                     panic |-> \E i \in DOMAIN q : q[i] \notin Unicode]
           found == Search(MaxLength, graph, q, start)
<1>1. MaxLength \in Nat
  BY LengthAssumption
<1>2. GetAction(graph, q) = found
  BY Zenon DEF GetAction, Search, Steps
<1>3. start \in Result /\ (start.panic <=> \E i \in DOMAIN q : q[i] \notin Unicode)
  <2>1. Actions("keep", "keep") \in Decision
    BY DEF Actions, Decision
  <2>2. (\E i \in DOMAIN q : q[i] \notin Unicode) \in BOOLEAN
    OBVIOUS
  <2> QED
    BY <2>1, <2>2 DEF Result
<1> HIDE DEF start
<1>4. graph \in Seq(Node[MaxLength])
  BY <1>1, PlainNodes
<1>5. found \in Result
  BY <1>1, <1>3, <1>4, SearchBasics
<1>6. start.panic => found.panic
  BY <1>1, <1>3, <1>4, SearchPanicked
<1>7. ~start.panic => start \in Sound /\ found \in Sound /\ ~found.panic
  <2>1. ASSUME ~start.panic
        PROVE  start \in Sound
    BY <1>3, <2>1 DEF Sound
  <2>2. start \in Sound => found \in Sound
    BY <1>1, SearchSound
  <2> QED
    BY <2>1, <2>2 DEF Sound
<1>8. ASSUME ~start.panic
      PROVE  found.actions = LastRule(rules, q).actions
  BY <1>7, <1>8 DEF Represents
<1>9. ASSUME ~start.panic, ~found.descend, NEW p \in Seq(Segment), p # <<>>, Above(q, p)
      PROVE  LastRule(rules, p).actions = LastRule(rules, q).actions
  <2>1. start \in Sound
    BY <1>7, <1>9
  <2>2. found.actions = Search(MaxLength, graph, p, start).actions
    BY <1>1, <1>9, <2>1, BelowFromSearch
  <2>3. Search(MaxLength, graph, p, start).actions = LastRule(rules, p).actions
    BY <1>9, <2>1 DEF Represents
  <2> QED
    BY <1>8, <1>9, <2>2, <2>3
<1> HIDE DEF found
<1> QED
  BY <1>2, <1>3, <1>5, <1>6, <1>7, <1>8, <1>9
=============================================================================
