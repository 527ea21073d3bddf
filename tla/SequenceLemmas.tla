--------------------------- MODULE SequenceLemmas ---------------------------
(***************************************************************************)
(* Facts that the proofs cite about numbers and sequences: induction and   *)
(* functions defined by it; prefixes, for lists that only grow; queues     *)
(* without duplicates, for mutexes.                                        *)
(***************************************************************************)
EXTENDS Integers, SequencesExt, WellFoundedInduction, TLAPS

-----------------------------------------------------------------------------
(* Induction.                                                              *)

\* A set with 0 and the successor of each of its numbers has all numbers: the least
\* one that it has not would be the successor of one that it has.
LEMMA Induction ==
    ASSUME NEW S, 0 \in S, \A n \in Nat : n \in S => n + 1 \in S
    PROVE  Nat \subseteq S
<1> DEFINE T == Nat \ S
           R == {ss \in Nat \X Nat : ss[1] < ss[2]}
<1> SUFFICES ASSUME T # {}
             PROVE  FALSE
  OBVIOUS
<1>1. IsWellFoundedOn(R, Nat)
  BY NatLessThanWellFounded DEF OpToRel
<1>2. PICK x \in T : \A y \in T : ~(<<y, x>> \in R)
  <2> HIDE DEF R
  <2> QED
    BY <1>1, WFMin
<1>3. x - 1 \in T
  BY <1>2
<1>4. <<x - 1, x>> \in R
  BY <1>2, <1>3
<1> QED
  BY <1>2, <1>3, <1>4

\* The same up to a bound.
LEMMA InductionUpTo ==
    ASSUME NEW m \in Nat, NEW S, 0 \in S,
           \A n \in 0 .. m - 1 : n \in S => n + 1 \in S
    PROVE  0 .. m \subseteq S
<1> DEFINE T == {n \in Nat : n <= m => n \in S}
<1>1. 0 \in T /\ \A n \in Nat : n \in T => n + 1 \in T
  OBVIOUS
<1>2. Nat \subseteq T
  <2> HIDE DEF T
  <2> QED
    BY <1>1, Induction
<1> QED
  BY <1>2

\* What can be told of sequences by looking at their last element.
LEMMA SequenceInduction ==
    ASSUME NEW S, NEW P, <<>> \in P,
           \A s \in Seq(S), e \in S : s \in P => Append(s, e) \in P
    PROVE  Seq(S) \subseteq P
<1> DEFINE T == {n \in Nat : \A s \in Seq(S) : Len(s) = n => s \in P}
<1>1. 0 \in T
  OBVIOUS
<1>2. ASSUME NEW n \in Nat, n \in T
      PROVE  n + 1 \in T
  <2> SUFFICES ASSUME NEW s \in Seq(S), Len(s) = n + 1
               PROVE  s \in P
    BY <1>2
  <2> DEFINE t == SubSeq(s, 1, n)
  <2>1. t \in Seq(S) /\ Len(t) = n /\ s[n + 1] \in S /\ s = Append(t, s[n + 1])
    OBVIOUS
  <2>2. t \in P
    BY <1>2, <2>1
  <2> QED
    BY <2>1, <2>2
<1>3. Nat \subseteq T
  <2> HIDE DEF T
  <2> QED
    BY <1>1, <1>2, Induction
<1> QED
  BY <1>3

\* A finite set of numbers has a greatest.
LEMMA MaxExists ==
    ASSUME NEW n \in Nat, NEW I, I \subseteq 1 .. n, I # {}
    PROVE  Max(I) \in I /\ \A i \in I : i <= Max(I)
<1> DEFINE P(k) == \A J \in SUBSET (1 .. k) : J # {} => \E x \in J : \A y \in J : x >= y
           T == {k \in Nat : P(k)}
<1>1. 0 \in T
  <2>1. 1 .. 0 = {}
    OBVIOUS
  <2> QED
    BY <2>1
<1>2. ASSUME NEW k \in Nat, k \in T
      PROVE  k + 1 \in T
  <2> SUFFICES ASSUME NEW J \in SUBSET (1 .. k + 1), J # {}
               PROVE  \E x \in J : \A y \in J : x >= y
    OBVIOUS
  <2>1. CASE k + 1 \in J
    BY <2>1
  <2>2. CASE k + 1 \notin J
    <3>1. J \in SUBSET (1 .. k)
      BY <2>2
    <3> QED
      BY <3>1, <1>2
  <2> QED
    BY <2>1, <2>2
<1>3. Nat \subseteq T
  <2> HIDE DEF T
  <2> QED
    BY <1>1, <1>2, Induction
<1>4. \E x \in I : \A y \in I : x >= y
  BY <1>3
<1> QED
  BY <1>4 DEF Max

\* There is a function defined by primitive recursion: its value at n, of type T[n],
\* follows from that at n - 1.
LEMMA PrimitiveRecursion ==
    ASSUME NEW T, NEW base \in T[0], NEW step,
           \A n \in Nat : \A v \in T[n] : step[n + 1][v] \in T[n + 1]
    PROVE  \E g : /\ g = [n \in Nat |-> IF n = 0 THEN base ELSE step[n][g[n - 1]]]
                  /\ \A n \in Nat : g[n] \in T[n]
<1> DEFINE Upto(n, h) ==
              /\ h[0] = base
              /\ \A i \in 1 .. n : h[i] = step[i][h[i - 1]]
           Defined == {n \in Nat : \E h : Upto(n, h)}
<1>1. 0 \in Defined
  <2>1. Upto(0, [i \in {0} |-> base])
    OBVIOUS
  <2> QED
    BY <2>1
<1>2. ASSUME NEW n \in Nat, n \in Defined
      PROVE  n + 1 \in Defined
  <2>1. PICK h : Upto(n, h)
    BY <1>2
  <2> DEFINE k == [i \in 0 .. n + 1 |-> IF i = n + 1 THEN step[n + 1][h[n]] ELSE h[i]]
  <2>2. Upto(n + 1, k)
    BY <2>1
  <2>3. n + 1 \in Nat /\ \E f : Upto(n + 1, f)
    <3> HIDE DEF k, Upto
    <3> QED
      BY <2>2
  <2> QED
    BY <2>3
<1>3. Nat \subseteq Defined
  <2> HIDE DEF Defined
  <2> QED
    BY <1>1, <1>2, Induction
<1>4. ASSUME NEW n \in Nat, NEW m \in Nat, n <= m, NEW h, NEW k, Upto(n, h), Upto(m, k)
      PROVE  h[n] = k[n]
  <2> DEFINE Same == {i \in 0 .. n : h[i] = k[i]}
  <2>1. 0 \in Same /\ \A i \in 0 .. n - 1 : i \in Same => i + 1 \in Same
    BY <1>4
  <2>2. 0 .. n \subseteq Same
    <3> HIDE DEF Same
    <3> QED
      BY <2>1, InductionUpTo
  <2> QED
    BY <2>2
<1> DEFINE H(n) == CHOOSE h : Upto(n, h)
           g == [n \in Nat |-> H(n)[n]]
<1>5. \A n \in Nat : Upto(n, H(n))
  BY <1>3
<1>6. ASSUME NEW n \in Nat
      PROVE  g[n] = IF n = 0 THEN base ELSE step[n][g[n - 1]]
  <2>1. CASE n = 0
    BY <1>5, <2>1
  <2>2. CASE n # 0
    <3>1. n - 1 \in Nat /\ n \in 1 .. n /\ n - 1 <= n
      BY <2>2
    <3>2. H(n)[n] = step[n][H(n)[n - 1]]
      BY <1>5, <3>1
    <3>3. H(n - 1)[n - 1] = H(n)[n - 1]
      <4> HIDE DEF H, Upto
      <4> QED
        BY <1>4, <1>5, <3>1
    <3> QED
      BY <2>2, <3>1, <3>2, <3>3
  <2> QED
    BY <2>1, <2>2
<1>7. g = [n \in Nat |-> IF n = 0 THEN base ELSE step[n][g[n - 1]]]
  <2> DEFINE f == [n \in Nat |-> IF n = 0 THEN base ELSE step[n][g[n - 1]]]
  <2>1. \A n \in Nat : g[n] = f[n]
    <3> HIDE DEF g
    <3> QED
      BY <1>6
  <2>2. DOMAIN g = Nat /\ DOMAIN f = Nat
    OBVIOUS
  <2>3. g = [n \in Nat |-> g[n]] /\ f = [n \in Nat |-> f[n]]
    OBVIOUS
  <2> HIDE DEF g, f
  <2>4. g = f
    BY <2>1, <2>3
  <2> QED
    BY <2>4 DEF f
<1>8. \A n \in Nat : g[n] \in T[n]
  <2> DEFINE Typed == {n \in Nat : g[n] \in T[n]}
  <2> HIDE DEF g
  <2>1. 0 \in Typed
    BY <1>6
  <2>2. \A n \in Nat : n \in Typed => n + 1 \in Typed
    BY <1>6
  <2>3. Nat \subseteq Typed
    <3> HIDE DEF Typed
    <3> QED
      BY <2>1, <2>2, Induction
  <2> QED
    BY <2>3
<1> HIDE DEF g
<1> QED
  BY <1>7, <1>8

-----------------------------------------------------------------------------
(* Prefixes.                                                               *)

\* The first n elements.
LEMMA SubSeqProperties ==
    ASSUME NEW S, NEW s \in Seq(S), NEW n \in 0..Len(s)
    PROVE  /\ SubSeq(s, 1, n) \in Seq(S)
           /\ Len(SubSeq(s, 1, n)) = n
           /\ \A i \in 1..n : SubSeq(s, 1, n)[i] = s[i]
<1>1. n \in Nat /\ n <= Len(s) /\ \A i \in 1..n : s[i] \in S
  OBVIOUS
<1> QED
  BY <1>1

\* IsPrefix, element by element.
LEMMA PrefixPointwise ==
    ASSUME NEW S, NEW s \in Seq(S), NEW t \in Seq(S)
    PROVE  IsPrefix(s, t) <=>
             Len(s) <= Len(t) /\ \A i \in 1..Len(s) : s[i] = t[i]
<1>1. ASSUME Len(s) <= Len(t)
      PROVE  SubSeq(s, 1, Len(s)) = SubSeq(t, 1, Len(s)) <=>
               \A i \in 1..Len(s) : s[i] = t[i]
  <2> DEFINE u == SubSeq(t, 1, Len(s))
  <2>1. /\ SubSeq(s, 1, Len(s)) = s
        /\ u \in Seq(S)
        /\ Len(u) = Len(s)
        /\ \A i \in 1..Len(s) : u[i] = t[i]
    BY <1>1
  <2>2. s = u <=> \A i \in 1..Len(s) : s[i] = u[i]
    BY <2>1
  <2> QED
    BY <2>1, <2>2
<1> QED
  BY <1>1 DEF IsPrefix

\* A prefix stays one when the longer sequence grows.
LEMMA PrefixAppend ==
    ASSUME NEW S, NEW s \in Seq(S), NEW t \in Seq(S), NEW e \in S,
           IsPrefix(s, t)
    PROVE  IsPrefix(s, Append(t, e))
<1>1. Append(t, e) \in Seq(S) /\ Len(Append(t, e)) = Len(t) + 1
  OBVIOUS
<1>2. \A i \in 1..Len(t) : Append(t, e)[i] = t[i]
  OBVIOUS
<1>3. Len(s) <= Len(t) /\ \A i \in 1..Len(s) : s[i] = t[i]
  BY PrefixPointwise
<1>4. Len(s) <= Len(Append(t, e)) /\ \A i \in 1..Len(s) : s[i] = Append(t, e)[i]
  BY <1>1, <1>2, <1>3
<1> QED
  BY <1>1, <1>4, PrefixPointwise

\* Every sequence is a prefix of itself, and the empty one of every sequence.
LEMMA PrefixReflexive ==
    ASSUME NEW S, NEW s \in Seq(S)
    PROVE  IsPrefix(s, s) /\ IsPrefix(<<>>, s)
<1>1. <<>> \in Seq(S) /\ Len(<<>>) = 0 /\ Len(s) \in Nat
  OBVIOUS
<1>2. IsPrefix(s, s)
  BY <1>1, PrefixPointwise
<1>3. ASSUME NEW e \in Seq(S), Len(e) = 0
      PROVE  IsPrefix(e, s)
  <2>1. Len(e) <= Len(s) /\ \A i \in 1..Len(e) : e[i] = s[i]
    BY <1>1, <1>3
  <2> QED
    BY <2>1, PrefixPointwise
<1> QED
  BY <1>1, <1>2, <1>3

\* Prefixes of prefixes are prefixes.
LEMMA PrefixTransitive ==
    ASSUME NEW S, NEW s \in Seq(S), NEW t \in Seq(S), NEW u \in Seq(S),
           IsPrefix(s, t), IsPrefix(t, u)
    PROVE  IsPrefix(s, u)
<1>1. /\ Len(s) <= Len(t) /\ \A i \in 1..Len(s) : s[i] = t[i]
      /\ Len(t) <= Len(u) /\ \A i \in 1..Len(t) : t[i] = u[i]
  BY PrefixPointwise
<1> QED
  BY <1>1, PrefixPointwise

\* What Front drops, and what it keeps.
LEMMA FrontProperties ==
    ASSUME NEW S, NEW s \in Seq(S)
    PROVE  /\ s # <<>> => /\ Front(s) \in Seq(S)
                          /\ Len(Front(s)) = Len(s) - 1
                          /\ \A i \in 1..Len(s) - 1 : Front(s)[i] = s[i]
                          /\ IsPrefix(Front(s), s)
           /\ \A e \in S : Front(Append(s, e)) = s
<1>1. ASSUME s # <<>>
      PROVE  /\ Front(s) \in Seq(S)
             /\ Len(Front(s)) = Len(s) - 1
             /\ \A i \in 1..Len(s) - 1 : Front(s)[i] = s[i]
  <2> DEFINE n == Len(s) - 1
  <2>1. n \in 0..Len(s)
    BY <1>1
  <2>2. Front(s) = SubSeq(s, 1, n)
    BY DEF Front
  <2> HIDE DEF n
  <2>3. /\ Front(s) \in Seq(S)
        /\ Len(Front(s)) = n
        /\ \A i \in 1..n : Front(s)[i] = s[i]
    BY <2>1, <2>2, SubSeqProperties
  <2> QED
    BY <2>3 DEF n
<1>2. ASSUME s # <<>> PROVE IsPrefix(Front(s), s)
  <2>1. Len(Front(s)) <= Len(s) /\ \A i \in 1..Len(Front(s)) : Front(s)[i] = s[i]
    BY <1>1, <1>2
  <2> QED
    BY <1>1, <1>2, <2>1, PrefixPointwise
<1>3. ASSUME NEW e \in S PROVE Front(Append(s, e)) = s
  BY DEF Front
<1> QED
  BY <1>1, <1>2, <1>3

-----------------------------------------------------------------------------
(* Concatenation.                                                          *)

\* What a concatenation is, element by element.
LEMMA ConcatProperties ==
    ASSUME NEW S, NEW s \in Seq(S), NEW t \in Seq(S)
    PROVE  /\ s \o t \in Seq(S) /\ Len(s) \in Nat /\ Len(t) \in Nat
           /\ Len(s \o t) = Len(s) + Len(t)
           /\ \A i \in 1..Len(s) : (s \o t)[i] = s[i]
           /\ \A i \in 1..Len(t) : (s \o t)[Len(s) + i] = t[i]
OBVIOUS

\* The first part of a concatenation is a prefix of it.
LEMMA ConcatPrefix ==
    ASSUME NEW S, NEW s \in Seq(S), NEW t \in Seq(S)
    PROVE  IsPrefix(s, s \o t)
<1> DEFINE u == s \o t
<1>1. u \in Seq(S) /\ Len(s) <= Len(u) /\ \A i \in 1..Len(s) : s[i] = u[i]
  BY ConcatProperties
<1> HIDE DEF u
<1>2. IsPrefix(s, u)
  BY <1>1, PrefixPointwise
<1> QED
  BY <1>2 DEF u

\* The head of the second part may as well end the first.
LEMMA ConcatHead ==
    ASSUME NEW S, NEW s \in Seq(S), NEW t \in Seq(S), t # <<>>
    PROVE  s \o t = Append(s, Head(t)) \o Tail(t)
OBVIOUS

-----------------------------------------------------------------------------
(* Queues.                                                                 *)

Elements(q) == {q[i] : i \in 1..Len(q)}
Distinct(q) == \A i, j \in 1..Len(q) : q[i] = q[j] => i = j

\* What Head and Tail of a sequence are, element by element.
LEMMA TailProperties ==
    ASSUME NEW S, NEW q \in Seq(S), q # <<>>
    PROVE  /\ Len(q) \in Nat \ {0} /\ Head(q) = q[1] /\ Head(q) \in S
           /\ Tail(q) \in Seq(S) /\ Len(Tail(q)) = Len(q) - 1
           /\ \A i \in 1..Len(q) - 1 : Tail(q)[i] = q[i + 1]
OBVIOUS

\* What Append does, element by element.
LEMMA AppendProperties ==
    ASSUME NEW S, NEW q \in Seq(S), NEW e \in S
    PROVE  /\ Append(q, e) \in Seq(S) /\ Append(q, e) # <<>>
           /\ Len(q) \in Nat /\ Len(Append(q, e)) = Len(q) + 1
           /\ Append(q, e)[Len(q) + 1] = e
           /\ \A i \in 1..Len(q) : Append(q, e)[i] = q[i]
OBVIOUS

\* Who is at the head stays there when someone joins.
LEMMA AppendHead ==
    ASSUME NEW S, NEW q \in Seq(S), NEW e \in S, q # <<>>
    PROVE  Head(Append(q, e)) = Head(q)
<1>1. Append(q, e) \in Seq(S) /\ Append(q, e) # <<>> /\ Append(q, e)[1] = q[1]
  BY AppendProperties, TailProperties
<1> QED
  BY <1>1, TailProperties

\* A queue that someone joins who is not in it.
LEMMA AppendQueue ==
    ASSUME NEW S, NEW q \in Seq(S), NEW e \in S
    PROVE  /\ Elements(Append(q, e)) = Elements(q) \cup {e}
           /\ Distinct(q) /\ e \notin Elements(q) => Distinct(Append(q, e))
<1> DEFINE a == Append(q, e)
<1>1. /\ Len(q) \in Nat /\ Len(a) = Len(q) + 1 /\ a[Len(q) + 1] = e
      /\ \A i \in 1..Len(q) : a[i] = q[i]
  BY AppendProperties
<1> HIDE DEF a
<1>2. \A i \in 1..Len(a) : i \in 1..Len(q) \/ i = Len(q) + 1
  BY <1>1
<1>3. 1..Len(q) \subseteq 1..Len(a) /\ Len(q) + 1 \in 1..Len(a)
  BY <1>1
<1>4. Elements(a) = Elements(q) \cup {e}
  BY <1>1, <1>2, <1>3 DEF Elements
<1>5. Distinct(q) /\ e \notin Elements(q) => Distinct(a)
  BY <1>1, <1>2, <1>3 DEF Elements, Distinct
<1> QED
  BY <1>4, <1>5 DEF a

\* A queue whose first leaves.
LEMMA TailQueue ==
    ASSUME NEW S, NEW q \in Seq(S), q # <<>>, Distinct(q)
    PROVE  /\ Distinct(Tail(q)) /\ Head(q) \in Elements(q)
           /\ Elements(Tail(q)) = Elements(q) \ {Head(q)}
<1> DEFINE t == Tail(q)
<1>1. /\ Len(q) \in Nat \ {0} /\ Head(q) = q[1] /\ Len(t) = Len(q) - 1
      /\ \A i \in 1..Len(q) - 1 : t[i] = q[i + 1]
  BY TailProperties
<1> HIDE DEF t
<1>2. \A i \in 1..Len(t) : i + 1 \in 1..Len(q) /\ t[i] = q[i + 1] /\ i + 1 # 1
  BY <1>1
<1>3. \A i \in 1..Len(q) : i = 1 \/ (i - 1 \in 1..Len(t) /\ q[i] = t[i - 1])
  BY <1>1
<1>4. 1 \in 1..Len(q)
  BY <1>1
<1>5. Distinct(t)
  BY <1>1, <1>2 DEF Distinct
<1>6. Elements(t) \subseteq Elements(q) \ {Head(q)}
  BY <1>1, <1>2, <1>4 DEF Elements, Distinct
<1>7. Elements(q) \ {Head(q)} \subseteq Elements(t)
  BY <1>1, <1>3 DEF Elements
<1>8. Head(q) \in Elements(q)
  BY <1>1, <1>4 DEF Elements
<1> QED
  BY <1>5, <1>6, <1>7, <1>8 DEF t

-----------------------------------------------------------------------------
(* Members.                                                                *)

\* Who is in a sequence after something was added.
LEMMA AppendMembers ==
    ASSUME NEW S, NEW q \in Seq(S), NEW e \in S
    PROVE  ToSet(Append(q, e)) = ToSet(q) \cup {e}
<1> DEFINE a == Append(q, e)
<1>1. a \in Seq(S) /\ DOMAIN a = 1..Len(a) /\ DOMAIN q = 1..Len(q)
  BY AppendProperties
<1>2. Elements(a) = Elements(q) \cup {e}
  BY AppendQueue
<1> QED
  BY <1>1, <1>2 DEF ToSet, Elements

\* Who is in a sequence: its head and its tail.
LEMMA TailMembers ==
    ASSUME NEW S, NEW q \in Seq(S), q # <<>>
    PROVE  ToSet(q) = {Head(q)} \cup ToSet(Tail(q))
<1> DEFINE t == Tail(q)
<1>1. /\ Len(q) \in Nat \ {0} /\ Head(q) = q[1] /\ Len(t) = Len(q) - 1
      /\ \A i \in 1..Len(q) - 1 : t[i] = q[i + 1]
      /\ DOMAIN t = 1..Len(t) /\ DOMAIN q = 1..Len(q)
  BY TailProperties
<1> HIDE DEF t
<1>2. \A i \in 1..Len(t) : i + 1 \in 1..Len(q) /\ t[i] = q[i + 1]
  BY <1>1
<1>3. \A i \in 1..Len(q) : i = 1 \/ (i - 1 \in 1..Len(t) /\ q[i] = t[i - 1])
  BY <1>1
<1>4. 1 \in 1..Len(q)
  BY <1>1
<1>5. ASSUME NEW e
      PROVE  e \in ToSet(q) <=> e = Head(q) \/ e \in ToSet(t)
  <2>1. e \in ToSet(q) => e = Head(q) \/ e \in ToSet(t)
    BY <1>1, <1>3 DEF ToSet
  <2>2. e \in ToSet(t) => e \in ToSet(q)
    BY <1>1, <1>2 DEF ToSet
  <2>3. Head(q) \in ToSet(q)
    BY <1>1, <1>4 DEF ToSet
  <2> QED
    BY <2>1, <2>2, <2>3
<1> QED
  BY <1>5 DEF t

\* A sequence of one.
LEMMA OneMember ==
    ASSUME NEW S, NEW e \in S
    PROVE  <<e>> \in Seq(S) /\ Len(<<e>>) = 1 /\ <<e>>[1] = e /\ ToSet(<<e>>) = {e}
<1>1. <<e>> \in Seq(S) /\ Len(<<e>>) = 1 /\ <<e>>[1] = e /\ DOMAIN <<e>> = {1}
  OBVIOUS
<1> QED
  BY <1>1 DEF ToSet

\* A sequence of one at most.
LEMMA AtMostOneMember ==
    ASSUME NEW S, NEW q \in Seq(S), Len(q) <= 1, q # <<>>
    PROVE  q[1] \in S /\ ToSet(q) = {q[1]} /\ Head(q) = q[1]
<1>1. Len(q) \in Nat \ {0} /\ DOMAIN q = 1..Len(q) /\ Head(q) = q[1] /\ Head(q) \in S
  BY TailProperties
<1>2. DOMAIN q = {1}
  BY <1>1
<1> QED
  BY <1>1, <1>2 DEF ToSet

\* Nobody is in the empty sequence.
LEMMA NoMember == ToSet(<<>>) = {}
BY DEF ToSet

=============================================================================
