--------------------------- MODULE LineConfigProofs ---------------------------
(***************************************************************************)
(* Proofs about LineConfig, for any lines, templates and links: the walk    *)
(* of buildTemplateChain ends and misses no template, the sort puts the     *)
(* deepest first, and the last write of mergeMacros is that of the nearest  *)
(* level, so fetchLines returns the settings its comment promises.          *)
(*                                                                          *)
(* The definitions are recursive, and the library's induction theorems have *)
(* operators as parameters, which the provers do not instantiate.  The      *)
(* first part therefore derives induction and recursion over the naturals   *)
(* for sets and functions from the least-element principle (WFMin).         *)
(***************************************************************************)
EXTENDS LineConfig, WellFoundedInduction, FiniteSetTheorems, SequenceTheorems, TLAPS

-------------------------------------------------------------------------------
(* Induction and recursion over the naturals. *)

\* A set of naturals that is not empty has a least element.
LEMMA LeastNatural ==
  ASSUME NEW T \in SUBSET Nat, T # {}
  PROVE  \E x \in T : \A y \in T : x <= y
<1>1. IsWellFoundedOn(OpToRel(<, Nat), Nat)
  BY NatLessThanWellFounded
<1>2. PICK x \in T : \A y \in T : ~ (<<y, x>> \in OpToRel(<, Nat))
  BY <1>1, WFMin
<1>3. \A y \in T : ~ (y < x)
  BY <1>2 DEF OpToRel
<1> QED
  BY <1>3

\* Induction over the naturals, for a set.
LEMMA NatSetInduction ==
  ASSUME NEW S, 0 \in S, \A n \in Nat : n \in S => n + 1 \in S
  PROVE  \A n \in Nat : n \in S
<1> DEFINE T == {n \in Nat : n \notin S}
<1>1. SUFFICES ASSUME T # {} PROVE FALSE
  OBVIOUS
<1>2. PICK x \in T : \A y \in T : x <= y
  BY <1>1, LeastNatural
<1>3. x # 0 /\ x - 1 \in Nat /\ x - 1 \notin T
  BY <1>2
<1>4. (x - 1) + 1 \in S
  BY <1>3
<1> QED
  BY <1>2, <1>3, <1>4

\* f starts with a and goes from f[n] to f[n + 1] by h[n].
IsRecursion(f, S, a, h) ==
  /\ f \in [Nat -> S]
  /\ f[0] = a
  /\ \A n \in Nat : f[n + 1] = h[n][f[n]]

\* Definition by recursion over the naturals.
LEMMA PrimitiveRecursion ==
  ASSUME NEW S, NEW a \in S, NEW h \in [Nat -> [S -> S]]
  PROVE  \E f : IsRecursion(f, S, a, h)
<1> DEFINE Upto(n) == {f \in [0..n -> S] :
                         f[0] = a /\ \A i \in 0..(n - 1) : f[i + 1] = h[i][f[i]]}
           U == {n \in Nat : Upto(n) # {}}
<1>1. \A n \in Nat : n \in U
  <2>1. 0 \in U
    <3>1. [i \in 0..0 |-> a] \in Upto(0)
      OBVIOUS
    <3> QED
      BY <3>1
  <2>2. ASSUME NEW n \in Nat, n \in U PROVE n + 1 \in U
    <3>1. PICK f : f \in Upto(n)
      BY <2>2
    <3> DEFINE g == [i \in 0..(n + 1) |-> IF i <= n THEN f[i] ELSE h[n][f[n]]]
    <3>2. h[n][f[n]] \in S
      BY <3>1
    <3>3. g \in [0..(n + 1) -> S]
      BY <3>1, <3>2
    <3>4. g[0] = a
      BY <3>1
    <3>5. ASSUME NEW i \in 0..((n + 1) - 1) PROVE g[i + 1] = h[i][g[i]]
      BY <3>1, <3>5
    <3>6. g \in Upto(n + 1)
      BY <3>3, <3>4, <3>5
    <3> HIDE DEF Upto, g
    <3> QED
      BY <3>6
  <2> HIDE DEF U
  <2> QED
    BY <2>1, <2>2, NatSetInduction
<1>2. ASSUME NEW m \in Nat, NEW n \in Nat, m <= n,
             NEW f \in Upto(m), NEW g \in Upto(n)
      PROVE  \A i \in 0..m : f[i] = g[i]
  <2> DEFINE V == {i \in Nat : i <= m => f[i] = g[i]}
  <2>1. 0 \in V
    OBVIOUS
  <2>2. ASSUME NEW i \in Nat, i \in V PROVE i + 1 \in V
    <3> SUFFICES ASSUME i + 1 <= m PROVE f[i + 1] = g[i + 1]
      OBVIOUS
    <3>1. i \in 0..(m - 1) /\ i \in 0..(n - 1)
      BY <1>2
    <3>2. f[i + 1] = h[i][f[i]] /\ g[i + 1] = h[i][g[i]] /\ f[i] = g[i]
      BY <2>2, <3>1
    <3> QED
      BY <3>2
  <2>3. \A i \in Nat : i \in V
    <3> HIDE DEF V
    <3> QED
      BY <2>1, <2>2, NatSetInduction
  <2> QED
    BY <2>3
<1>3. \A n \in Nat : \E f : f \in Upto(n)
  BY <1>1
<1> DEFINE F == [n \in Nat |-> (CHOOSE f : f \in Upto(n))]
           G == [n \in Nat |-> F[n][n]]
<1>4. ASSUME NEW n \in Nat PROVE F[n] \in Upto(n)
  <2> HIDE DEF Upto
  <2> QED
    BY <1>3
<1> HIDE DEF F
<1>5. ASSUME NEW n \in Nat
      PROVE  /\ F[n] \in [0..n -> S] /\ F[n][0] = a
             /\ \A i \in 0..(n - 1) : F[n][i + 1] = h[i][F[n][i]]
  BY <1>4
<1>6. G \in [Nat -> S] /\ G[0] = a
  BY <1>5
<1>7. ASSUME NEW n \in Nat PROVE G[n + 1] = h[n][G[n]]
  <2>1. F[n][n] = F[n + 1][n]
    <3>1. F[n] \in Upto(n) /\ F[n + 1] \in Upto(n + 1) /\ n <= n + 1 /\ n + 1 \in Nat
      <4> HIDE DEF Upto
      <4> QED
        BY <1>4
    <3> HIDE DEF Upto
    <3>2. \A i \in 0..n : F[n][i] = F[n + 1][i]
      BY <1>2, <3>1
    <3> QED
      BY <3>2
  <2>2. n + 1 \in Nat /\ n \in 0..((n + 1) - 1)
    OBVIOUS
  <2>3. F[n + 1][n + 1] = h[n][F[n + 1][n]]
    BY <1>5, <2>2
  <2> QED
    BY <2>1, <2>3
<1>8. IsRecursion(G, S, a, h)
  BY <1>6, <1>7 DEF IsRecursion
<1> QED
  BY <1>8

\* The steps of an iteration.
Iterates(f, X, F, x) ==
  /\ f \in [Nat -> X]
  /\ f[0] = x
  /\ \A n \in Nat : f[n + 1] = F[f[n]]

\* An iteration goes on forever from any start.
LEMMA Iteration ==
  ASSUME NEW X, NEW F \in [X -> X], NEW x \in X
  PROVE  \E f : Iterates(f, X, F, x)
<1> DEFINE h == [n \in Nat |-> F]
<1>1. h \in [Nat -> [X -> X]] /\ \A n \in Nat : h[n] = F
  OBVIOUS
<1> HIDE DEF h
<1>2. PICK f : IsRecursion(f, X, x, h)
  BY <1>1, PrimitiveRecursion
<1>3. Iterates(f, X, F, x)
  BY <1>1, <1>2 DEF IsRecursion, Iterates
<1> QED
  BY <1>3

\* Two iterations from the same start are the same.
LEMMA IterationUnique ==
  ASSUME NEW X, NEW F \in [X -> X], NEW f \in [Nat -> X], NEW g \in [Nat -> X],
         f[0] = g[0], \A n \in Nat : f[n + 1] = F[f[n]],
         \A n \in Nat : g[n + 1] = F[g[n]]
  PROVE  \A n \in Nat : f[n] = g[n]
<1> DEFINE V == {n \in Nat : f[n] = g[n]}
<1>1. 0 \in V /\ \A n \in Nat : n \in V => n + 1 \in V
  OBVIOUS
<1>2. \A n \in Nat : n \in V
  <2> HIDE DEF V
  <2> QED
    BY <1>1, NatSetInduction
<1> QED
  BY <1>2

\* b[x] is out[x] at a stop and b of the next x elsewhere.
IsTailRecursion(b, X, F, Stop, out) ==
  \A x \in X : b[x] = IF x \in Stop THEN out[x] ELSE b[F[x]]

\* A function may be defined by tail recursion, whether or not it ends.
LEMMA TailRecursion ==
  ASSUME NEW X, NEW F \in [X -> X], NEW Stop \in SUBSET X, NEW R, NEW out \in [X -> R]
  PROVE  \E b \in [X -> R] : IsTailRecursion(b, X, F, Stop, out)
<1> DEFINE IsRun(f, x) == /\ f \in [Nat -> X] /\ f[0] = x
                          /\ \A n \in Nat : f[n + 1] = F[f[n]]
           Run(x) == CHOOSE f : IsRun(f, x)
           Ends(x) == {n \in Nat : Run(x)[n] \in Stop}
           First(x) == CHOOSE n \in Ends(x) : \A m \in Ends(x) : n <= m
           d == CHOOSE r \in R : TRUE
           b == [x \in X |-> IF Ends(x) # {} THEN out[Run(x)[First(x)]] ELSE d]
<1>1. ASSUME NEW x \in X PROVE IsRun(Run(x), x)
  <2>0. \E f : Iterates(f, X, F, x)
    BY Iteration
  <2>1. \E f : IsRun(f, x)
    BY <2>0 DEF Iterates
  <2> HIDE DEF IsRun
  <2> QED
    BY <2>1
<1>2. ASSUME NEW x \in X, Ends(x) # {}
      PROVE  First(x) \in Ends(x) /\ \A m \in Ends(x) : First(x) <= m
  <2>1. \E n \in Ends(x) : \A m \in Ends(x) : n <= m
    BY <1>2, LeastNatural
  <2> HIDE DEF Ends
  <2> QED
    BY <2>1
<1>3. ASSUME NEW x \in X PROVE \A n \in Nat : Run(F[x])[n] = Run(x)[n + 1]
  <2> DEFINE g == [n \in Nat |-> Run(x)[n + 1]]
  <2>0. F[x] \in X
    OBVIOUS
  <2>1. IsRun(Run(x), x) /\ IsRun(Run(F[x]), F[x])
    <3> HIDE DEF Run, IsRun
    <3> QED
      BY <1>1, <2>0
  <2>2. IsRun(g, F[x])
    <3>1. /\ Run(x) \in [Nat -> X] /\ Run(x)[0] = x
          /\ \A n \in Nat : Run(x)[n + 1] = F[Run(x)[n]]
      BY <2>1, Zenon
    <3> HIDE DEF Run
    <3>2. g \in [Nat -> X]
      BY <3>1
    <3>3. g[0] = F[x]
      BY <3>1
    <3>4. ASSUME NEW n \in Nat PROVE g[n + 1] = F[g[n]]
      <4>1. n + 1 \in Nat /\ g[n + 1] = Run(x)[(n + 1) + 1] /\ g[n] = Run(x)[n + 1]
        OBVIOUS
      <4> QED
        BY <3>1, <4>1
    <3> QED
      BY <3>2, <3>3, <3>4
  <2> HIDE DEF g, Run
  <2>3. \A n \in Nat : Run(F[x])[n] = g[n]
    BY <2>1, <2>2, IterationUnique
  <2> QED
    BY <2>3 DEF g
<1> HIDE DEF Run, First
<1>4. b \in [X -> R]
  <2> SUFFICES ASSUME NEW x \in X
               PROVE  (IF Ends(x) # {} THEN out[Run(x)[First(x)]] ELSE d) \in R
    OBVIOUS
  <2>1. d \in R
    BY out[x] \in R
  <2> HIDE DEF d
  <2>2. CASE Ends(x) # {}
    <3>1. Run(x)[First(x)] \in X
      BY <1>1, <1>2, <2>2
    <3> HIDE DEF Ends
    <3> QED
      BY <2>2, <3>1
  <2>3. CASE Ends(x) = {}
    BY <2>1, <2>3
  <2> QED
    BY <2>2, <2>3
<1> HIDE DEF d
<1>5. ASSUME NEW x \in X PROVE b[x] = IF x \in Stop THEN out[x] ELSE b[F[x]]
  <2>0. IsRun(Run(x), x) /\ F[x] \in X /\ IsRun(Run(F[x]), F[x])
    BY <1>1
  <2>1. CASE x \in Stop
    <3>1. 0 \in Ends(x)
      BY <2>0, <2>1
    <3>2. First(x) = 0
      BY <1>2, <3>1
    <3>3. Run(x)[0] = x
      BY <2>0
    <3> HIDE DEF Ends, IsRun
    <3> QED
      BY <2>1, <3>1, <3>2, <3>3
  <2>2. CASE x \notin Stop /\ Ends(x) = {}
    <3>1. Ends(F[x]) = {}
      BY <1>3, <2>2
    <3> HIDE DEF Ends, IsRun
    <3> QED
      BY <2>0, <2>2, <3>1
  <2>3. CASE x \notin Stop /\ Ends(x) # {}
    <3>1. First(x) \in Ends(x) /\ First(x) \in Nat /\ First(x) # 0
      BY <1>2, <2>0, <2>3
    <3>2. First(x) - 1 \in Ends(F[x])
      BY <1>3, <3>1
    <3>3. First(F[x]) \in Ends(F[x]) /\ First(F[x]) <= First(x) - 1
      BY <1>2, <2>0, <3>2
    <3>4. First(F[x]) + 1 \in Ends(x)
      BY <1>3, <3>3
    <3>5. First(F[x]) + 1 = First(x) /\ First(F[x]) \in Nat
      BY <1>2, <2>3, <3>1, <3>3, <3>4
    <3>6. Run(F[x])[First(F[x])] = Run(x)[First(x)]
      BY <1>3, <3>5
    <3> HIDE DEF Ends, IsRun
    <3> QED
      BY <2>0, <2>3, <3>3, <3>6
  <2> QED
    BY <2>1, <2>2, <2>3
<1> HIDE DEF b
<1>6. IsTailRecursion(b, X, F, Stop, out)
  BY <1>5 DEF IsTailRecursion
<1> QED
  BY <1>4, <1>6

\* f starts with a and goes from f[k - 1] to f[k] by h[k], up to n.
IsFiniteRecursion(f, n, S, a, h) ==
  /\ f \in [0..n -> S]
  /\ f[0] = a
  /\ \A k \in 1..n : f[k] = h[k][f[k - 1]]

\* Definition by recursion up to a bound.
LEMMA FiniteRecursion ==
  ASSUME NEW n \in Nat, NEW S, NEW a \in S, NEW h \in [1..n -> [S -> S]]
  PROVE  \E f : IsFiniteRecursion(f, n, S, a, h)
<1> DEFINE g == [k \in Nat |-> IF k + 1 <= n THEN h[k + 1] ELSE [v \in S |-> v]]
<1>1. g \in [Nat -> [S -> S]]
  OBVIOUS
<1>2. \A k \in Nat : k + 1 <= n => g[k] = h[k + 1]
  OBVIOUS
<1> HIDE DEF g
<1>3. PICK f : IsRecursion(f, S, a, g)
  BY <1>1, PrimitiveRecursion
<1> DEFINE e == [k \in 0..n |-> f[k]]
<1>4. f \in [Nat -> S] /\ f[0] = a /\ \A k \in Nat : f[k + 1] = g[k][f[k]]
  BY <1>3 DEF IsRecursion
<1>5. e \in [0..n -> S] /\ e[0] = a
  BY <1>4
<1>6. ASSUME NEW k \in 1..n PROVE e[k] = h[k][e[k - 1]]
  <2>1. k - 1 \in Nat /\ (k - 1) + 1 = k /\ (k - 1) + 1 <= n /\ k - 1 \in 0..n /\ k \in 0..n
    OBVIOUS
  <2>2. f[k] = h[k][f[k - 1]]
    BY <1>2, <1>4, <2>1
  <2> QED
    BY <2>1, <2>2
<1>7. IsFiniteRecursion(e, n, S, a, h)
  BY <1>5, <1>6 DEF IsFiniteRecursion
<1> QED
  BY <1>7

-------------------------------------------------------------------------------
(* The walk of buildTemplateChain. *)

\* At turns template ids into nodes of one depth.
LEMMA AtIsNodes ==
  ASSUME NEW q \in Seq(Template), NEW d \in Nat
  PROVE  At(q, d) \in Seq(Node) /\ Len(At(q, d)) = Len(q)
         /\ \A k \in 1..Len(q) : At(q, d)[k].id = q[k] /\ At(q, d)[k].depth = d
<1>1. DOMAIN q = 1..Len(q) /\ Len(q) \in Nat /\ \A k \in 1..Len(q) : q[k] \in Template
  OBVIOUS
<1>2. At(q, d) \in [1..Len(q) -> Node]
  BY <1>1 DEF At, Node
<1>3. \A k \in 1..Len(q) : At(q, d)[k].id = q[k] /\ At(q, d)[k].depth = d
  BY <1>1 DEF At
<1> HIDE DEF At
<1> QED
  BY <1>1, <1>2, <1>3

\* A step of the walk is a walk.
LEMMA VisitWalks ==
  ASSUME NEW w \in Walk, w.todo # << >>
  PROVE  visit(w) \in Walk
<1> DEFINE t == Head(w.todo)
<1>1. t \in Node /\ Tail(w.todo) \in Seq(Node) /\ w.chain \in Seq(Node)
  BY DEF Walk
<1>2. Parents[t.id] \in Seq(Template) /\ t.depth + 1 \in Nat
  BY <1>1, LineConfigAssumption DEF Node
<1> DEFINE A == At(Parents[t.id], t.depth + 1)
<1>3. A \in Seq(Node)
  BY <1>2, AtIsNodes
<1> HIDE DEF A
<1>4. [todo |-> A \o Tail(w.todo), chain |-> Append(w.chain, t)] \in Walk
  BY <1>1, <1>3 DEF Walk
<1>5. [w EXCEPT !.todo = Tail(@)] \in Walk
  BY <1>1 DEF Walk
<1> QED
  BY <1>4, <1>5 DEF visit, A

\* build satisfies the equation that defines it.
LEMMA BuildEquation ==
  ASSUME NEW w \in Walk
  PROVE  build[w] = IF w.todo = << >> THEN w.chain ELSE build[visit(w)]
<1> DEFINE F == [v \in Walk |-> IF v.todo = << >> THEN v ELSE visit(v)]
           Stop == {v \in Walk : v.todo = << >>}
           out == [v \in Walk |-> v.chain]
           IsBuild(b) == b = [v \in Walk |-> IF v.todo = << >> THEN v.chain ELSE b[visit(v)]]
<1>1. F \in [Walk -> Walk]
  BY VisitWalks
<1>2. out \in [Walk -> Seq(Node)]
  BY DEF Walk
<1>3. Stop \in SUBSET Walk
  OBVIOUS
<1>4. PICK b \in [Walk -> Seq(Node)] : IsTailRecursion(b, Walk, F, Stop, out)
  <2> HIDE DEF F, Stop, out
  <2> QED
    BY <1>1, <1>2, <1>3, TailRecursion
<1>5. IsBuild(b)
  <2>1. \A v \in Walk : b[v] = IF v.todo = << >> THEN v.chain ELSE b[visit(v)]
    BY <1>4, Zenon DEF IsTailRecursion
  <2> QED
    BY <2>1
<1>6. IsBuild(build)
  <2>1. build = CHOOSE c : IsBuild(c)
    BY DEF build
  <2>2. \E c : IsBuild(c)
    BY <1>5
  <2> HIDE DEF IsBuild
  <2> QED
    BY <2>1, <2>2
<1> QED
  BY <1>6

\* Above follows the links one level at a time.
LEMMA AboveLevels ==
  ASSUME NEW l \in Line
  PROVE  /\ Above(l, 1) = {Linked[l][k] : k \in DOMAIN Linked[l]}
         /\ \A d \in Nat : Above(l, d) \subseteq Template
         /\ \A d \in Nat \ {0} :
              Above(l, d + 1) =
                UNION {{Parents[t][k] : k \in DOMAIN Parents[t]} : t \in Above(l, d)}
<1> DEFINE a == {Linked[l][k] : k \in DOMAIN Linked[l]}
           Ups(v) == UNION {{Parents[t][k] : k \in DOMAIN Parents[t]} : t \in v}
           S == SUBSET Template
           h == [n \in Nat |-> [v \in S |-> IF n = 0 THEN a ELSE Ups(v)]]
           IsUp(g) == g = [n \in Nat |-> IF n <= 1 THEN a ELSE Ups(g[n - 1])]
<1>1. a \in S
  <2>1. Linked[l] \in Seq(Template)
    BY LineConfigAssumption
  <2> QED
    BY <2>1
<1>2. ASSUME NEW v \in S PROVE Ups(v) \in S
  <2>1. \A t \in v : Parents[t] \in Seq(Template)
    BY LineConfigAssumption
  <2>2. \A t \in v : \A k \in DOMAIN Parents[t] : Parents[t][k] \in Template
    BY <2>1
  <2> QED
    BY <2>2
<1> HIDE DEF a, Ups
<1>3. h \in [Nat -> [S -> S]]
  BY <1>1, <1>2
<1>4. PICK f : IsRecursion(f, S, a, h)
  <2> HIDE DEF S, h
  <2> QED
    BY <1>1, <1>3, PrimitiveRecursion
<1>5. /\ f \in [Nat -> S] /\ f[0] = a
      /\ \A n \in Nat : f[n + 1] = IF n = 0 THEN a ELSE Ups(f[n])
  BY <1>4 DEF IsRecursion
<1>6. IsUp(f)
  <2>1. ASSUME NEW n \in Nat PROVE f[n] = IF n <= 1 THEN a ELSE Ups(f[n - 1])
    <3>1. CASE n = 0
      BY <1>5, <3>1
    <3>2. CASE n # 0
      <4>1. n - 1 \in Nat /\ (n - 1) + 1 = n
        BY <3>2
      <4>2. f[n] = IF n - 1 = 0 THEN a ELSE Ups(f[n - 1])
        BY <1>5, <4>1
      <4> QED
        BY <3>2, <4>2
    <3> QED
      BY <3>1, <3>2
  <2> QED
    BY <1>5, <2>1
<1> DEFINE up == CHOOSE g : IsUp(g)
<1>7. IsUp(up)
  <2> HIDE DEF IsUp
  <2> QED
    BY <1>6
<1>8. \A d : Above(l, d) = up[d]
  BY Zenon DEF Above, a, Ups
<1> HIDE DEF up
<1>9. up[0] = a /\ up[1] = a /\ \A n \in Nat \ {0} : up[n + 1] = Ups(up[n])
  BY <1>7
<1>10. \A n \in Nat : up[n] \in S
  <2> DEFINE V == {n \in Nat : up[n] \in S}
  <2>1. 0 \in V
    BY <1>1, <1>9
  <2>2. \A n \in Nat : n \in V => n + 1 \in V
    BY <1>1, <1>2, <1>9
  <2>3. \A n \in Nat : n \in V
    <3> HIDE DEF V
    <3> QED
      BY <2>1, <2>2, NatSetInduction
  <2> QED
    BY <2>3
<1> QED
  BY <1>8, <1>9, <1>10 DEF a, Ups

\* The template is in the chain c or still to be visited, in q.
Met(q, c, t) ==
  \/ \E k \in 1..Len(c) : c[k].id = t
  \/ \E k \in 1..Len(q) : q[k].id = t

\* The walk from host l: depths are distances, the chain has no template
\* twice, and no link out of it is forgotten.
WalkInv(l, q, c) ==
  /\ q \in Seq(Node) /\ c \in Seq(Node)
  /\ \A k \in 1..Len(c) : c[k].depth \in 1..k /\ c[k].id \in Above(l, c[k].depth)
  /\ \A k \in 1..Len(q) : /\ q[k].depth \in 1..(Len(c) + 1)
                          /\ q[k].id \in Above(l, q[k].depth)
  /\ \A j, k \in 1..Len(c) : c[j].id = c[k].id => j = k
  /\ \A k \in DOMAIN Linked[l] : Met(q, c, Linked[l][k])
  /\ \A k \in 1..Len(c) : \A j \in DOMAIN Parents[c[k].id] :
       Met(q, c, Parents[c[k].id][j])

\* The walk starts with the templates the host is linked to.
LEMMA WalkStarts ==
  ASSUME NEW l \in Line
  PROVE  WalkInv(l, At(Linked[l], 1), << >>)
<1> DEFINE A == At(Linked[l], 1)
           c == << >>
<1>1. Linked[l] \in Seq(Template)
  BY LineConfigAssumption
<1>2. /\ A \in Seq(Node) /\ Len(A) = Len(Linked[l])
      /\ \A k \in 1..Len(Linked[l]) : A[k].id = Linked[l][k] /\ A[k].depth = 1
  BY <1>1, AtIsNodes
<1>3. /\ DOMAIN Linked[l] = 1..Len(Linked[l])
      /\ Above(l, 1) = {Linked[l][k] : k \in DOMAIN Linked[l]}
  BY <1>1, AboveLevels
<1>4. c \in Seq(Node) /\ Len(c) = 0
  OBVIOUS
<1> HIDE DEF A, c
<1>5. \A k \in 1..Len(A) : /\ A[k].depth \in 1..(Len(c) + 1)
                           /\ A[k].id \in Above(l, A[k].depth)
  BY <1>2, <1>3, <1>4
<1>6. \A k \in DOMAIN Linked[l] : Met(A, c, Linked[l][k])
  BY <1>2, <1>3 DEF Met
<1>7. \A k \in 1..Len(c) : FALSE
  BY <1>4
<1>8. WalkInv(l, A, c)
  BY <1>2, <1>4, <1>5, <1>6, <1>7 DEF WalkInv
<1> QED
  BY <1>8 DEF A, c

\* The next template is in the chain already, and is skipped.
LEMMA SkipKeepsInv ==
  ASSUME NEW l \in Line, NEW q, NEW c, WalkInv(l, q, c), q # << >>,
         NEW i \in 1..Len(c), c[i].id = Head(q).id
  PROVE  WalkInv(l, Tail(q), c)
<1> DEFINE r == Tail(q)
<1>1. q \in Seq(Node) /\ c \in Seq(Node)
  BY DEF WalkInv
<1>2. /\ Len(q) \in Nat /\ c[i].id = q[1].id /\ r \in Seq(Node)
      /\ Len(r) = Len(q) - 1 /\ \A k \in 1..Len(r) : r[k] = q[k + 1]
  BY <1>1
<1> HIDE DEF r
<1>3. \A k \in 1..Len(r) : k + 1 \in 1..Len(q) /\ r[k] = q[k + 1]
  BY <1>2
<1>4. ASSUME NEW x, Met(q, c, x) PROVE Met(r, c, x)
  <2>1. ASSUME NEW k \in 1..Len(q), q[k].id = x PROVE Met(r, c, x)
    <3>1. CASE k = 1
      BY <1>2, <2>1, <3>1 DEF Met
    <3>2. CASE k # 1
      <4>1. k - 1 \in 1..Len(r) /\ r[k - 1] = q[k]
        BY <1>2, <3>2
      <4> QED
        BY <2>1, <4>1 DEF Met
    <3> QED
      BY <3>1, <3>2
  <2> QED
    BY <1>4, <2>1 DEF Met
<1>5. \A k \in 1..Len(r) : /\ r[k].depth \in 1..(Len(c) + 1)
                           /\ r[k].id \in Above(l, r[k].depth)
  BY <1>3 DEF WalkInv
<1>6. WalkInv(l, r, c)
  BY <1>2, <1>4, <1>5 DEF WalkInv
<1> QED
  BY <1>6 DEF r

\* The next template is new: it joins the chain and its parents come next.
LEMMA JoinKeepsInv ==
  ASSUME NEW l \in Line, NEW q, NEW c, WalkInv(l, q, c), q # << >>,
         NEW t, t = Head(q), \A k \in 1..Len(c) : c[k].id # t.id
  PROVE  WalkInv(l, At(Parents[t.id], t.depth + 1) \o Tail(q), Append(c, t))
<1> DEFINE P == Parents[t.id]
           A == At(P, t.depth + 1)
           u == Tail(q)
           r == A \o u
           e == Append(c, t)
           n == Len(c)
           m == Len(P)
<1>1. q \in Seq(Node) /\ c \in Seq(Node) /\ n \in Nat /\ Len(q) \in Nat \ {0}
  BY DEF WalkInv
<1>2. t = q[1] /\ t \in Node
  BY <1>1
<1>3. t.id \in Template /\ P \in Seq(Template) /\ t.depth \in Nat /\ t.depth + 1 \in Nat
  BY <1>2, LineConfigAssumption DEF Node
<1>4. DOMAIN P = 1..m /\ m \in Nat
  BY <1>3
<1>5. /\ A \in Seq(Node) /\ Len(A) = m
      /\ \A k \in 1..m : A[k].id = P[k] /\ A[k].depth = t.depth + 1
  BY <1>3, AtIsNodes
<1>6. t.depth \in 1..(n + 1) /\ t.id \in Above(l, t.depth)
  BY <1>1, <1>2 DEF WalkInv
<1>7. \A k \in 1..m : P[k] \in Above(l, t.depth + 1)
  BY <1>3, <1>4, <1>6, AboveLevels
<1> HIDE DEF A
<1>8. /\ e \in Seq(Node) /\ Len(e) = n + 1 /\ e[n + 1] = t
      /\ \A k \in 1..n : e[k] = c[k]
  BY <1>1, <1>2
<1>9. /\ u \in Seq(Node) /\ Len(u) = Len(q) - 1
      /\ \A k \in 1..(Len(q) - 1) : u[k] = q[k + 1]
  BY <1>1
<1> HIDE DEF u, m
<1>10. /\ r \in Seq(Node) /\ Len(r) = m + (Len(q) - 1)
       /\ \A k \in 1..Len(r) : r[k] = IF k <= m THEN A[k] ELSE u[k - m]
  <2>1. /\ r \in Seq(Node) /\ Len(r) = Len(A) + Len(u)
        /\ \A k \in 1..Len(A) + Len(u) : r[k] = IF k <= Len(A) THEN A[k] ELSE u[k - Len(A)]
    <3>1. A \in Seq(Node) /\ u \in Seq(Node)
      BY <1>5, <1>9
    <3> QED
      BY <3>1, ConcatProperties, Zenon
  <2> HIDE DEF r
  <2> QED
    BY <1>5, <1>9, <2>1
<1> HIDE DEF P, r, e, n
<1>11. \A k \in 1..m : k \in 1..Len(r) /\ r[k] = A[k]
  BY <1>1, <1>4, <1>10
<1>12. ASSUME NEW k \in 1..Len(r), k > m
       PROVE  (k - m) + 1 \in 1..Len(q) /\ r[k] = q[(k - m) + 1]
  <2>1. k - m \in 1..(Len(q) - 1)
    BY <1>1, <1>4, <1>10, <1>12
  <2>2. r[k] = u[k - m]
    BY <1>4, <1>10, <1>12
  <2>3. u[k - m] = q[(k - m) + 1]
    BY <1>9, <2>1
  <2>4. (k - m) + 1 \in 1..Len(q)
    BY <1>1, <1>4, <2>1
  <2> QED
    BY <2>2, <2>3, <2>4
<1>13. ASSUME NEW k \in 2..Len(q) PROVE (m + k) - 1 \in 1..Len(r) /\ r[(m + k) - 1] = q[k]
  <2>1. (m + k) - 1 \in 1..Len(r) /\ (m + k) - 1 > m
    BY <1>1, <1>4, <1>10
  <2>2. (((m + k) - 1) - m) + 1 = k
    BY <1>1, <1>4
  <2>3. r[(m + k) - 1] = q[(((m + k) - 1) - m) + 1]
    BY <1>12, <2>1
  <2> QED
    BY <2>1, <2>2, <2>3
<1>14. ASSUME NEW x, Met(q, c, x) PROVE Met(r, e, x)
  <2>1. ASSUME NEW k \in 1..n, c[k].id = x PROVE Met(r, e, x)
    <3>1. k \in 1..Len(e) /\ e[k].id = x
      BY <1>1, <1>8, <2>1
    <3> QED
      BY <3>1 DEF Met
  <2>2. ASSUME NEW k \in 1..Len(q), q[k].id = x PROVE Met(r, e, x)
    <3>1. CASE k = 1
      <4>1. n + 1 \in 1..Len(e) /\ e[n + 1].id = x
        BY <1>1, <1>2, <1>8, <2>2, <3>1
      <4> QED
        BY <4>1 DEF Met
    <3>2. CASE k # 1
      <4>1. k \in 2..Len(q)
        BY <1>1, <3>2
      <4>2. (m + k) - 1 \in 1..Len(r) /\ r[(m + k) - 1].id = x
        BY <1>13, <2>2, <4>1
      <4> QED
        BY <4>2 DEF Met
    <3> QED
      BY <3>1, <3>2
  <2> QED
    BY <1>14, <2>1, <2>2 DEF Met, n
<1>15. \A k \in 1..m : Met(r, e, P[k])
  BY <1>5, <1>11 DEF Met
<1>16. \A k \in 1..(n + 1) : k = n + 1 \/ k \in 1..n
  BY <1>1
<1>17. ASSUME NEW k \in 1..Len(e)
       PROVE  /\ e[k].depth \in 1..k
              /\ e[k].id \in Above(l, e[k].depth)
              /\ \A j \in DOMAIN Parents[e[k].id] : Met(r, e, Parents[e[k].id][j])
  <2>1. CASE k = n + 1
    BY <1>4, <1>6, <1>8, <1>15, <2>1 DEF P
  <2>2. CASE k \in 1..n
    <3>1. e[k] = c[k]
      BY <1>8, <2>2
    <3>2. /\ c[k].depth \in 1..k /\ c[k].id \in Above(l, c[k].depth)
          /\ \A j \in DOMAIN Parents[c[k].id] : Met(q, c, Parents[c[k].id][j])
      BY <2>2 DEF WalkInv, n
    <3> QED
      BY <1>14, <3>1, <3>2
  <2> QED
    BY <1>8, <1>16, <2>1, <2>2
<1>18. ASSUME NEW k \in 1..Len(r)
       PROVE  /\ r[k].depth \in 1..(Len(e) + 1)
              /\ r[k].id \in Above(l, r[k].depth)
  <2>1. CASE k <= m
    <3>1. k \in 1..m
      BY <1>4, <2>1
    <3>2. r[k].id = P[k] /\ r[k].depth = t.depth + 1
      BY <1>5, <1>11, <3>1
    <3> QED
      BY <1>1, <1>6, <1>7, <1>8, <3>1, <3>2
  <2>2. CASE k > m
    <3>1. (k - m) + 1 \in 1..Len(q) /\ r[k] = q[(k - m) + 1]
      BY <1>12, <2>2
    <3>2. r[k].depth \in 1..(n + 1) /\ r[k].id \in Above(l, r[k].depth)
      BY <3>1 DEF WalkInv, n
    <3> QED
      BY <1>1, <1>8, <3>2
  <2> QED
    BY <1>4, <2>1, <2>2
<1>19. ASSUME NEW j \in 1..Len(e), NEW k \in 1..Len(e), e[j].id = e[k].id
       PROVE  j = k
  <2>1. \A i \in 1..n : e[i].id # t.id
    BY <1>8 DEF n
  <2>2. \A i, o \in 1..n : e[i].id = e[o].id => i = o
    BY <1>8 DEF WalkInv, n
  <2> QED
    BY <1>8, <1>16, <1>19, <2>1, <2>2
<1>20. \A k \in DOMAIN Linked[l] : Met(r, e, Linked[l][k])
  BY <1>14 DEF WalkInv
<1>21. WalkInv(l, r, e)
  BY <1>8, <1>10, <1>17, <1>18, <1>19, <1>20 DEF WalkInv
<1> QED
  BY <1>21 DEF r, e, A, P, u

\* A step of the walk keeps its invariant.
LEMMA VisitKeepsInv ==
  ASSUME NEW l \in Line, NEW w \in Walk, WalkInv(l, w.todo, w.chain), w.todo # << >>
  PROVE  WalkInv(l, visit(w).todo, visit(w).chain)
<1> DEFINE t == Head(w.todo)
<1>1. DOMAIN w.chain = 1..Len(w.chain)
  BY DEF Walk
<1>2. CASE \E k \in DOMAIN w.chain : w.chain[k].id = t.id
  <2>1. visit(w).todo = Tail(w.todo) /\ visit(w).chain = w.chain
    BY <1>2 DEF visit, Walk
  <2> QED
    BY <1>1, <1>2, <2>1, SkipKeepsInv
<1>3. CASE ~ \E k \in DOMAIN w.chain : w.chain[k].id = t.id
  <2>1. /\ visit(w).todo = At(Parents[t.id], t.depth + 1) \o Tail(w.todo)
        /\ visit(w).chain = Append(w.chain, t)
    BY <1>3, Zenon DEF visit
  <2> QED
    BY <1>1, <1>3, <2>1, JoinKeepsInv
<1> QED
  BY <1>2, <1>3

\* A chain is no longer than there are templates.
LEMMA ChainBounded ==
  ASSUME NEW l \in Line, NEW q, NEW c, WalkInv(l, q, c)
  PROVE  Len(c) \in 0..Cardinality(Template) /\ Cardinality(Template) \in Nat
<1> DEFINE f == [k \in 1..Len(c) |-> c[k].id]
<1>1. Len(c) \in Nat /\ IsFiniteSet(Template) /\ Cardinality(Template) \in Nat
  BY LineConfigAssumption, FS_CardinalityType DEF WalkInv
<1>2. f \in [1..Len(c) -> Template]
  <2>1. \A k \in 1..Len(c) : c[k] \in Node
    BY DEF WalkInv
  <2> QED
    BY <2>1 DEF Node
<1>3. f \in Injection(1..Len(c), Template)
  BY <1>2 DEF Injection, IsInjective, WalkInv
<1>4. Cardinality(1..Len(c)) <= Cardinality(Template)
  BY <1>1, <1>3, FS_Injection
<1>5. Cardinality(1..Len(c)) = Len(c)
  <2> DEFINE n == Len(c)
  <2>1. n \in Int /\ 1 \in Int /\ n >= 0
    BY <1>1
  <2> HIDE DEF n
  <2>2. Cardinality(1..n) = IF 1 > n THEN 0 ELSE n - 1 + 1
    BY <2>1, FS_Interval
  <2>3. Cardinality(1..n) = n
    BY <2>1, <2>2
  <2> QED
    BY <2>3 DEF n
<1> QED
  BY <1>1, <1>4, <1>5

\* buildTemplateChain ends, with every template above the host in the chain.
LEMMA ChainBuilt ==
  ASSUME NEW l \in Line
  PROVE  WalkInv(l, << >>, buildTemplateChain(l))
<1> DEFINE F == [v \in Walk |-> IF v.todo = << >> THEN v ELSE visit(v)]
           s == [todo |-> At(Linked[l], 1), chain |-> << >>]
           N == Cardinality(Template)
<1>1. F \in [Walk -> Walk]
  BY VisitWalks
<1>2. s \in Walk /\ WalkInv(l, s.todo, s.chain)
  BY WalkStarts DEF WalkInv, Walk
<1>3. PICK f : Iterates(f, Walk, F, s)
  <2> HIDE DEF F, s
  <2> QED
    BY <1>1, <1>2, Iteration
<1> HIDE DEF s
<1>4. /\ f \in [Nat -> Walk] /\ f[0] = s
      /\ \A n \in Nat : f[n].todo # << >> => f[n + 1] = visit(f[n])
      /\ \A n \in Nat : f[n].todo = << >> => f[n + 1] = f[n]
  <2>1. f \in [Nat -> Walk] /\ f[0] = s /\ \A n \in Nat : f[n + 1] = F[f[n]]
    BY <1>3, Zenon DEF Iterates
  <2>2. \A v \in Walk : F[v] = IF v.todo = << >> THEN v ELSE visit(v)
    BY Zenon
  <2> HIDE DEF F
  <2> QED
    BY <2>1, <2>2
<1> HIDE DEF F
<1> DEFINE I(n) == WalkInv(l, f[n].todo, f[n].chain)
           V == {n \in Nat : I(n)}
<1>5. \A n \in Nat : I(n)
  <2>1. 0 \in V
    BY <1>2, <1>4
  <2>2. ASSUME NEW n \in Nat, n \in V PROVE n + 1 \in V
    <3>1. f[n] \in Walk /\ I(n)
      BY <1>4, <2>2
    <3>2. CASE f[n].todo = << >>
      BY <1>4, <3>1, <3>2
    <3>3. CASE f[n].todo # << >>
      BY <1>4, <3>1, <3>3, VisitKeepsInv
    <3> QED
      BY <3>2, <3>3
  <2>3. \A n \in Nat : n \in V
    <3> HIDE DEF V
    <3> QED
      BY <2>1, <2>2, NatSetInduction
  <2> QED
    BY <2>3
<1> HIDE DEF I
<1>6. ASSUME NEW n \in Nat
      PROVE  /\ f[n].todo \in Seq(Node) /\ f[n].chain \in Seq(Node)
             /\ Len(f[n].todo) \in Nat /\ Len(f[n].chain) \in 0..N /\ N \in Nat
  <2>1. WalkInv(l, f[n].todo, f[n].chain)
    BY <1>5 DEF I
  <2>2. Len(f[n].chain) \in 0..N /\ N \in Nat
    BY <2>1, ChainBounded
  <2> QED
    BY <2>1, <2>2 DEF WalkInv
<1> HIDE DEF N
<1> DEFINE Ends == {n \in Nat : f[n].todo = << >>}
<1>7. Ends # {}
  <2> SUFFICES ASSUME \A n \in Nat : f[n].todo # << >> PROVE FALSE
    OBVIOUS
  <2> DEFINE T1 == {N - Len(f[n].chain) : n \in Nat}
  <2>1. T1 \in SUBSET Nat /\ T1 # {}
    BY <1>6
  <2>2. PICK a \in T1 : \A b \in T1 : a <= b
    <3> HIDE DEF T1
    <3> QED
      BY <2>1, LeastNatural
  <2> DEFINE M == {n \in Nat : N - Len(f[n].chain) = a}
             T2 == {Len(f[n].todo) : n \in M}
  <2>3. T2 \in SUBSET Nat /\ T2 # {}
    BY <1>6, <2>2
  <2>4. PICK c \in T2 : \A b \in T2 : c <= b
    <3> HIDE DEF T2
    <3> QED
      BY <2>3, LeastNatural
  <2>5. PICK n \in M : Len(f[n].todo) = c
    BY <2>4
  <2>6. /\ n \in Nat /\ n + 1 \in Nat /\ N - Len(f[n].chain) = a
        /\ N - Len(f[n + 1].chain) \in T1
    BY <2>5
  <2>7. N - Len(f[n].chain) <= N - Len(f[n + 1].chain)
    BY <2>2, <2>6
  <2>8. f[n + 1] = visit(f[n]) /\ f[n] \in Walk /\ f[n].todo # << >>
    BY <1>4, <2>6
  <2> DEFINE t == Head(f[n].todo)
  <2>9. CASE \E k \in DOMAIN f[n].chain : f[n].chain[k].id = t.id
    <3>1. f[n + 1].todo = Tail(f[n].todo) /\ f[n + 1].chain = f[n].chain
      BY <2>8, <2>9 DEF visit, Walk
    <3>2. Len(f[n + 1].todo) = Len(f[n].todo) - 1
      BY <1>6, <2>6, <2>8, <3>1
    <3>3. Len(f[n + 1].todo) \in T2
      BY <2>6, <3>1
    <3> HIDE DEF T2, M
    <3> QED
      BY <1>6, <2>4, <2>5, <2>6, <3>2, <3>3
  <2>10. CASE ~ \E k \in DOMAIN f[n].chain : f[n].chain[k].id = t.id
    <3>1. f[n + 1].chain = Append(f[n].chain, t)
      <4>1. visit(f[n]).chain = Append(f[n].chain, t)
        BY <2>10, Zenon DEF visit
      <4> QED
        BY <2>8, <4>1
    <3>2. Len(f[n + 1].chain) = Len(f[n].chain) + 1
      BY <1>6, <2>6, <2>8, <3>1
    <3> QED
      BY <1>6, <2>6, <2>7, <3>2
  <2> QED
    BY <2>9, <2>10
<1>8. PICK e \in Ends : \A n \in Ends : e <= n
  <2>1. Ends \in SUBSET Nat
    OBVIOUS
  <2> HIDE DEF Ends
  <2> QED
    BY <1>7, <2>1, LeastNatural
<1> DEFINE W == {n \in Nat : n <= e => build[f[n]] = build[s]}
<1>9. \A n \in Nat : n \in W
  <2>1. 0 \in W
    BY <1>4
  <2>2. ASSUME NEW n \in Nat, n \in W PROVE n + 1 \in W
    <3> SUFFICES ASSUME n + 1 <= e PROVE build[f[n + 1]] = build[s]
      OBVIOUS
    <3>1. n <= e /\ n \notin Ends
      BY <1>8
    <3>2. f[n] \in Walk /\ f[n].todo # << >> /\ f[n + 1] = visit(f[n])
      BY <1>4, <3>1
    <3>3. build[f[n]] = build[visit(f[n])]
      BY <3>2, BuildEquation
    <3> QED
      BY <2>2, <3>1, <3>2, <3>3
  <2> HIDE DEF W
  <2> QED
    BY <2>1, <2>2, NatSetInduction
<1>10. build[f[e]] = build[s]
  BY <1>8, <1>9
<1>11. f[e] \in Walk /\ f[e].todo = << >>
  BY <1>4, <1>8
<1>12. build[f[e]] = f[e].chain
  BY <1>11, BuildEquation
<1>13. WalkInv(l, f[e].todo, f[e].chain)
  BY <1>5, <1>8 DEF I
<1> QED
  BY <1>10, <1>11, <1>12, <1>13 DEF buildTemplateChain, s

\* Every template above the host is in the chain, at any distance.
LEMMA ChainClosed ==
  ASSUME NEW l \in Line, NEW c, WalkInv(l, << >>, c)
  PROVE  \A d \in Nat \ {0} : \A t \in Above(l, d) : \E k \in 1..Len(c) : c[k].id = t
<1>1. \A x : Met(<< >>, c, x) => \E k \in 1..Len(c) : c[k].id = x
  BY DEF Met
<1> DEFINE V == {n \in Nat : \A t \in Above(l, n + 1) : \E k \in 1..Len(c) : c[k].id = t}
<1>2. 0 \in V
  <2>1. \A k \in DOMAIN Linked[l] : \E j \in 1..Len(c) : c[j].id = Linked[l][k]
    BY <1>1 DEF WalkInv
  <2> QED
    BY <2>1, AboveLevels
<1>3. ASSUME NEW n \in Nat, n \in V PROVE n + 1 \in V
  <2> SUFFICES ASSUME NEW t \in Above(l, (n + 1) + 1)
               PROVE  \E k \in 1..Len(c) : c[k].id = t
    OBVIOUS
  <2>1. n + 1 \in Nat \ {0}
    OBVIOUS
  <2>2. PICK p \in Above(l, n + 1) : \E j \in DOMAIN Parents[p] : t = Parents[p][j]
    BY <2>1, AboveLevels
  <2>3. PICK k \in 1..Len(c) : c[k].id = p
    BY <1>3, <2>2
  <2>4. \A j \in DOMAIN Parents[c[k].id] : Met(<< >>, c, Parents[c[k].id][j])
    BY <2>3 DEF WalkInv
  <2> QED
    BY <1>1, <2>2, <2>3, <2>4
<1>4. \A n \in Nat : n \in V
  <2> HIDE DEF V
  <2> QED
    BY <1>2, <1>3, NatSetInduction
<1>5. \A d \in Nat \ {0} : d - 1 \in Nat /\ (d - 1) + 1 = d
  OBVIOUS
<1> QED
  BY <1>4, <1>5

\* buildTemplateChain returns, whatever cycles and repeated links there are,
\* with exactly the templates that can be reached from the host, each once
\* (its visited map in syncer.go).
THEOREM ChainComplete ==
  ASSUME NEW l \in Line, NEW c, c = buildTemplateChain(l)
  PROVE  /\ {c[k].id : k \in DOMAIN c} = UNION {Above(l, d) : d \in Nat \ {0}}
         /\ \A j, k \in DOMAIN c : c[j].id = c[k].id => j = k
<1>1. WalkInv(l, << >>, c)
  BY ChainBuilt
<1>2. DOMAIN c = 1..Len(c) /\ Len(c) \in Nat
  BY <1>1 DEF WalkInv
<1>3. \A k \in 1..Len(c) : c[k].depth \in Nat \ {0} /\ c[k].id \in Above(l, c[k].depth)
  BY <1>1, <1>2 DEF WalkInv
<1>4. \A d \in Nat \ {0} : \A t \in Above(l, d) : \E k \in 1..Len(c) : c[k].id = t
  BY <1>1, ChainClosed
<1>5. \A j, k \in 1..Len(c) : c[j].id = c[k].id => j = k
  BY <1>1 DEF WalkInv
<1> QED
  BY <1>2, <1>3, <1>4, <1>5

\* The nodes of c are at their distances from host l, and every template
\* above the host has its node.
IsChain(c, l) ==
  /\ c \in Seq(Node)
  /\ \A k \in 1..Len(c) : /\ c[k].depth \in 1..Cardinality(Template)
                          /\ c[k].id \in Above(l, c[k].depth)
  /\ \A d \in 1..Cardinality(Template) : \A t \in Above(l, d) :
       \E k \in 1..Len(c) : c[k].id = t /\ c[k].depth = d

\* With no template at two distances, the depths in the chain are distances.
LEMMA ChainOfHost ==
  ASSUME NEW l \in Line, NEW c, c = buildTemplateChain(l)
  PROVE  IsChain(c, l)
<1> DEFINE N == Cardinality(Template)
<1>1. WalkInv(l, << >>, c)
  BY ChainBuilt
<1>2. Len(c) \in 0..N /\ N \in Nat
  BY <1>1, ChainBounded
<1> HIDE DEF N
<1>3. c \in Seq(Node)
  BY <1>1 DEF WalkInv
<1>4. \A k \in 1..Len(c) : c[k].depth \in 1..N /\ c[k].id \in Above(l, c[k].depth)
  BY <1>1, <1>2 DEF WalkInv
<1>5. ASSUME NEW d \in 1..N, NEW t \in Above(l, d)
      PROVE  \E k \in 1..Len(c) : c[k].id = t /\ c[k].depth = d
  <2>1. d \in Nat \ {0}
    BY <1>2
  <2>2. PICK k \in 1..Len(c) : c[k].id = t
    BY <1>1, <2>1, ChainClosed
  <2>3. c[k].depth \in 1..N /\ t \in Above(l, c[k].depth)
    BY <1>4, <2>2
  <2>4. Above(l, d) \cap Above(l, c[k].depth) # {}
    BY <2>3
  <2>5. c[k].depth = d
    BY <2>3, <2>4, LevelsAssumption DEF N
  <2> QED
    BY <2>2, <2>5
<1> QED
  BY <1>3, <1>4, <1>5 DEF N, IsChain

-------------------------------------------------------------------------------
(* The sort. *)

\* Deepest first.
Falling(q) == \A i, j \in 1..Len(q) : i < j => q[i].depth >= q[j].depth

\* The nodes of q are the first n of c.
SameNodes(q, c, n) ==
  /\ \A k \in 1..Len(q) : \E j \in 1..n : q[k] = c[j]
  /\ \A j \in 1..n : \E k \in 1..Len(q) : q[k] = c[j]

\* The nodes of r are those of q and x.
OneMore(r, q, x) ==
  /\ \A k \in 1..Len(r) : r[k] = x \/ \E j \in 1..Len(q) : r[k] = q[j]
  /\ \E k \in 1..Len(r) : r[k] = x
  /\ \A j \in 1..Len(q) : \E k \in 1..Len(r) : r[k] = q[j]

\* One step of the sort puts the node where it belongs.
LEMMA InsertSorts ==
  ASSUME NEW q \in Seq(Node), Falling(q), NEW x \in Node,
         NEW r, r = insertDeepest(q, x)
  PROVE  /\ r \in Seq(Node)
         /\ Falling(r)
         /\ OneMore(r, q, x)
<1> DEFINE n == Len(q)
           Before(p) == \A k \in DOMAIN q : k <= p <=> q[k].depth >= x.depth
           p == CHOOSE i \in 0..n : Before(i)
           T == {i \in 0..n : \A k \in 1..n : k > i => q[k].depth < x.depth}
<1>1. n \in Nat /\ DOMAIN q = 1..n /\ x.depth \in Nat
      /\ \A k \in 1..n : q[k] \in Node /\ q[k].depth \in Nat
  <2>1. n \in Nat /\ DOMAIN q = 1..n /\ \A k \in 1..n : q[k] \in Node
    OBVIOUS
  <2>2. \A y \in Node : y.depth \in Nat
    BY DEF Node
  <2> QED
    BY <2>1, <2>2
<1>2. \E i \in 0..n : Before(i)
  <2>1. n \in T /\ T \in SUBSET Nat
    BY <1>1
  <2>2. PICK i \in T : \A j \in T : i <= j
    <3> HIDE DEF T
    <3> QED
      BY <2>1, LeastNatural
  <2>3. i \in 0..n /\ \A k \in 1..n : k > i => q[k].depth < x.depth
    BY <2>2
  <2>4. CASE i = 0
    <3>1. Before(0)
      BY <1>1, <2>3, <2>4
    <3> QED
      BY <1>1, <3>1
  <2>5. CASE i # 0
    <3>1. i - 1 \in 0..n /\ i - 1 \notin T /\ i \in 1..n
      <4>1. i \in Nat /\ i - 1 \in 0..n /\ i \in 1..n /\ ~ (i <= i - 1)
        BY <1>1, <2>3, <2>5
      <4>2. i - 1 \notin T
        <5> HIDE DEF T
        <5> QED
          BY <2>2, <4>1
      <4> QED
        BY <4>1, <4>2
    <3>2. PICK k \in 1..n : k > i - 1 /\ ~ (q[k].depth < x.depth)
      BY <3>1
    <3>3. k = i /\ q[i].depth >= x.depth
      BY <1>1, <2>3, <3>1, <3>2
    <3>4. \A j \in 1..n : j <= i => q[j].depth >= x.depth
      BY <1>1, <3>1, <3>3 DEF Falling
    <3>5. Before(i)
      BY <1>1, <2>3, <3>4
    <3> QED
      BY <2>3, <3>5
  <2> QED
    BY <2>4, <2>5
<1>3. p \in 0..n /\ Before(p)
  <2> HIDE DEF Before
  <2> QED
    BY <1>2
<1>4. r = SubSeq(q, 1, p) \o <<x>> \o SubSeq(q, p + 1, n)
  BY Zenon DEF insertDeepest
<1> HIDE DEF p, n
<1> DEFINE u == SubSeq(q, 1, p)
           v == SubSeq(q, p + 1, n)
<1>5. /\ u \in Seq(Node) /\ Len(u) = p /\ \A k \in 1..p : u[k] = q[k]
      /\ v \in Seq(Node) /\ Len(v) = n - p /\ \A k \in 1..(n - p) : v[k] = q[p + k]
  BY <1>1, <1>3
<1> HIDE DEF u, v
<1>6. /\ Len(r) = n + 1 /\ r \in Seq(Node)
      /\ \A k \in 1..(n + 1) :
           r[k] = IF k <= p THEN q[k] ELSE IF k = p + 1 THEN x ELSE q[k - 1]
  <2> DEFINE w == u \o <<x>>
  <2>1. w \in Seq(Node) /\ Len(w) = p + 1 /\ w[p + 1] = x /\ \A k \in 1..p : w[k] = q[k]
    BY <1>1, <1>3, <1>5
  <2>2. r = w \o v
    BY <1>4 DEF u, v
  <2> HIDE DEF w
  <2>3. /\ r \in Seq(Node) /\ Len(r) = Len(w) + Len(v)
        /\ \A k \in 1..Len(w) + Len(v) : r[k] = IF k <= Len(w) THEN w[k] ELSE v[k - Len(w)]
    <3>1. w \in Seq(Node) /\ v \in Seq(Node)
      BY <1>5, <2>1
    <3> QED
      BY <2>2, <3>1, ConcatProperties, Zenon
  <2>4. Len(r) = n + 1
    BY <1>1, <1>3, <1>5, <2>1, <2>3
  <2>5. ASSUME NEW k \in 1..(n + 1)
        PROVE  r[k] = IF k <= p THEN q[k] ELSE IF k = p + 1 THEN x ELSE q[k - 1]
    <3>1. k \in 1..(Len(w) + Len(v)) /\ k \in Nat /\ p \in Nat
      BY <1>1, <1>3, <1>5, <2>1
    <3>2. r[k] = IF k <= p + 1 THEN w[k] ELSE v[k - (p + 1)]
      BY <2>1, <2>3, <3>1
    <3>3. CASE k <= p
      BY <2>1, <3>1, <3>2, <3>3
    <3>4. CASE k = p + 1
      BY <2>1, <3>1, <3>2, <3>4
    <3>5. CASE k > p + 1
      <4>1. k - (p + 1) \in 1..(n - p) /\ p + (k - (p + 1)) = k - 1
        BY <1>1, <3>1, <3>5
      <4>2. v[k - (p + 1)] = q[k - 1]
        BY <1>5, <4>1
      <4> QED
        BY <3>1, <3>2, <3>5, <4>2
    <3> QED
      BY <3>1, <3>3, <3>4, <3>5
  <2> QED
    BY <2>3, <2>4, <2>5
<1>7. Falling(r)
  <2> SUFFICES ASSUME NEW i \in 1..(n + 1), NEW j \in 1..(n + 1), i < j
               PROVE  r[i].depth >= r[j].depth
    BY <1>6 DEF Falling
  <2>1. \A a, b \in 1..n : a < b => q[a].depth >= q[b].depth
    BY DEF Falling, n
  <2>2. \A k \in 1..n : k <= p <=> q[k].depth >= x.depth
    BY <1>1, <1>3
  <2>3. CASE j <= p
    <3>1. i \in 1..n /\ j \in 1..n /\ r[i] = q[i] /\ r[j] = q[j]
      BY <1>1, <1>3, <1>6, <2>3
    <3> QED
      BY <2>1, <3>1
  <2>4. CASE j = p + 1
    <3>1. i \in 1..n /\ i <= p /\ r[i] = q[i] /\ r[j] = x
      BY <1>1, <1>3, <1>6, <2>4
    <3> QED
      BY <2>2, <3>1
  <2>5. CASE j > p + 1
    <3>1. j - 1 \in 1..n /\ ~ (j - 1 <= p) /\ r[j] = q[j - 1]
      BY <1>1, <1>3, <1>6, <2>5
    <3>2. q[j - 1].depth < x.depth
      BY <1>1, <2>2, <3>1
    <3>3. CASE i <= p
      <4>1. i \in 1..n /\ r[i] = q[i]
        BY <1>1, <1>3, <1>6, <3>3
      <4>2. i < j - 1
        BY <1>1, <1>3, <3>1, <3>3
      <4> QED
        BY <2>1, <3>1, <4>1, <4>2
    <3>4. CASE i = p + 1
      <4>1. r[i] = x
        BY <1>1, <1>3, <1>6, <3>4
      <4> QED
        BY <1>1, <3>1, <3>2, <4>1
    <3>5. CASE i > p + 1
      <4>1. i - 1 \in 1..n /\ r[i] = q[i - 1] /\ i - 1 < j - 1
        BY <1>1, <1>3, <1>6, <3>5
      <4> QED
        BY <2>1, <3>1, <4>1
    <3> QED
      BY <1>1, <1>3, <3>3, <3>4, <3>5
  <2> QED
    BY <1>1, <1>3, <2>3, <2>4, <2>5
<1>8. ASSUME NEW k \in 1..(n + 1) PROVE r[k] = x \/ \E j \in 1..n : r[k] = q[j]
  <2>1. k <= p => k \in 1..n
    BY <1>1, <1>3
  <2>2. k > p + 1 => k - 1 \in 1..n
    BY <1>1, <1>3
  <2> QED
    BY <1>1, <1>3, <1>6, <2>1, <2>2
<1>9. p + 1 \in 1..(n + 1) /\ r[p + 1] = x
  BY <1>1, <1>3, <1>6
<1>10. ASSUME NEW j \in 1..n PROVE \E k \in 1..(n + 1) : r[k] = q[j]
  <2>1. CASE j <= p
    <3>1. j \in 1..(n + 1) /\ r[j] = q[j]
      BY <1>1, <1>3, <1>6, <2>1
    <3> QED
      BY <3>1
  <2>2. CASE j > p
    <3>1. j + 1 \in 1..(n + 1) /\ ~ (j + 1 <= p) /\ j + 1 # p + 1 /\ (j + 1) - 1 = j
      BY <1>1, <1>3, <2>2
    <3>2. r[j + 1] = q[j]
      BY <1>6, <3>1
    <3> QED
      BY <3>1, <3>2
  <2> QED
    BY <1>1, <1>3, <2>1, <2>2
<1> QED
  BY <1>6, <1>7, <1>8, <1>9, <1>10 DEF n, OneMore

\* sort.Slice: the same nodes, the deepest first.
LEMMA DeepestFirstSorts ==
  ASSUME NEW c \in Seq(Node), NEW q, q = deepestFirst(c)
  PROVE  q \in Seq(Node) /\ Falling(q) /\ SameNodes(q, c, Len(c))
<1> DEFINE n == Len(c)
           S == {s \in Seq(Node) : Falling(s)}
           h == [k \in 1..n |-> [s \in S |-> insertDeepest(s, c[k])]]
           IsSort(g) == g = [k \in 0..n |-> IF k = 0 THEN << >>
                                            ELSE insertDeepest(g[k - 1], c[k])]
<1>1. n \in Nat /\ \A k \in 1..n : c[k] \in Node
  OBVIOUS
<1>2. << >> \in S
  BY DEF Falling
<1>3. \A s \in S, x \in Node : insertDeepest(s, x) \in S
  BY InsertSorts
<1>4. h \in [1..n -> [S -> S]]
  BY <1>1, <1>3
<1>5. PICK f : IsFiniteRecursion(f, n, S, << >>, h)
  <2> HIDE DEF n, S, h
  <2> QED
    BY <1>1, <1>2, <1>4, FiniteRecursion
<1> HIDE DEF S, n
<1>6. IsSort(f)
  <2>1. f \in [0..n -> S] /\ f[0] = << >> /\ \A k \in 1..n : f[k] = h[k][f[k - 1]]
    BY <1>5 DEF IsFiniteRecursion
  <2>2. ASSUME NEW k \in 1..n PROVE f[k] = insertDeepest(f[k - 1], c[k])
    <3>1. f[k - 1] \in S
      BY <1>1, <2>1
    <3> QED
      BY <2>1, <3>1
  <2>3. \A k \in 0..n : k = 0 \/ k \in 1..n
    BY <1>1
  <2> QED
    BY <2>1, <2>2, <2>3
<1> DEFINE sorted == CHOOSE g : IsSort(g)
<1>7. IsSort(sorted)
  <2> HIDE DEF IsSort
  <2> QED
    BY <1>6
<1>8. q = sorted[n]
  BY Zenon DEF deepestFirst, n
<1> HIDE DEF sorted
<1>9. sorted[0] = << >> /\ \A k \in 1..n : sorted[k] = insertDeepest(sorted[k - 1], c[k])
  BY <1>1, <1>7
<1> DEFINE V == {k \in Nat : k <= n => /\ sorted[k] \in Seq(Node) /\ Falling(sorted[k])
                                       /\ SameNodes(sorted[k], c, k)}
<1>10. 0 \in V
  <2>1. Len(<< >>) = 0 /\ << >> \in Seq(Node) /\ \A k \in 1..0 : FALSE
    OBVIOUS
  <2>2. Falling(<< >>)
    BY <2>1 DEF Falling
  <2>3. SameNodes(<< >>, c, 0)
    BY <2>1 DEF SameNodes
  <2> QED
    BY <1>9, <2>1, <2>2, <2>3
<1>11. ASSUME NEW k \in Nat, k \in V PROVE k + 1 \in V
  <2> SUFFICES ASSUME k + 1 <= n
               PROVE  /\ sorted[k + 1] \in Seq(Node) /\ Falling(sorted[k + 1])
                      /\ SameNodes(sorted[k + 1], c, k + 1)
    OBVIOUS
  <2> DEFINE s == sorted[k]
             r == sorted[k + 1]
             x == c[k + 1]
  <2>1. k + 1 \in 1..n /\ (k + 1) - 1 = k /\ k <= n /\ x \in Node
    BY <1>1
  <2>2. r = insertDeepest(s, x)
    BY <1>9, <2>1
  <2>3. s \in Seq(Node) /\ Falling(s) /\ SameNodes(s, c, k)
    BY <1>11, <2>1
  <2> HIDE DEF s, r, x
  <2>4. r \in Seq(Node) /\ Falling(r) /\ OneMore(r, s, x)
    BY <2>1, <2>2, <2>3, InsertSorts
  <2>5. \A j \in 1..k : j \in 1..(k + 1)
    OBVIOUS
  <2>6. \A j \in 1..(k + 1) : j = k + 1 \/ j \in 1..k
    OBVIOUS
  <2>7. k + 1 \in 1..(k + 1)
    OBVIOUS
  <2>8. x = c[k + 1]
    BY DEF x
  <2>9. SameNodes(r, c, k + 1)
    <3>1. \A i \in 1..Len(r) : \E j \in 1..(k + 1) : r[i] = c[j]
      <4>1. \A j \in 1..Len(s) : \E i \in 1..(k + 1) : s[j] = c[i]
        BY <2>3, <2>5 DEF SameNodes
      <4>2. \E i \in 1..(k + 1) : x = c[i]
        BY <2>7, <2>8
      <4>3. ASSUME NEW i \in 1..Len(r) PROVE \E j \in 1..(k + 1) : r[i] = c[j]
        <5>1. r[i] = x \/ \E j \in 1..Len(s) : r[i] = s[j]
          BY <2>4 DEF OneMore
        <5>2. CASE r[i] = x
          BY <4>2, <5>2
        <5>3. ASSUME NEW j \in 1..Len(s), r[i] = s[j]
              PROVE  \E o \in 1..(k + 1) : r[i] = c[o]
          BY <4>1, <5>3
        <5> QED
          BY <5>1, <5>2, <5>3
      <4> QED
        BY <4>3
    <3>2. \A j \in 1..(k + 1) : \E i \in 1..Len(r) : r[i] = c[j]
      BY <2>3, <2>4, <2>6, <2>8 DEF SameNodes, OneMore
    <3> QED
      BY <3>1, <3>2 DEF SameNodes
  <2> QED
    BY <2>4, <2>9 DEF r
<1>12. \A k \in Nat : k \in V
  <2> HIDE DEF V
  <2> QED
    BY <1>10, <1>11, NatSetInduction
<1> QED
  BY <1>1, <1>8, <1>12 DEF n

-------------------------------------------------------------------------------
(* The writes of mergeMacros. *)

\* The last layer that sets macro m, if any, gives its value.
LastWriter(M, L, m) ==
  /\ (\A k \in 1..Len(L) : L[k][m] = Unset) => M[m] = Unset
  /\ \A k \in 1..Len(L) :
       L[k][m] # Unset /\ (\A j \in 1..Len(L) : j > k => L[j][m] = Unset)
         => M[m] = L[k][m]

\* The writes of mergeMacros leave the last value of every macro.
LEMMA MergeKeepsLast ==
  ASSUME NEW z, NEW l, NEW L, L = Layers(z, l), Len(L) \in Nat,
         NEW m \in Macro
  PROVE  LastWriter(mergeMacros(z, l), L, m)
<1> DEFINE n == Len(L)
           U == {L[p[1]][p[2]] : p \in (1..n) \X Macro} \cup {Unset}
           S == [Macro -> U]
           h == [k \in 1..n |-> [v \in S |->
                   [o \in Macro |-> IF L[k][o] = Unset THEN v[o] ELSE L[k][o]]]]
           IsMerge(g) == g = [k \in 0..n |->
              IF k = 0 THEN NoMacros
              ELSE [o \in Macro |-> IF L[k][o] = Unset THEN g[k - 1][o] ELSE L[k][o]]]
<1>1. n \in Nat
  OBVIOUS
<1>2. NoMacros \in S
  BY DEF NoMacros
<1>3. ASSUME NEW k \in 1..n, NEW o \in Macro PROVE L[k][o] \in U
  <2>1. <<k, o>> \in (1..n) \X Macro /\ <<k, o>>[1] = k /\ <<k, o>>[2] = o
    BY <1>3
  <2> QED
    BY <2>1
<1> HIDE DEF U, n
<1>4. h \in [1..n -> [S -> S]]
  BY <1>3
<1>5. PICK f : IsFiniteRecursion(f, n, S, NoMacros, h)
  <2> HIDE DEF S, h
  <2> QED
    BY <1>1, <1>2, <1>4, FiniteRecursion
<1> HIDE DEF S
<1>6. IsMerge(f)
  <2>1. f \in [0..n -> S] /\ f[0] = NoMacros /\ \A k \in 1..n : f[k] = h[k][f[k - 1]]
    BY <1>5 DEF IsFiniteRecursion
  <2>2. ASSUME NEW k \in 1..n
        PROVE  f[k] = [o \in Macro |-> IF L[k][o] = Unset THEN f[k - 1][o] ELSE L[k][o]]
    <3>1. f[k - 1] \in S
      BY <1>1, <2>1
    <3> QED
      BY <2>1, <3>1
  <2>3. \A k \in 0..n : k = 0 \/ k \in 1..n
    BY <1>1
  <2> QED
    BY <2>1, <2>2, <2>3
<1> DEFINE final == CHOOSE g : IsMerge(g)
<1>7. IsMerge(final)
  <2> HIDE DEF IsMerge
  <2> QED
    BY <1>6
<1>8. mergeMacros(z, l) = final[n]
  BY Zenon DEF mergeMacros, n
<1> HIDE DEF final
<1>9. /\ final[0][m] = Unset
      /\ \A k \in 1..n : final[k][m] = IF L[k][m] = Unset THEN final[k - 1][m] ELSE L[k][m]
  <2>1. final[0] = NoMacros
    BY <1>1, <1>7
  <2>2. \A k \in 1..n : final[k] =
          [o \in Macro |-> IF L[k][o] = Unset THEN final[k - 1][o] ELSE L[k][o]]
    <3> TAKE k \in 1..n
    <3>1. k \in 0..n /\ k # 0
      BY <1>1
    <3> QED
      BY <1>7, <3>1, Zenon
  <2> QED
    BY <2>1, <2>2 DEF NoMacros
<1> DEFINE V == {i \in Nat : i <= n =>
              /\ (\A k \in 1..i : L[k][m] = Unset) => final[i][m] = Unset
              /\ \A k \in 1..i :
                   L[k][m] # Unset /\ (\A j \in 1..i : j > k => L[j][m] = Unset)
                     => final[i][m] = L[k][m]}
<1>10. 0 \in V
  BY <1>9
<1>11. ASSUME NEW i \in Nat, i \in V PROVE i + 1 \in V
  <2> SUFFICES ASSUME i + 1 <= n
               PROVE  /\ (\A k \in 1..(i + 1) : L[k][m] = Unset) => final[i + 1][m] = Unset
                      /\ \A k \in 1..(i + 1) :
                           L[k][m] # Unset /\ (\A j \in 1..(i + 1) : j > k => L[j][m] = Unset)
                             => final[i + 1][m] = L[k][m]
    OBVIOUS
  <2>1. /\ (\A k \in 1..i : L[k][m] = Unset) => final[i][m] = Unset
        /\ \A k \in 1..i :
             L[k][m] # Unset /\ (\A j \in 1..i : j > k => L[j][m] = Unset)
               => final[i][m] = L[k][m]
    BY <1>1, <1>11
  <2>2. final[i + 1][m] = IF L[i + 1][m] = Unset THEN final[i][m] ELSE L[i + 1][m]
    <3>1. i + 1 \in 1..n /\ (i + 1) - 1 = i
      BY <1>1
    <3> QED
      BY <1>9, <3>1
  <2>3. \A k \in 1..i : k \in 1..(i + 1) /\ i + 1 > k
    OBVIOUS
  <2>4. i + 1 \in 1..(i + 1)
    OBVIOUS
  <2>5. \A k \in 1..(i + 1) : k = i + 1 \/ k \in 1..i
    OBVIOUS
  <2>6. (\A k \in 1..(i + 1) : L[k][m] = Unset) => final[i + 1][m] = Unset
    BY <2>1, <2>2, <2>3, <2>4
  <2>7. ASSUME NEW k \in 1..(i + 1), L[k][m] # Unset,
               \A j \in 1..(i + 1) : j > k => L[j][m] = Unset
        PROVE  final[i + 1][m] = L[k][m]
    <3>1. CASE k = i + 1
      BY <2>2, <2>7, <3>1
    <3>2. CASE k \in 1..i
      <4>1. L[i + 1][m] = Unset
        BY <2>3, <2>4, <2>7, <3>2
      <4>2. \A j \in 1..i : j > k => L[j][m] = Unset
        BY <2>3, <2>7
      <4> QED
        BY <2>1, <2>2, <2>7, <3>2, <4>1, <4>2
    <3> QED
      BY <2>5, <3>1, <3>2
  <2> QED
    BY <2>6, <2>7
<1>12. \A i \in Nat : i \in V
  <2> HIDE DEF V
  <2> QED
    BY <1>10, <1>11, NatSetInduction
<1>13. /\ (\A k \in 1..n : L[k][m] = Unset) => final[n][m] = Unset
       /\ \A k \in 1..n :
            L[k][m] # Unset /\ (\A j \in 1..n : j > k => L[j][m] = Unset)
              => final[n][m] = L[k][m]
  BY <1>1, <1>12
<1> QED
  BY <1>8, <1>13 DEF LastWriter, n

\* The layers of a host: the global macros, those of the templates in q, and
\* its own.
AreLayers(L, z, l, q) ==
  /\ Len(q) \in Nat /\ Len(L) = Len(q) + 2
  /\ L[1] = z.global
  /\ \A k \in 1..Len(q) : L[k + 1] = z.template[q[k].id]
  /\ L[Len(q) + 2] = z.host[l]

\* mergeMacros writes the templates with the deepest first.
LEMMA LayersOfHost ==
  ASSUME NEW z \in Configuration, NEW l \in Line,
         NEW q, q = deepestFirst(buildTemplateChain(l)), NEW L, L = Layers(z, l)
  PROVE  AreLayers(L, z, l, q)
<1> DEFINE c == buildTemplateChain(l)
           T == [k \in DOMAIN q |-> z.template[q[k].id]]
           n == Len(q)
<1>1. c \in Seq(Node)
  BY ChainOfHost DEF IsChain
<1> HIDE DEF c
<1>2. q \in Seq(Node)
  BY <1>1, DeepestFirstSorts DEF c
<1>3. n \in Nat /\ DOMAIN q = 1..n /\ \A k \in 1..n : q[k].id \in Template
  <2>1. n \in Nat /\ DOMAIN q = 1..n /\ \A k \in 1..n : q[k] \in Node
    BY <1>2
  <2> QED
    BY <2>1 DEF Node
<1>4. /\ z.global \in Macros /\ z.host[l] \in Macros
      /\ \A t \in Template : z.template[t] \in Macros
  BY DEF Configuration
<1>5. T \in [1..n -> Macros] /\ \A k \in 1..n : T[k] = z.template[q[k].id]
  BY <1>3, <1>4
<1>6. L = <<z.global>> \o T \o <<z.host[l]>>
  BY Zenon DEF Layers
<1> HIDE DEF T, n
<1>7. T \in Seq(Macros) /\ Len(T) = n
  BY <1>3, <1>5
<1> DEFINE A == <<z.global>> \o T
<1>8. /\ A \in Seq(Macros) /\ Len(A) = n + 1 /\ A[1] = z.global
      /\ \A k \in 1..n : A[k + 1] = T[k]
  <2> DEFINE g == z.global
             G == <<g>>
  <2>1. G \in Seq(Macros) /\ Len(G) = 1 /\ G[1] = g
    BY <1>4
  <2> HIDE DEF G, g
  <2>2. /\ G \o T \in Seq(Macros) /\ Len(G \o T) = Len(G) + Len(T)
        /\ \A i \in 1..Len(G) + Len(T) :
             (G \o T)[i] = IF i <= Len(G) THEN G[i] ELSE T[i - Len(G)]
    BY <1>7, <2>1, ConcatProperties, Zenon
  <2> DEFINE B == G \o T
  <2>3. A = B
    BY DEF G, g
  <2> HIDE DEF A, B
  <2>4. /\ B \in Seq(Macros) /\ Len(B) = 1 + n
        /\ \A i \in 1..(1 + n) : B[i] = IF i <= 1 THEN G[i] ELSE T[i - 1]
    BY <1>3, <1>7, <2>1, <2>2 DEF B
  <2>5. B[1] = g
    BY <1>3, <2>1, <2>4
  <2>6. ASSUME NEW k \in 1..n PROVE B[k + 1] = T[k]
    <3>1. k + 1 \in 1..(1 + n) /\ ~ (k + 1 <= 1) /\ (k + 1) - 1 = k
      BY <1>3
    <3> QED
      BY <2>4, <3>1
  <2> QED
    BY <1>3, <2>3, <2>4, <2>5, <2>6 DEF g
<1>9. L = A \o <<z.host[l]>>
  BY <1>6
<1> HIDE DEF A
<1>10. L = Append(A, z.host[l])
  BY <1>4, <1>8, <1>9, AppendIsConcat
<1>11. /\ Len(L) = (n + 1) + 1 /\ L[(n + 1) + 1] = z.host[l]
       /\ \A k \in 1..(n + 1) : L[k] = A[k]
  BY <1>3, <1>4, <1>8, <1>10
<1>12. Len(L) = n + 2 /\ L[n + 2] = z.host[l]
  BY <1>3, <1>11
<1>13. L[1] = z.global
  BY <1>3, <1>8, <1>11
<1>14. ASSUME NEW k \in 1..n PROVE L[k + 1] = z.template[q[k].id]
  <2>1. k + 1 \in 1..(n + 1)
    BY <1>3
  <2> QED
    BY <1>5, <1>8, <1>11, <2>1
<1> QED
  BY <1>3, <1>12, <1>13, <1>14 DEF n, AreLayers

\* The nearest level that sets a macro, as Effective picks it.
LEMMA EffectiveAt ==
  ASSUME NEW z, NEW l, NEW m, NEW d \in 0..Cardinality(Template), NEW v,
         v \in SetAt(z, l, m, d),
         \A e \in 0..Cardinality(Template) : e < d => SetAt(z, l, m, e) = {}
  PROVE  v \in Effective(z, l, m)
<1> DEFINE N == Cardinality(Template)
           levels == {e \in 0..N : SetAt(z, l, m, e) # {}}
           least == CHOOSE e \in levels : \A f \in levels : e <= f
<1>1. d \in levels
  OBVIOUS
<1>2. N \in Nat
  BY LineConfigAssumption, FS_CardinalityType
<1> HIDE DEF N
<1>3. \A f \in levels : d <= f
  <2> TAKE f \in levels
  <2>1. f \in 0..N /\ SetAt(z, l, m, f) # {} /\ d \in 0..N
    BY DEF N
  <2>2. ~ (f < d)
    BY <2>1 DEF N
  <2> QED
    BY <1>2, <2>1, <2>2
<1>4. least \in levels /\ \A f \in levels : least <= f
  <2>1. \E e \in levels : \A f \in levels : e <= f
    BY <1>1, <1>3
  <2> HIDE DEF levels
  <2> QED
    BY <2>1
<1>5. least = d
  <2>1. least \in 0..N /\ d \in 0..N
    BY <1>4 DEF N
  <2>2. least <= d /\ d <= least
    BY <1>1, <1>3, <1>4
  <2> HIDE DEF least
  <2> QED
    BY <1>2, <2>1, <2>2
<1>6. levels # {}
  BY <1>1
<1>7. Effective(z, l, m) = IF levels = {} THEN {z.global[m]} ELSE SetAt(z, l, m, least)
  BY Zenon DEF Effective, N
<1> HIDE DEF least, levels
<1> QED
  BY <1>5, <1>6, <1>7

\* mergeMacros gives every macro a value of the nearest level that sets it.
LEMMA MergeIsEffective ==
  ASSUME NEW z \in Configuration, NEW l \in Line, NEW m \in Macro
  PROVE  mergeMacros(z, l)[m] \in Effective(z, l, m)
<1> DEFINE c == buildTemplateChain(l)
           q == deepestFirst(c)
           n == Len(q)
           L == Layers(z, l)
           M == mergeMacros(z, l)
           N == Cardinality(Template)
           Sets(k) == z.template[q[k].id][m] # Unset
<1>1. /\ c \in Seq(Node)
      /\ \A k \in 1..Len(c) : c[k].depth \in 1..N /\ c[k].id \in Above(l, c[k].depth)
      /\ \A d \in 1..N : \A t \in Above(l, d) :
           \E k \in 1..Len(c) : c[k].id = t /\ c[k].depth = d
  <2>1. IsChain(c, l)
    BY ChainOfHost
  <2> HIDE DEF c
  <2> QED
    BY <2>1, Zenon DEF IsChain
<1>2. q \in Seq(Node) /\ Falling(q) /\ SameNodes(q, c, Len(c))
  BY <1>1, DeepestFirstSorts
<1>3. /\ n \in Nat /\ Len(L) = n + 2
      /\ L[1] = z.global
      /\ \A k \in 1..n : L[k + 1] = z.template[q[k].id]
      /\ L[n + 2] = z.host[l]
  <2>1. AreLayers(L, z, l, q)
    BY LayersOfHost
  <2> HIDE DEF L, q
  <2> QED
    BY <2>1, Zenon DEF AreLayers
<1>4. N \in Nat
  BY LineConfigAssumption, FS_CardinalityType
<1> HIDE DEF c, q, N, L, M
<1>5. LastWriter(M, L, m)
  <2>1. Len(L) \in Nat
    BY <1>3
  <2> QED
    BY <2>1, MergeKeepsLast DEF L, M
<1>6. \A k \in 1..n : q[k].depth \in 1..N /\ q[k].id \in Above(l, q[k].depth)
  BY <1>1, <1>2 DEF SameNodes
<1>7. \A d \in 1..N : \A t \in Above(l, d) : \E k \in 1..n : q[k].id = t /\ q[k].depth = d
  <2> SUFFICES ASSUME NEW d \in 1..N, NEW t \in Above(l, d)
               PROVE  \E k \in 1..n : q[k].id = t /\ q[k].depth = d
    OBVIOUS
  <2>1. PICK j \in 1..Len(c) : c[j].id = t /\ c[j].depth = d
    BY <1>1
  <2>2. PICK k \in 1..n : q[k] = c[j]
    BY <1>2 DEF SameNodes
  <2> QED
    BY <2>1, <2>2
<1> HIDE DEF n
<1>8. \A i \in 1..(n + 2) : i = 1 \/ i = n + 2 \/ (i - 1 \in 1..n /\ i = (i - 1) + 1)
  BY <1>3
<1>9. CASE z.host[l][m] # Unset
  <2>1. M[m] = z.host[l][m]
    <3>1. n + 2 \in 1..Len(L) /\ \A j \in 1..Len(L) : ~ (j > n + 2)
      BY <1>3
    <3>2. L[n + 2][m] # Unset
      BY <1>3, <1>9
    <3>3. M[m] = L[n + 2][m]
      BY <1>5, <3>1, <3>2 DEF LastWriter
    <3> QED
      BY <1>3, <3>3
  <2>2. M[m] \in SetAt(z, l, m, 0)
    BY <1>9, <2>1 DEF SetAt
  <2>3. 0 \in 0..N /\ \A e \in 0..N : ~ (e < 0)
    BY <1>4
  <2> QED
    BY <2>2, <2>3, EffectiveAt DEF N, M
<1>10. CASE z.host[l][m] = Unset /\ \E k \in 1..n : Sets(k)
  <2> DEFINE B == {n - k : k \in {i \in 1..n : Sets(i)}}
  <2>1. B \in SUBSET Nat /\ B # {}
    BY <1>3, <1>10
  <2>2. PICK a \in B : \A b \in B : a <= b
    <3> HIDE DEF B
    <3> QED
      BY <2>1, LeastNatural
  <2>3. PICK k \in 1..n : Sets(k) /\ a = n - k
    BY <2>2
  <2>4. \A j \in 1..n : j > k => ~ Sets(j)
    <3> SUFFICES ASSUME NEW j \in 1..n, j > k, Sets(j) PROVE FALSE
      OBVIOUS
    <3>1. n - j \in B
      OBVIOUS
    <3>2. a <= n - j
      BY <2>2, <3>1
    <3> QED
      BY <1>3, <2>3, <3>2
  <2>5. M[m] = z.template[q[k].id][m]
    <3>1. k + 1 \in 1..Len(L) /\ L[k + 1] = z.template[q[k].id] /\ L[k + 1][m] # Unset
      BY <1>3, <2>3
    <3>2. ASSUME NEW j \in 1..Len(L), j > k + 1 PROVE L[j][m] = Unset
      <4>1. CASE j = n + 2
        BY <1>3, <1>10, <4>1
      <4>2. CASE j - 1 \in 1..n /\ j = (j - 1) + 1
        <5>1. L[j] = z.template[q[j - 1].id]
          BY <1>3, <4>2
        <5>2. ~ Sets(j - 1)
          BY <1>3, <2>4, <3>2, <4>2
        <5> QED
          BY <5>1, <5>2
      <4>3. j # 1
        BY <3>2
      <4> QED
        BY <1>3, <1>8, <4>1, <4>2, <4>3
    <3>3. M[m] = L[k + 1][m]
      BY <1>5, <3>1, <3>2 DEF LastWriter
    <3> QED
      BY <3>1, <3>3
  <2> DEFINE d == q[k].depth
  <2>6. d \in 1..N /\ q[k].id \in Above(l, d)
    BY <1>6
  <2>7. M[m] \in SetAt(z, l, m, d)
    <3>1. d # 0
      BY <1>4, <2>6
    <3> QED
      BY <2>3, <2>5, <2>6, <3>1 DEF SetAt
  <2>8. ASSUME NEW e \in 0..N, e < d PROVE SetAt(z, l, m, e) = {}
    <3>1. CASE e = 0
      BY <1>10, <3>1 DEF SetAt
    <3>2. CASE e # 0
      <4>1. e \in 1..N
        BY <1>4, <3>2
      <4>2. ASSUME NEW t \in Above(l, e) PROVE z.template[t][m] = Unset
        <5>1. PICK j \in 1..n : q[j].id = t /\ q[j].depth = e
          BY <1>7, <4>1
        <5>2. j > k
          <6>1. ~ (j <= k)
            <7> SUFFICES ASSUME j <= k PROVE FALSE
              OBVIOUS
            <7>1. j = k \/ j < k
              BY <1>3
            <7>2. j < k => q[j].depth >= q[k].depth
              BY <1>2 DEF Falling, n
            <7> QED
              BY <1>4, <2>6, <2>8, <4>1, <5>1, <7>1, <7>2
          <6> QED
            BY <1>3, <6>1
        <5> QED
          BY <2>4, <5>1, <5>2
      <4> QED
        BY <3>2, <4>2 DEF SetAt
    <3> QED
      BY <3>1, <3>2
  <2>9. d \in 0..N
    BY <1>4, <2>6
  <2> HIDE DEF d
  <2> QED
    BY <2>7, <2>8, <2>9, EffectiveAt DEF N, M
<1>11. CASE z.host[l][m] = Unset /\ ~ \E k \in 1..n : Sets(k)
  <2>1. M[m] = z.global[m]
    <3>1. \A j \in 1..Len(L) : j > 1 => L[j][m] = Unset
      <4> SUFFICES ASSUME NEW j \in 1..(n + 2), j > 1 PROVE L[j][m] = Unset
        BY <1>3
      <4>1. CASE j = n + 2
        BY <1>3, <1>11, <4>1
      <4>2. CASE j - 1 \in 1..n /\ j = (j - 1) + 1
        <5>1. L[j] = z.template[q[j - 1].id] /\ ~ Sets(j - 1)
          BY <1>3, <1>11, <4>2
        <5> QED
          BY <5>1
      <4>3. j # 1
        OBVIOUS
      <4> QED
        BY <1>8, <4>1, <4>2, <4>3
    <3>2. 1 \in 1..Len(L)
      BY <1>3
    <3>3. CASE z.global[m] # Unset
      BY <1>3, <1>5, <3>1, <3>2, <3>3 DEF LastWriter
    <3>4. CASE z.global[m] = Unset
      <4>1. \A j \in 1..Len(L) : L[j][m] = Unset
        <5> TAKE j \in 1..Len(L)
        <5>1. CASE j = 1
          BY <1>3, <3>4, <5>1
        <5>2. CASE j > 1
          BY <3>1, <5>2
        <5> QED
          BY <1>3, <5>1, <5>2
      <4> QED
        BY <1>5, <3>4, <4>1 DEF LastWriter
    <3> QED
      BY <3>3, <3>4
  <2>2. ASSUME NEW e \in 0..N PROVE SetAt(z, l, m, e) = {}
    <3>1. CASE e = 0
      BY <1>11, <3>1 DEF SetAt
    <3>2. CASE e # 0
      <4>1. e \in 1..N
        BY <1>4, <3>2
      <4>2. \A t \in Above(l, e) : z.template[t][m] = Unset
        BY <1>7, <1>11, <4>1
      <4> QED
        BY <3>2, <4>2 DEF SetAt
    <3> QED
      BY <3>1, <3>2
  <2>3. {e \in 0..N : SetAt(z, l, m, e) # {}} = {}
    BY <2>2
  <2>4. Effective(z, l, m) = {z.global[m]}
    BY <2>3 DEF Effective, N
  <2> QED
    BY <2>1, <2>4 DEF M
<1> QED
  BY <1>9, <1>10, <1>11

\* fetchLines skips the hosts with a template that cannot be read, anywhere
\* above them, and only those.
LEMMA ReadableHosts ==
  ASSUME NEW z \in Configuration
  PROVE  Readable(z) = {l \in z.listed : \A d \in 1..Cardinality(Template) :
                          Above(l, d) \cap z.failing = {}}
<1> DEFINE N == Cardinality(Template)
<1> SUFFICES ASSUME NEW l \in z.listed
             PROVE  (\A k \in DOMAIN buildTemplateChain(l) :
                       buildTemplateChain(l)[k].id \notin z.failing)
                    <=> \A d \in 1..N : Above(l, d) \cap z.failing = {}
  BY Zenon DEF Readable
<1>1. l \in Line
  BY DEF Configuration
<1> DEFINE c == buildTemplateChain(l)
<1>2. /\ c \in Seq(Node)
      /\ \A k \in 1..Len(c) : c[k].depth \in 1..N /\ c[k].id \in Above(l, c[k].depth)
      /\ \A d \in 1..N : \A t \in Above(l, d) :
           \E k \in 1..Len(c) : c[k].id = t /\ c[k].depth = d
  <2>1. IsChain(c, l)
    BY <1>1, ChainOfHost
  <2> HIDE DEF c
  <2> QED
    BY <2>1, Zenon DEF IsChain
<1> HIDE DEF c, N
<1>3. DOMAIN c = 1..Len(c)
  BY <1>2
<1>4. (\A k \in DOMAIN c : c[k].id \notin z.failing)
        <=> \A d \in 1..N : Above(l, d) \cap z.failing = {}
  BY <1>2, <1>3
<1> QED
  BY <1>4 DEF c

\* For any configuration, fetchLines returns the hosts all of whose templates
\* can be read, each with the router and the interval of the nearest level
\* that sets them (the comment above fetchLines in syncer.go).
THEOREM FetchedSettings ==
  ASSUME NEW z \in Configuration
  PROVE  /\ DOMAIN fetchLines(z) =
              {l \in z.listed : \A d \in 1..Cardinality(Template) :
                 Above(l, d) \cap z.failing = {}}
         /\ \A l \in DOMAIN fetchLines(z) :
              /\ \E v \in Effective(z, l, "router") : fetchLines(z)[l].router = routerOf(v)
              /\ \E v \in Effective(z, l, "interval") :
                   fetchLines(z)[l].interval = parseDurationFromMacro(v)
<1>1. DOMAIN fetchLines(z) = Readable(z)
  BY DEF fetchLines
<1>2. ASSUME NEW l \in Readable(z)
      PROVE  /\ fetchLines(z)[l].router = routerOf(mergeMacros(z, l)["router"])
             /\ fetchLines(z)[l].interval = parseDurationFromMacro(mergeMacros(z, l)["interval"])
  BY DEF fetchLines
<1>3. ASSUME NEW l \in Readable(z)
      PROVE  /\ mergeMacros(z, l)["router"] \in Effective(z, l, "router")
             /\ mergeMacros(z, l)["interval"] \in Effective(z, l, "interval")
  <2>1. l \in Line
    BY DEF Readable, Configuration
  <2>2. "router" \in Macro /\ "interval" \in Macro
    BY DEF Macro
  <2> QED
    BY <2>1, <2>2, MergeIsEffective
<1> QED
  BY <1>1, <1>2, <1>3, ReadableHosts

===============================================================================
