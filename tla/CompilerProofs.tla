--------------------------- MODULE CompilerProofs ----------------------------
(***************************************************************************)
(* Theorems about the compiler, for every set of requests: any accepted    *)
(* projects, with any graph of joins and any nesting of metrics, any       *)
(* queries and any callers.                                                *)
(*                                                                         *)
(*   ScansStayScoped  build_alias_tree and the simple paths only meet      *)
(*                    listed aliases, so plan_joins reaches every alias a  *)
(*                    leaf names and plan_leaf scopes every alias it       *)
(*                    joins; ScopeInv says so of all leaves planned so far *)
(*   LeavesStayKept   the readings of a metric and the populations around  *)
(*                    them unfold in step, plan_leaf turns each ask into   *)
(*                    one leaf under just those populations, and leaves of *)
(*                    one key differ at most in a measure their names tell *)
(*                    apart; RowsInv carries it to what compose fuses      *)
(*                                                                         *)
(* A recursive LET is reasoned about through the function it defines: a    *)
(* lemma that the function exists up to a bound, then induction over Nat.  *)
(***************************************************************************)
EXTENDS Compiler, FiniteSetTheorems, WellFoundedInduction, TLAPS

LEMMA LeastNatural ==
    ASSUME NEW S \in SUBSET Nat, S # {}
    PROVE  \E x \in S : \A y \in S : x <= y
  <1> DEFINE R == OpToRel(<, Nat)
  <1>1. IsWellFoundedOn(R, Nat)
    BY NatLessThanWellFounded
  <1>2. \A x, y \in Nat : <<y, x>> \in R <=> y < x
    BY DEF OpToRel
  <1> HIDE DEF R
  <1>3. PICK x \in S : \A y \in S : ~(<<y, x>> \in R)
    BY <1>1, WFMin
  <1>4. \A y \in S : ~(y < x)
    BY <1>2, <1>3
  <1> QED
    BY <1>4

LEMMA Induction ==
    ASSUME NEW S \in SUBSET Nat, 0 \in S, \A n \in S : n + 1 \in S
    PROVE  S = Nat
  <1> SUFFICES ASSUME Nat \ S # {} PROVE FALSE
    OBVIOUS
  <1>1. PICK x \in Nat \ S : \A y \in Nat \ S : x <= y
    <2>1. (Nat \ S) \in SUBSET Nat
      OBVIOUS
    <2> QED
      BY <2>1, LeastNatural
  <1>2. x # 0 /\ x - 1 \in Nat /\ x - 1 < x
    BY <1>1
  <1>3. x - 1 \in S
    BY <1>1, <1>2
  <1> QED
    BY <1>1, <1>2, <1>3

LEMMA UpTo ==
    ASSUME NEW m \in Nat, NEW S \in SUBSET Nat, 0 \in S, \A n \in S : n < m => n + 1 \in S
    PROVE  m \in S
  <1> DEFINE T == {n \in Nat : n <= m => n \in S}
  <1>1. 0 \in T
    OBVIOUS
  <1>2. \A n \in T : n + 1 \in T
    OBVIOUS
  <1>3. T \in SUBSET Nat
    OBVIOUS
  <1>4. T = Nat
    <2> HIDE DEF T
    <2> QED
      BY <1>1, <1>2, <1>3, Induction
  <1> QED
    BY <1>4

\* A sequence of anything.
IsSeq(s) == \E S : s \in Seq(S)

LEMMA SeqFacts ==
    ASSUME NEW s, IsSeq(s)
    PROVE  Len(s) \in Nat /\ DOMAIN s = 1..Len(s)
  BY DEF IsSeq

LEMMA AppendFacts ==
    ASSUME NEW s, IsSeq(s), NEW e
    PROVE  /\ IsSeq(Append(s, e)) /\ Len(Append(s, e)) = Len(s) + 1
           /\ DOMAIN Append(s, e) = 1..(Len(s) + 1)
           /\ Append(s, e)[Len(s) + 1] = e
           /\ \A i \in 1..Len(s) : Append(s, e)[i] = s[i]
  <1>1. PICK S : s \in Seq(S)
    BY DEF IsSeq
  <1> DEFINE T == S \cup {e}
  <1>2. s \in Seq(T) /\ e \in T
    BY <1>1
  <1> HIDE DEF T
  <1>3. Append(s, e) \in Seq(T)
    BY <1>2
  <1> QED
    BY <1>2, <1>3 DEF IsSeq

LEMMA EmptyFacts == IsSeq(<<>>) /\ Len(<<>>) = 0 /\ DOMAIN <<>> = {}
  <1>1. <<>> \in Seq({})
    OBVIOUS
  <1> QED
    BY <1>1 DEF IsSeq
-----------------------------------------------------------------------------
(* The aliases within reach                                                 *)

OrderSize == Len(Order) \in Nat /\ DOMAIN Order = 1..Len(Order)

LEMMA OrderHasSize == OrderSize
  BY OrderAssumption DEF OrderSize

\* Order lists every alias of the graph.
Listed(g) == \A s \in DOMAIN g : \A i \in DOMAIN g[s].joins : g[s].joins[i].as \in Range(Order)

LEMMA JoinsListed ==
    ASSUME NEW g, Listed(g), NEW s, NEW i \in DOMAIN JoinsOf(g, s)
    PROVE  JoinsOf(g, s)[i].as \in Range(Order)
  <1>1. CASE s \in DOMAIN g
    BY <1>1 DEF JoinsOf, Listed
  <1>2. CASE s \notin DOMAIN g
    <2>1. JoinsOf(g, s) = <<>>
      BY <1>2 DEF JoinsOf
    <2> QED
      BY <2>1, EmptyFacts
  <1> QED
    BY <1>1, <1>2

\* The breadth-first search, up to the m-th alias of the queue.
Explored(f, g, owner, m) ==
    f = [n \in 0..m |-> IF n = 0 THEN [tree |-> [a \in {owner} |-> owner], queue |-> <<owner>>] ELSE Visit(g, f[n - 1], n)]

LEMMA ExploredExists ==
    ASSUME NEW g, NEW owner, NEW m \in Nat
    PROVE  \E f : Explored(f, g, owner, m)
  <1> DEFINE S == {k \in Nat : \E f : Explored(f, g, owner, k)}
  <1>1. 0 \in S
    <2>1. Explored([n \in 0..0 |-> [tree |-> [a \in {owner} |-> owner], queue |-> <<owner>>]], g, owner, 0)
      BY DEF Explored
    <2> QED
      BY <2>1
  <1>2. ASSUME NEW k \in S PROVE k + 1 \in S
    <2>1. PICK f : Explored(f, g, owner, k)
      OBVIOUS
    <2> DEFINE h == [n \in 0..k+1 |-> IF n = k + 1 THEN Visit(g, f[k], (k + 1)) ELSE f[n]]
    <2>2. ASSUME NEW n \in 0..k+1
          PROVE  h[n] = IF n = 0 THEN [tree |-> [a \in {owner} |-> owner], queue |-> <<owner>>] ELSE Visit(g, h[n - 1], n)
      <3>1. CASE n = k + 1
        <4>1. h[n] = Visit(g, f[k], (k + 1)) /\ h[n - 1] = f[k]
          BY <3>1
        <4> QED
          BY <3>1, <4>1
      <3>2. CASE n # k + 1 /\ n = 0
        <4>1. h[n] = f[0] /\ f[0] = [tree |-> [a \in {owner} |-> owner], queue |-> <<owner>>]
          BY <2>1, <3>2 DEF Explored
        <4> QED
          BY <3>2, <4>1
      <3>3. CASE n # k + 1 /\ n # 0
        <4>1. h[n] = f[n] /\ h[n - 1] = f[n - 1] /\ n \in 0..k
          BY <3>3
        <4>2. f[n] = Visit(g, f[n - 1], n)
          BY <2>1, <3>3, <4>1 DEF Explored
        <4> QED
          BY <3>3, <4>1, <4>2
      <3> QED
        BY <3>1, <3>2, <3>3
    <2>3. Explored(h, g, owner, k + 1)
      BY <2>2 DEF Explored
    <2> QED
      BY <2>3
  <1>3. S = Nat
    <2> HIDE DEF S
    <2>1. S \in SUBSET Nat
      BY DEF S
    <2> QED
      BY <1>1, <1>2, <2>1, Induction
  <1> QED
    BY <1>3


LEMMA VisitStays ==
    ASSUME NEW g, Listed(g), NEW owner, NEW bfs, NEW n, DOMAIN bfs.tree \subseteq {owner} \cup Range(Order)
    PROVE  DOMAIN Visit(g, bfs, n).tree \subseteq {owner} \cup Range(Order)
  <1> DEFINE joins == JoinsOf(g, bfs.tree[bfs.queue[n]])
  <1>1. \A i \in DOMAIN joins : joins[i].as \in Range(Order)
    BY JoinsListed
  <1>2. CASE n > Len(bfs.queue)
    BY <1>2 DEF Visit
  <1>3. CASE ~(n > Len(bfs.queue))
    <2>1. DOMAIN Visit(g, bfs, n).tree = DOMAIN bfs.tree \cup {joins[i].as : i \in DOMAIN joins}
      BY <1>3 DEF Visit
    <2> HIDE DEF joins
    <2> QED
      BY <1>1, <2>1
  <1> QED
    BY <1>2, <1>3

\* An alias in the tree is the owner or listed.
LEMMA TreeIsListed ==
    ASSUME NEW g, Listed(g), NEW owner
    PROVE  DOMAIN AliasTree(g, owner) \subseteq {owner} \cup Range(Order)
  <1>1. Len(Order) \in Nat
    BY OrderHasSize DEF OrderSize
  <1>2. \E f : Explored(f, g, owner, Len(Order))
    BY <1>1, ExploredExists
  <1> DEFINE f == CHOOSE f : Explored(f, g, owner, Len(Order))
  <1>3. Explored(f, g, owner, Len(Order))
    BY <1>2
  <1>4. AliasTree(g, owner) = f[Len(Order)].tree
    BY DEF AliasTree, Explored
  <1> HIDE DEF f
  <1> DEFINE S == {n \in Nat : n <= Len(Order) => DOMAIN f[n].tree \subseteq {owner} \cup Range(Order)}
  <1>5. 0 \in S
    <2>1. f[0] = [tree |-> [a \in {owner} |-> owner], queue |-> <<owner>>]
      BY <1>1, <1>3 DEF Explored
    <2> QED
      BY <2>1
  <1>6. ASSUME NEW n \in S PROVE n + 1 \in S
    <2> SUFFICES ASSUME n + 1 <= Len(Order) PROVE DOMAIN f[n + 1].tree \subseteq {owner} \cup Range(Order)
      OBVIOUS
    <2>1. n \in Nat /\ n <= Len(Order) /\ n + 1 \in 0..Len(Order) /\ n + 1 # 0 /\ (n + 1) - 1 = n
      BY <1>1
    <2>2. f[n + 1] = Visit(g, f[n], n + 1)
      BY <1>3, <2>1 DEF Explored
    <2>3. DOMAIN f[n].tree \subseteq {owner} \cup Range(Order)
      BY <2>1
    <2> QED
      BY <2>2, <2>3, VisitStays
  <1>7. S = Nat
    <2> HIDE DEF S
    <2>1. S \in SUBSET Nat
      BY DEF S
    <2> QED
      BY <1>5, <1>6, <2>1, Induction
  <1> QED
    BY <1>1, <1>4, <1>7

-----------------------------------------------------------------------------
(* Where names are bound                                                    *)

LEMMA FoundInTree ==
    ASSUME NEW g, NEW ref, NEW owner, NEW tree, NEW q,
           FindDimension(g, ref, owner, tree, q).is = "found"
    PROVE  FindDimension(g, ref, owner, tree, q).at \in {owner} \cup DOMAIN tree
  <1> DEFINE own == DimensionsNamed(g[owner], ref[2])
             joined == UNION {{<<a, d>> : d \in DimensionsNamed(g[tree[a]], ref[2])} : a \in DOMAIN tree \ {owner}}
             ds == DimensionsNamed(g[tree[ref[1]]], ref[2])
             c == CHOOSE c \in joined : TRUE
             found == FindDimension(g, ref, owner, tree, q)
  <1>1. CASE ref[1] # NoRole /\ (~ q \/ ref[1] \notin DOMAIN tree)
    <2>1. found = NotFound
      BY <1>1 DEF FindDimension
    <2> QED
      BY <2>1 DEF NotFound
  <1>2. CASE ref[1] # NoRole /\ ~(~ q \/ ref[1] \notin DOMAIN tree)
    <2>1. found = IF ds = {} THEN NotFound ELSE Found(ref[1], CHOOSE d \in ds : TRUE)
      BY <1>2 DEF FindDimension
    <2> HIDE DEF ds, found
    <2> QED
      BY <1>2, <2>1 DEF NotFound, Found, found
  <1>3. CASE ref[1] = NoRole /\ own # {}
    <2>1. found = Found(owner, CHOOSE d \in own : TRUE)
      BY <1>3 DEF FindDimension
    <2> HIDE DEF own, found
    <2> QED
      BY <2>1 DEF Found, found
  <1>4. CASE ref[1] = NoRole /\ own = {}
    <2>1. found = IF joined = {} THEN NotFound ELSE IF Cardinality(joined) > 1 THEN Several ELSE Found(c[1], c[2])
      BY <1>4 DEF FindDimension
    <2>2. \A x \in joined : x[1] \in DOMAIN tree
      OBVIOUS
    <2>3. joined # {} => c \in joined
      OBVIOUS
    <2> HIDE DEF joined, c, found
    <2> QED
      BY <2>1, <2>2, <2>3 DEF NotFound, Several, Found, found
  <1> QED
    BY <1>1, <1>2, <1>3, <1>4

\* A column is bound to the owner, to an alias of the tree or to a listed source.
LEMMA BoundSomewhere ==
    ASSUME NEW g, NEW ref, NEW owner, NEW tree, NEW q, BindName(g, ref, owner, tree, q).is = "found"
    PROVE  BindName(g, ref, owner, tree, q).at \in {owner} \cup DOMAIN tree \cup Range(Order)
  <1> DEFINE dim == FindDimension(g, ref, owner, tree, q)
             holders == {i \in DOMAIN Order : Order[i] \in DOMAIN g /\ ref[2] \in DOMAIN g[Order[i]].cols}
             first == CHOOSE i \in holders : \A k \in holders : i <= k
             b == BindName(g, ref, owner, tree, q)
  <1>1. CASE dim.is = "ambiguous"
    <2>1. b = Several
      BY <1>1 DEF BindName
    <2> QED
      BY <2>1 DEF Several
  <1>2. CASE dim.is = "found"
    <2>1. b = [is |-> "found", at |-> dim.at, col |-> dim.dim.col]
      BY <1>2 DEF BindName
    <2>2. dim.at \in {owner} \cup DOMAIN tree
      BY <1>2, FoundInTree
    <2> QED
      BY <2>1, <2>2
  <1>3. CASE dim.is = "none" /\ ref[2] \in DOMAIN g[owner].cols
    <2>1. b = [is |-> "found", at |-> owner, col |-> ref[2]]
      BY <1>3 DEF BindName
    <2> QED
      BY <2>1
  <1>4. CASE /\ dim.is # "ambiguous" /\ dim.is # "found"
             /\ ~(dim.is = "none" /\ ref[2] \in DOMAIN g[owner].cols)
    <2>1. b = IF holders = {} THEN NotFound ELSE [is |-> "found", at |-> Order[first], col |-> ref[2]]
      BY <1>4 DEF BindName
    <2>2. CASE holders = {}
      BY <2>1, <2>2 DEF NotFound
    <2>3. CASE holders # {}
      <3>1. holders \in SUBSET Nat /\ holders \subseteq DOMAIN Order
        BY OrderHasSize DEF OrderSize
      <3> HIDE DEF holders
      <3>2. \E i \in holders : \A k \in holders : i <= k
        BY <2>3, <3>1, LeastNatural
      <3>3. first \in DOMAIN Order
        BY <3>1, <3>2
      <3>4. Order[first] \in Range(Order)
        BY <3>3 DEF Range
      <3> HIDE DEF first
      <3> QED
        BY <2>1, <2>3, <3>4
    <2> QED
      BY <2>2, <2>3
  <1> QED
    BY <1>1, <1>2, <1>3, <1>4

LEMMA QualifiedSomewhere ==
    ASSUME NEW g, NEW ref, NEW owner, NEW tree, NEW q
    PROVE  q /\ Qualify(g, ref, owner, tree, q).is = "found" =>
             Qualify(g, ref, owner, tree, q).at \in {owner} \cup DOMAIN tree \cup Range(Order)
  <1> DEFINE dim == FindDimension(g, ref, owner, tree, q)
             b == Qualify(g, ref, owner, tree, q)
             byRole == IF dim.is = "found" THEN [is |-> "found", at |-> ref[1], col |-> dim.dim.col]
                       ELSE IF ref[1] \in DOMAIN tree /\ ref[2] \in DOMAIN g[tree[ref[1]]].cols
                       THEN [is |-> "found", at |-> ref[1], col |-> ref[2]] ELSE NotFound
  <1>1. ref[1] = NoRole => b = BindName(g, ref, owner, tree, q)
    BY DEF Qualify
  <1>2. q /\ ref[1] # NoRole => b = byRole
    BY DEF Qualify
  <1>3. ref[1] # NoRole /\ ref[1] \notin DOMAIN tree => dim = NotFound
    BY DEF FindDimension
  <1>4. ASSUME b = byRole, b.is = "found", ref[1] # NoRole PROVE b.at \in DOMAIN tree
    <2> HIDE DEF dim, b
    <2>1. CASE dim.is = "found"
      <3>1. b.at = ref[1]
        BY <1>4, <2>1
      <3>2. ref[1] \in DOMAIN tree
        BY <1>3, <1>4, <2>1 DEF NotFound
      <3> QED
        BY <3>1, <3>2
    <2>2. CASE dim.is # "found"
      BY <1>4, <2>2 DEF NotFound
    <2> QED
      BY <2>1, <2>2
  <1>5. b.is = "found" /\ ref[1] = NoRole => b.at \in {owner} \cup DOMAIN tree \cup Range(Order)
    BY <1>1, BoundSomewhere
  <1> HIDE DEF b, byRole
  <1>6. q /\ b.is = "found" => b.at \in {owner} \cup DOMAIN tree \cup Range(Order)
    BY <1>2, <1>4, <1>5
  <1> QED
    BY <1>6 DEF b

-----------------------------------------------------------------------------
(* Joins                                                                    *)

\* Every join hangs off the owner or an alias that is joined before it.
Linked(owner, s) ==
    /\ IsSeq(s)
    /\ \A k \in DOMAIN s : s[k].from \in {owner} \cup {s[l].as : l \in 1..(k - 1)}

LEMMA LinkedAppend ==
    ASSUME NEW owner, NEW s, Linked(owner, s), NEW e
    PROVE  /\ e.from \in Joined(owner, s) => Linked(owner, Append(s, e))
           /\ Joined(owner, Append(s, e)) = Joined(owner, s) \cup {e.as}
  <1> DEFINE t == Append(s, e)
  <1>1. IsSeq(s) /\ Len(s) \in Nat /\ DOMAIN s = 1..Len(s)
    BY SeqFacts DEF Linked
  <1>2. /\ IsSeq(t) /\ DOMAIN t = 1..(Len(s) + 1) /\ t[Len(s) + 1] = e
        /\ \A i \in 1..Len(s) : t[i] = s[i]
    BY <1>1, AppendFacts
  <1> HIDE DEF t
  <1>3. Joined(owner, t) = Joined(owner, s) \cup {e.as}
    BY <1>1, <1>2 DEF Joined
  <1>4. ASSUME e.from \in Joined(owner, s), NEW k \in DOMAIN t
        PROVE  t[k].from \in {owner} \cup {t[l].as : l \in 1..(k - 1)}
    <2>1. CASE k = Len(s) + 1
      <3>1. \A l \in 1..Len(s) : l \in 1..(k - 1)
        BY <1>1, <2>1
      <3> QED
        BY <1>1, <1>2, <1>4, <2>1, <3>1 DEF Joined
    <2>2. CASE k # Len(s) + 1
      <3>1. k \in 1..Len(s) /\ \A l \in 1..(k - 1) : l \in 1..Len(s)
        BY <1>1, <1>2, <2>2
      <3>2. s[k].from \in {owner} \cup {s[l].as : l \in 1..(k - 1)}
        BY <1>1, <3>1 DEF Linked
      <3> QED
        BY <1>2, <3>1, <3>2
    <2> QED
      BY <2>1, <2>2
  <1>5. e.from \in Joined(owner, s) => Linked(owner, t)
    BY <1>2, <1>4 DEF Linked
  <1> QED
    BY <1>3, <1>5 DEF t

LEMMA EndIsJoined ==
    ASSUME NEW owner, NEW s, IsSeq(s)
    PROVE  EndOf(owner, s) \in Joined(owner, s)
  <1>1. Len(s) \in Nat /\ DOMAIN s = 1..Len(s)
    BY SeqFacts
  <1>2. s # <<>> => Len(s) # 0
    BY DEF IsSeq
  <1>3. CASE s = <<>>
    BY <1>3 DEF EndOf, Joined
  <1>4. CASE s # <<>>
    <2>1. Len(s) \in DOMAIN s
      BY <1>1, <1>2, <1>4
    <2> QED
      BY <1>4, <2>1 DEF EndOf, Joined
  <1> QED
    BY <1>3, <1>4

LEMMA EmptyLinked == \A owner : Linked(owner, <<>>)
  BY EmptyFacts DEF Linked

LEMMA LongerLinked ==
    ASSUME NEW g, NEW owner, NEW target, NEW path, Linked(owner, path),
           NEW new \in Longer(g, owner, target, path)
    PROVE  Linked(owner, new)
  <1> DEFINE joins == JoinsOf(g, SourceAt(owner, path))
             edge(j) == [as |-> j.as, to |-> j.to, fan |-> j.fan, from |-> EndOf(owner, path)]
  <1>1. PICK i \in DOMAIN joins : new = Append(path, edge(joins[i]))
    BY DEF Longer
  <1> DEFINE e == edge(joins[i])
  <1>2. e.from = EndOf(owner, path)
    OBVIOUS
  <1>3. new = Append(path, e)
    BY <1>1
  <1> HIDE DEF e
  <1>4. e.from \in Joined(owner, path)
    BY <1>2, EndIsJoined DEF Linked
  <1> QED
    BY <1>3, <1>4, LinkedAppend

\* The paths of at most m joins.
Walked(f, g, owner, target, m) ==
    f = [n \in 0..m |-> IF n = 0 THEN {<<>>} ELSE WithLonger(g, owner, target, f[n - 1])]

LEMMA WalkedExists ==
    ASSUME NEW g, NEW owner, NEW target, NEW m \in Nat
    PROVE  \E f : Walked(f, g, owner, target, m)
  <1> DEFINE S == {k \in Nat : \E f : Walked(f, g, owner, target, k)}
  <1>1. 0 \in S
    <2>1. Walked([n \in 0..0 |-> {<<>>}], g, owner, target, 0)
      BY DEF Walked
    <2> QED
      BY <2>1
  <1>2. ASSUME NEW k \in S PROVE k + 1 \in S
    <2>1. PICK f : Walked(f, g, owner, target, k)
      OBVIOUS
    <2> DEFINE h == [n \in 0..k+1 |-> IF n = k + 1 THEN WithLonger(g, owner, target, f[k]) ELSE f[n]]
    <2>2. ASSUME NEW n \in 0..k+1
          PROVE  h[n] = IF n = 0 THEN {<<>>} ELSE WithLonger(g, owner, target, h[n - 1])
      <3>1. CASE n = k + 1
        <4>1. h[n] = WithLonger(g, owner, target, f[k]) /\ h[n - 1] = f[k]
          BY <3>1
        <4> QED
          BY <3>1, <4>1
      <3>2. CASE n # k + 1 /\ n = 0
        <4>1. h[n] = f[0] /\ f[0] = {<<>>}
          BY <2>1, <3>2 DEF Walked
        <4> QED
          BY <3>2, <4>1
      <3>3. CASE n # k + 1 /\ n # 0
        <4>1. h[n] = f[n] /\ h[n - 1] = f[n - 1] /\ n \in 0..k
          BY <3>3
        <4>2. f[n] = WithLonger(g, owner, target, f[n - 1])
          BY <2>1, <3>3, <4>1 DEF Walked
        <4> QED
          BY <3>3, <4>1, <4>2
      <3> QED
        BY <3>1, <3>2, <3>3
    <2>3. Walked(h, g, owner, target, k + 1)
      BY <2>2 DEF Walked
    <2> QED
      BY <2>3
  <1>3. S = Nat
    <2> HIDE DEF S
    <2>1. S \in SUBSET Nat
      BY DEF S
    <2> QED
      BY <1>1, <1>2, <2>1, Induction
  <1> QED
    BY <1>3


\* _all_simple_paths yields linked paths that end at the target.
LEMMA PathsAreLinked ==
    ASSUME NEW g, NEW owner, NEW target, NEW path \in SimplePaths(g, owner, target)
    PROVE  Linked(owner, path) /\ EndOf(owner, path) = target
  <1> DEFINE m == Len(Order)
  <1>1. m \in Nat
    BY OrderHasSize DEF OrderSize
  <1>2. \E f : Walked(f, g, owner, target, m)
    BY <1>1, WalkedExists
  <1> DEFINE f == CHOOSE f : Walked(f, g, owner, target, m)
  <1>3. Walked(f, g, owner, target, m)
    BY <1>2
  <1>4. SimplePaths(g, owner, target) = {x \in f[m] : EndOf(owner, x) = target}
    BY DEF SimplePaths, Walked
  <1> HIDE DEF f, m
  <1> DEFINE S == {n \in Nat : \A x \in f[n] : Linked(owner, x)}
  <1>5. 0 \in S
    <2>1. f[0] = {<<>>}
      BY <1>1, <1>3 DEF Walked
    <2> QED
      BY <2>1, EmptyLinked
  <1>6. ASSUME NEW n \in S, n < m PROVE n + 1 \in S
    <2>1. n \in Nat /\ n + 1 \in 0..m /\ n + 1 # 0 /\ (n + 1) - 1 = n
      BY <1>1, <1>6
    <2>2. f[n + 1] = WithLonger(g, owner, target, f[n])
      BY <1>3, <2>1 DEF Walked
    <2>3. ASSUME NEW x \in f[n + 1] PROVE Linked(owner, x)
      BY <2>2, LongerLinked DEF WithLonger
    <2> QED
      BY <2>1, <2>3
  <1>7. m \in S
    <2> HIDE DEF S
    <2>1. S \in SUBSET Nat
      BY DEF S
    <2> QED
      BY <1>1, <1>5, <1>6, <2>1, UpTo
  <1> QED
    BY <1>4, <1>7

\* The first m edges of a path are added to the joins.
Added(f, owner, edges, path, m) ==
    f = [n \in 0..m |-> IF n = 0 THEN edges ELSE AddEdge(owner, f[n - 1], path[n])]

LEMMA AddedExists ==
    ASSUME NEW owner, NEW edges, NEW path, NEW m \in Nat
    PROVE  \E f : Added(f, owner, edges, path, m)
  <1> DEFINE S == {k \in Nat : \E f : Added(f, owner, edges, path, k)}
  <1>1. 0 \in S
    <2>1. Added([n \in 0..0 |-> edges], owner, edges, path, 0)
      BY DEF Added
    <2> QED
      BY <2>1
  <1>2. ASSUME NEW k \in S PROVE k + 1 \in S
    <2>1. PICK f : Added(f, owner, edges, path, k)
      OBVIOUS
    <2> DEFINE h == [n \in 0..k+1 |-> IF n = k + 1 THEN AddEdge(owner, f[k], path[(k + 1)]) ELSE f[n]]
    <2>2. ASSUME NEW n \in 0..k+1
          PROVE  h[n] = IF n = 0 THEN edges ELSE AddEdge(owner, h[n - 1], path[n])
      <3>1. CASE n = k + 1
        <4>1. h[n] = AddEdge(owner, f[k], path[(k + 1)]) /\ h[n - 1] = f[k]
          BY <3>1
        <4> QED
          BY <3>1, <4>1
      <3>2. CASE n # k + 1 /\ n = 0
        <4>1. h[n] = f[0] /\ f[0] = edges
          BY <2>1, <3>2 DEF Added
        <4> QED
          BY <3>2, <4>1
      <3>3. CASE n # k + 1 /\ n # 0
        <4>1. h[n] = f[n] /\ h[n - 1] = f[n - 1] /\ n \in 0..k
          BY <3>3
        <4>2. f[n] = AddEdge(owner, f[n - 1], path[n])
          BY <2>1, <3>3, <4>1 DEF Added
        <4> QED
          BY <3>3, <4>1, <4>2
      <3> QED
        BY <3>1, <3>2, <3>3
    <2>3. Added(h, owner, edges, path, k + 1)
      BY <2>2 DEF Added
    <2> QED
      BY <2>3
  <1>3. S = Nat
    <2> HIDE DEF S
    <2>1. S \in SUBSET Nat
      BY DEF S
    <2> QED
      BY <1>1, <1>2, <2>1, Induction
  <1> QED
    BY <1>3


\* Adding a linked path keeps the joins linked and joins where the path ends.
LEMMA AddPathLinks ==
    ASSUME NEW owner, NEW edges, Linked(owner, edges), NEW path, Linked(owner, path)
    PROVE  /\ Linked(owner, AddPath(owner, edges, path))
           /\ Joined(owner, edges) \subseteq Joined(owner, AddPath(owner, edges, path))
           /\ EndOf(owner, path) \in Joined(owner, AddPath(owner, edges, path))
  <1> DEFINE m == Len(path)
  <1>1. m \in Nat /\ DOMAIN path = 1..m /\ IsSeq(path)
    BY SeqFacts DEF Linked
  <1>2. \E f : Added(f, owner, edges, path, m)
    BY <1>1, AddedExists
  <1> DEFINE f == CHOOSE f : Added(f, owner, edges, path, m)
  <1>3. Added(f, owner, edges, path, m)
    BY <1>2
  <1>4. AddPath(owner, edges, path) = f[m]
    BY DEF AddPath, Added
  <1> HIDE DEF f, m
  <1> DEFINE S == {n \in Nat : /\ Linked(owner, f[n]) /\ Joined(owner, edges) \subseteq Joined(owner, f[n])
                               /\ \A l \in 1..n : path[l].as \in Joined(owner, f[n])}
  <1>5. 0 \in S
    <2>1. f[0] = edges
      BY <1>1, <1>3 DEF Added
    <2> QED
      BY <2>1
  <1>6. ASSUME NEW n \in S, n < m PROVE n + 1 \in S
    <2>1. n \in Nat /\ n + 1 \in 0..m /\ n + 1 # 0 /\ (n + 1) - 1 = n
      BY <1>1, <1>6
    <2> DEFINE e == path[n + 1]
    <2>2. f[n + 1] = AddEdge(owner, f[n], e)
      BY <1>3, <2>1 DEF Added
    <2>3. /\ Linked(owner, f[n]) /\ Joined(owner, edges) \subseteq Joined(owner, f[n])
          /\ \A l \in 1..n : path[l].as \in Joined(owner, f[n])
      OBVIOUS
    <2>4. e.from \in Joined(owner, f[n])
      <3>1. n + 1 \in DOMAIN path
        BY <1>1, <2>1
      <3>2. e.from \in {owner} \cup {path[l].as : l \in 1..((n + 1) - 1)}
        BY <3>1 DEF Linked
      <3>3. owner \in Joined(owner, f[n])
        BY DEF Joined
      <3> QED
        BY <2>1, <2>3, <3>2, <3>3
    <2> HIDE DEF S
    <2>5. /\ Linked(owner, f[n + 1]) /\ Joined(owner, f[n]) \subseteq Joined(owner, f[n + 1])
          /\ e.as \in Joined(owner, f[n + 1])
      <3> HIDE DEF e
      <3>1. CASE e.as \in Joined(owner, f[n])
        BY <2>2, <2>3, <3>1 DEF AddEdge
      <3>2. CASE e.as \notin Joined(owner, f[n])
        <4>1. f[n + 1] = Append(f[n], e)
          BY <2>2, <3>2 DEF AddEdge
        <4> QED
          BY <2>3, <2>4, <4>1, LinkedAppend
      <3> QED
        BY <3>1, <3>2
    <2>6. ASSUME NEW l \in 1..(n + 1) PROVE path[l].as \in Joined(owner, f[n + 1])
      <3>1. CASE l = n + 1
        BY <2>5, <3>1
      <3>2. CASE l # n + 1
        <4>1. l \in 1..n
          BY <2>1, <3>2
        <4> QED
          BY <2>3, <2>5, <4>1
      <3> QED
        BY <3>1, <3>2
    <2> QED
      BY <2>1, <2>3, <2>5, <2>6 DEF S
  <1>7. m \in S
    <2> HIDE DEF S
    <2>1. S \in SUBSET Nat
      BY DEF S
    <2> QED
      BY <1>1, <1>5, <1>6, <2>1, UpTo
  <1>8. EndOf(owner, path) \in Joined(owner, f[m])
    <2>1. \A l \in DOMAIN path : path[l].as \in Joined(owner, f[m])
      BY <1>1, <1>7
    <2>2. owner \in Joined(owner, f[m])
      BY DEF Joined
    <2>3. EndOf(owner, path) \in {owner} \cup {path[l].as : l \in DOMAIN path}
      BY <1>1, EndIsJoined DEF Joined
    <2> QED
      BY <2>1, <2>2, <2>3
  <1> QED
    BY <1>4, <1>7, <1>8

\* What plan_joins has found so far.
IsPlan(owner, plan) ==
    plan = [refused |-> plan.refused, edges |-> plan.edges] /\ Linked(owner, plan.edges)

\* The next plan, with one more target joined unless it refuses.
Extends(owner, plan, target, next) ==
    /\ IsPlan(owner, next) /\ Joined(owner, plan.edges) \subseteq Joined(owner, next.edges)
    /\ next.refused = "" => plan.refused = "" /\ target \in Joined(owner, next.edges)

LEMMA TargetIsJoined ==
    ASSUME NEW g, NEW owner, NEW via, NEW plan, IsPlan(owner, plan), NEW target
    PROVE  Extends(owner, plan, target, JoinTarget(g, owner, via, plan, target))
  <1> DEFINE all == SimplePaths(g, owner, target)
             paths == IF Cardinality(all) > 1 /\ via # <<>> THEN ThroughVia(all, via) ELSE all
             path == CHOOSE path \in paths : TRUE
             next == JoinTarget(g, owner, via, plan, target)
  <1>1. next = IF plan.refused # "" \/ target \in Joined(owner, plan.edges) THEN plan
               ELSE IF paths = {} THEN [plan EXCEPT !.refused = "unreachable"]
               ELSE IF Cardinality(paths) > 1 THEN [plan EXCEPT !.refused = "ambiguous_path"]
               ELSE [plan EXCEPT !.edges = AddPath(owner, @, path)]
    BY DEF JoinTarget
  <1>2. paths \subseteq all
    BY DEF ThroughVia
  <1>3. paths # {} => path \in paths
    OBVIOUS
  <1>4. paths # {} => Linked(owner, path) /\ EndOf(owner, path) = target
    BY <1>2, <1>3, PathsAreLinked
  <1> HIDE DEF all, paths, path, next
  <1> SUFFICES Extends(owner, plan, target, next)
    BY DEF next
  <1>5. CASE plan.refused # "" \/ target \in Joined(owner, plan.edges)
    BY <1>1, <1>5 DEF Extends
  <1>6. CASE /\ ~(plan.refused # "" \/ target \in Joined(owner, plan.edges))
             /\ paths = {} \/ Cardinality(paths) > 1
    <2> DEFINE why == IF paths = {} THEN "unreachable" ELSE "ambiguous_path"
    <2>1. next = [plan EXCEPT !.refused = why]
      BY <1>1, <1>6
    <2>2. why # ""
      OBVIOUS
    <2> HIDE DEF why
    <2>3. next.refused = why /\ next.edges = plan.edges /\ next = [refused |-> why, edges |-> plan.edges]
      BY <2>1 DEF IsPlan
    <2> QED
      BY <2>2, <2>3 DEF IsPlan, Extends
  <1>7. CASE /\ ~(plan.refused # "" \/ target \in Joined(owner, plan.edges))
             /\ paths # {} /\ ~(Cardinality(paths) > 1)
    <2> DEFINE longer == AddPath(owner, plan.edges, path)
    <2>1. next = [refused |-> plan.refused, edges |-> longer]
      BY <1>1, <1>7 DEF IsPlan
    <2>2. /\ Linked(owner, longer) /\ Joined(owner, plan.edges) \subseteq Joined(owner, longer)
          /\ target \in Joined(owner, longer)
      BY <1>4, <1>7, AddPathLinks DEF IsPlan
    <2> HIDE DEF longer
    <2>3. next.edges = longer /\ next.refused = plan.refused
      BY <2>1
    <2> QED
      BY <1>7, <2>1, <2>2, <2>3 DEF IsPlan, Extends
  <1> QED
    BY <1>5, <1>6, <1>7

\* plan_joins, up to the m-th alias of the order.
Planning(f, g, owner, targets, via, m) ==
    f = [n \in 0..m |-> IF n = 0 THEN NoJoins ELSE JoinNext(g, owner, targets, via, f[n - 1], Order[n])]

LEMMA PlanningExists ==
    ASSUME NEW g, NEW owner, NEW targets, NEW via, NEW m \in Nat
    PROVE  \E f : Planning(f, g, owner, targets, via, m)
  <1> DEFINE S == {k \in Nat : \E f : Planning(f, g, owner, targets, via, k)}
  <1>1. 0 \in S
    <2>1. Planning([n \in 0..0 |-> NoJoins], g, owner, targets, via, 0)
      BY DEF Planning
    <2> QED
      BY <2>1
  <1>2. ASSUME NEW k \in S PROVE k + 1 \in S
    <2>1. PICK f : Planning(f, g, owner, targets, via, k)
      OBVIOUS
    <2> DEFINE h == [n \in 0..k+1 |-> IF n = k + 1 THEN JoinNext(g, owner, targets, via, f[k], Order[(k + 1)]) ELSE f[n]]
    <2>2. ASSUME NEW n \in 0..k+1
          PROVE  h[n] = IF n = 0 THEN NoJoins ELSE JoinNext(g, owner, targets, via, h[n - 1], Order[n])
      <3>1. CASE n = k + 1
        <4>1. h[n] = JoinNext(g, owner, targets, via, f[k], Order[(k + 1)]) /\ h[n - 1] = f[k]
          BY <3>1
        <4> QED
          BY <3>1, <4>1
      <3>2. CASE n # k + 1 /\ n = 0
        <4>1. h[n] = f[0] /\ f[0] = NoJoins
          BY <2>1, <3>2 DEF Planning
        <4> QED
          BY <3>2, <4>1
      <3>3. CASE n # k + 1 /\ n # 0
        <4>1. h[n] = f[n] /\ h[n - 1] = f[n - 1] /\ n \in 0..k
          BY <3>3
        <4>2. f[n] = JoinNext(g, owner, targets, via, f[n - 1], Order[n])
          BY <2>1, <3>3, <4>1 DEF Planning
        <4> QED
          BY <3>3, <4>1, <4>2
      <3> QED
        BY <3>1, <3>2, <3>3
    <2>3. Planning(h, g, owner, targets, via, k + 1)
      BY <2>2 DEF Planning
    <2> QED
      BY <2>3
  <1>3. S = Nat
    <2> HIDE DEF S
    <2>1. S \in SUBSET Nat
      BY DEF S
    <2> QED
      BY <1>1, <1>2, <2>1, Induction
  <1> QED
    BY <1>3


\* The first n aliases of the order are joined if they are targets.
PlansTo(owner, targets, plan, n) ==
    /\ IsPlan(owner, plan)
    /\ plan.refused = "" => \A l \in 1..n : Order[l] \in targets => Order[l] \in Joined(owner, plan.edges)

\* The joins are linked, and reach every listed target unless the plan refuses.
Reaches(owner, targets, plan) ==
    /\ Linked(owner, plan.edges)
    /\ plan.refused = "" => targets \cap Range(Order) \subseteq Joined(owner, plan.edges)

LEMMA TargetsAreJoined ==
    ASSUME NEW g, NEW owner, NEW targets, NEW via
    PROVE  Reaches(owner, targets, PlanJoins(g, owner, targets, via))
  <1> DEFINE m == Len(Order)
             plan == PlanJoins(g, owner, targets, via)
  <1>1. m \in Nat /\ DOMAIN Order = 1..m
    BY OrderHasSize DEF OrderSize
  <1>2. \E f : Planning(f, g, owner, targets, via, m)
    BY <1>1, PlanningExists
  <1> DEFINE f == CHOOSE f : Planning(f, g, owner, targets, via, m)
  <1>3. Planning(f, g, owner, targets, via, m)
    BY <1>2
  <1>4. plan = f[m]
    BY DEF PlanJoins, Planning
  <1> HIDE DEF f, m, plan
  <1> DEFINE S == {n \in Nat : PlansTo(owner, targets, f[n], n)}
  <1>5. 0 \in S
    <2>1. f[0] = NoJoins
      BY <1>1, <1>3 DEF Planning
    <2>2. NoJoins.refused = "" /\ NoJoins.edges = <<>> /\ IsPlan(owner, NoJoins)
      BY EmptyLinked DEF NoJoins, IsPlan
    <2>3. \A l \in 1..0 : FALSE
      OBVIOUS
    <2> QED
      BY <2>1, <2>2, <2>3 DEF PlansTo
  <1>6. ASSUME NEW n \in S, n < m PROVE n + 1 \in S
    <2>1. n \in Nat /\ n + 1 \in 0..m /\ n + 1 # 0 /\ (n + 1) - 1 = n
      BY <1>1, <1>6
    <2>2. f[n + 1] = JoinNext(g, owner, targets, via, f[n], Order[n + 1])
      BY <1>3, <2>1 DEF Planning
    <2>3. /\ IsPlan(owner, f[n])
          /\ f[n].refused = "" =>
               \A l \in 1..n : Order[l] \in targets => Order[l] \in Joined(owner, f[n].edges)
      BY DEF PlansTo
    <2> HIDE DEF S
    <2>4. /\ IsPlan(owner, f[n + 1]) /\ Joined(owner, f[n].edges) \subseteq Joined(owner, f[n + 1].edges)
          /\ f[n + 1].refused = "" =>
               /\ f[n].refused = ""
               /\ Order[n + 1] \in targets => Order[n + 1] \in Joined(owner, f[n + 1].edges)
      <3>1. CASE Order[n + 1] \in targets
        <4>1. f[n + 1] = JoinTarget(g, owner, via, f[n], Order[n + 1])
          BY <2>2, <3>1 DEF JoinNext
        <4>2. IsPlan(owner, f[n])
          BY <2>3
        <4>3. Extends(owner, f[n], Order[n + 1], f[n + 1])
          BY <4>1, <4>2, TargetIsJoined
        <4> QED
          BY <4>3, Zenon DEF Extends
      <3>2. CASE Order[n + 1] \notin targets
        BY <2>2, <2>3, <3>2 DEF JoinNext
      <3> QED
        BY <3>1, <3>2
    <2>5. ASSUME f[n + 1].refused = "", NEW l \in 1..(n + 1), Order[l] \in targets
          PROVE  Order[l] \in Joined(owner, f[n + 1].edges)
      <3>1. CASE l = n + 1
        BY <2>4, <2>5, <3>1
      <3>2. CASE l # n + 1
        <4>1. l \in 1..n
          BY <2>1, <3>2
        <4> QED
          BY <2>3, <2>4, <2>5, <4>1
      <3> QED
        BY <3>1, <3>2
    <2>6. PlansTo(owner, targets, f[n + 1], n + 1)
      BY <2>4, <2>5, Zenon DEF PlansTo
    <2>7. n + 1 \in Nat
      BY <2>1
    <2> QED
      BY <2>6, <2>7, Zenon DEF S
  <1>7. m \in S
    <2> HIDE DEF S
    <2>1. S \in SUBSET Nat
      BY DEF S
    <2> QED
      BY <1>1, <1>5, <1>6, <2>1, UpTo
  <1>8. ASSUME plan.refused = "", NEW a \in targets \cap Range(Order)
        PROVE  a \in Joined(owner, plan.edges)
    <2>1. PICK l \in 1..m : a = Order[l]
      BY <1>1 DEF Range
    <2> QED
      BY <1>4, <1>7, <1>8, <2>1 DEF PlansTo
  <1> QED
    BY <1>4, <1>7, <1>8 DEF PlansTo, IsPlan, Reaches, plan
-----------------------------------------------------------------------------
(* One leaf                                                                 *)

\* The names of a leaf are bound to its owner, or to an alias that Order lists.
LEMMA FindIsListed ==
    ASSUME NEW p, Listed(p.g), NEW owner, NEW ref, Find(p, owner, ref).is = "found"
    PROVE  Find(p, owner, ref).at \in {owner} \cup Range(Order)
  <1>1. \A q : FindDimension(p.g, ref, owner, Tree(p, owner), q).is = "found" =>
                 FindDimension(p.g, ref, owner, Tree(p, owner), q).at \in {owner} \cup DOMAIN Tree(p, owner)
    BY FoundInTree
  <1>2. Find(p, owner, ref) = FindDimension(p.g, ref, owner, Tree(p, owner), TRUE)
    BY Zenon DEF Find
  <1>3. Find(p, owner, ref).at \in {owner} \cup DOMAIN Tree(p, owner)
    BY <1>1, <1>2, Zenon
  <1>4. DOMAIN Tree(p, owner) \subseteq {owner} \cup Range(Order)
    BY TreeIsListed DEF Tree
  <1> QED
    BY <1>3, <1>4

LEMMA QualifiedIsListed ==
    ASSUME NEW p, Listed(p.g), NEW owner, NEW ref, Qualified(p, owner, ref).is = "found"
    PROVE  Qualified(p, owner, ref).at \in {owner} \cup Range(Order)
  <1>1. \A q : q /\ Qualify(p.g, ref, owner, Tree(p, owner), q).is = "found" =>
                 Qualify(p.g, ref, owner, Tree(p, owner), q).at
                   \in {owner} \cup DOMAIN Tree(p, owner) \cup Range(Order)
    BY QualifiedSomewhere
  <1>2. Qualified(p, owner, ref) = Qualify(p.g, ref, owner, Tree(p, owner), TRUE)
    BY Zenon DEF Qualified
  <1>3. Qualified(p, owner, ref).at \in {owner} \cup DOMAIN Tree(p, owner) \cup Range(Order)
    BY <1>1, <1>2, Zenon
  <1>4. DOMAIN Tree(p, owner) \subseteq {owner} \cup Range(Order)
    BY TreeIsListed DEF Tree
  <1> QED
    BY <1>3, <1>4

LEMMA BindIsListed ==
    ASSUME NEW p, Listed(p.g), NEW owner, NEW refs, NEW from, NEW shifts,
           AllFound(Bind(p, owner, refs, from, shifts)), NEW r \in refs
    PROVE  Bind(p, owner, refs, from, shifts)[r].at \in {owner} \cup Range(Order)
  <1> DEFINE b == Qualified(p, owner, r)
             x == Bind(p, owner, refs, from, shifts)[r]
  <1>1. x = IF b.is # "found" THEN b
            ELSE [is |-> "found", from |-> from, of |-> r, at |-> b.at, col |-> b.col,
                  shift |-> ShiftsOn(p, owner, shifts, b.at, b.col)]
    BY DEF Bind
  <1>2. DOMAIN Bind(p, owner, refs, from, shifts) = refs
    BY DEF Bind
  <1>3. x.is = "found"
    BY <1>2 DEF AllFound
  <1>4. b.is = "found" => b.at \in {owner} \cup Range(Order)
    BY QualifiedIsListed
  <1> HIDE DEF b, x
  <1>5. b.is = "found" /\ x.at = b.at
    BY <1>1, <1>3
  <1> QED
    BY <1>4, <1>5 DEF x

LEMMA NeededIsListed ==
    ASSUME NEW p, Listed(p.g), NEW ask, NEW n, n = Names(p, ask),
           \A k \in DOMAIN n.dims : n.dims[k].is = "found",
           AllFound(n.user), AllFound(n.pre), \A b \in n.guards : b.is = "found"
    PROVE  Needed(n) \subseteq {ask.spec.owner} \cup Range(Order)
  <1> DEFINE owner == ask.spec.owner
             shifts == ask.ctx.shifts
             pre == UNION {shifts[k].pre : k \in DOMAIN shifts}
  <1>1. /\ n.dims = [k \in DOMAIN ask.q.dims |-> Find(p, owner, ask.q.dims[k])]
        /\ n.user = Bind(p, owner, ask.spec.filters, "user", shifts)
        /\ n.pre = Bind(p, owner, pre, "prefilter", <<>>)
        /\ n.guards = GuardrailAliases(p, owner, ask.spec.measure)
    BY DEF Names
  <1> HIDE DEF owner, shifts, pre
  <1>2. ASSUME NEW k \in DOMAIN n.dims PROVE n.dims[k].at \in {owner} \cup Range(Order)
    <2>1. n.dims[k] = Find(p, owner, ask.q.dims[k])
      BY <1>1
    <2> QED
      BY <2>1, FindIsListed
  <1>3. ASSUME NEW r \in DOMAIN n.user PROVE n.user[r].at \in {owner} \cup Range(Order)
    <2>1. r \in ask.spec.filters
      BY <1>1 DEF Bind
    <2> QED
      BY <1>1, <2>1, BindIsListed
  <1>4. ASSUME NEW r \in DOMAIN n.pre PROVE n.pre[r].at \in {owner} \cup Range(Order)
    <2>1. r \in pre
      BY <1>1 DEF Bind
    <2> QED
      BY <1>1, <2>1, BindIsListed
  <1>5. ASSUME NEW b \in n.guards PROVE b.at \in {owner} \cup Range(Order)
    <2>1. PICK rule, r : b = Qualified(p, owner, r)
      BY <1>1 DEF GuardrailAliases
    <2> QED
      BY <2>1, QualifiedIsListed
  <1> QED
    BY <1>2, <1>3, <1>4, <1>5 DEF Needed, owner

\* What the select of a leaf is made of.
MadeFrom(leaf, owner, dims, joins, preds) ==
    /\ leaf.owner = owner /\ leaf.joins = joins /\ leaf.preds = preds
    /\ leaf.scans = Joined(owner, joins)
    /\ DOMAIN leaf.dims = DOMAIN dims
    /\ \A k \in DOMAIN dims : leaf.dims[k].at = dims[k].at

NamesIn(leaf) == [k \in DOMAIN leaf.dims |-> leaf.dims[k].name]

\* What is emitted was asked for, and no realization of it was refused.
Emitted(p, spec, dims, joins, preds, final, realized, leaf) ==
    /\ \A b \in realized : b.why = ""
    /\ final = {} => ~FanRefused(p, spec, \E k \in DOMAIN joins : joins[k].fan)
    /\ leaf.column = spec.column /\ leaf.measure = spec.measure
    /\ leaf.fusable = spec.fusable /\ leaf.strategy = spec.strategy
    /\ leaf.rules = final /\ leaf.branches = realized
    /\ NamesIn(leaf) = [k \in DOMAIN dims |-> dims[k].dim.name]
    /\ MadeFrom(leaf, spec.owner, dims, joins, preds)

LEMMA EmittedLeaf ==
    ASSUME NEW p, NEW ask, NEW dims, NEW joins, NEW preds, NEW final, NEW realized,
           EmitLeaf(p, ask, dims, joins, preds, final, realized).why = ""
    PROVE  Emitted(p, ask.spec, dims, joins, preds, final, realized,
                   EmitLeaf(p, ask, dims, joins, preds, final, realized).leaf)
  <1> DEFINE spec == ask.spec
             shifts == ask.ctx.shifts
             names == [k \in DOMAIN dims |-> dims[k].dim.name]
             fan == \E k \in DOMAIN joins : joins[k].fan
             failed == {b \in realized : b.why # ""}
             some == (CHOOSE b \in failed : TRUE).why
             leaf == [owner |-> spec.owner, strategy |-> spec.strategy, column |-> spec.column,
                      measure |-> spec.measure, fan |-> fan, fusable |-> spec.fusable,
                      params |-> <<spec.params, [k \in DOMAIN shifts |-> <<shifts[k].time, shifts[k].delta>>]>>,
                      dims |-> [k \in DOMAIN dims |->
                                  [at |-> dims[k].at, col |-> dims[k].dim.col, name |-> names[k],
                                   shift |-> ShiftsOn(p, spec.owner, shifts, dims[k].at, dims[k].dim.col)]],
                      preds |-> preds, joins |-> joins, reads |-> spec.reads,
                      scans |-> Joined(spec.owner, joins), rules |-> final, branches |-> realized]
             emitted == EmitLeaf(p, ask, dims, joins, preds, final, realized)
             narrow == spec.native # NoMetric /\ Range(names) # spec.native
  <1>1. emitted = IF failed # {} THEN Refuse(some)
                  ELSE IF final = {} /\ FanRefused(p, spec, fan) THEN Refuse("fanout")
                  ELSE IF final = {} /\ Unsupported(p, spec, names) THEN Refuse("unsupported")
                  ELSE IF narrow THEN Refuse("native_grain") ELSE Planned(leaf)
    BY DEF EmitLeaf
  <1>2. emitted.why = ""
    OBVIOUS
  <1>3. failed # {} => some # ""
    <2> SUFFICES ASSUME failed # {} PROVE some # ""
      OBVIOUS
    <2>1. (CHOOSE b \in failed : TRUE) \in failed
      BY Zenon
    <2> QED
      BY <2>1
  <1>4. leaf.dims = [k \in DOMAIN dims |->
                       [at |-> dims[k].at, col |-> dims[k].dim.col, name |-> names[k],
                        shift |-> ShiftsOn(p, spec.owner, shifts, dims[k].at, dims[k].dim.col)]]
    OBVIOUS
  <1>5. DOMAIN leaf.dims = DOMAIN dims /\ \A k \in DOMAIN dims : leaf.dims[k].at = dims[k].at /\ leaf.dims[k].name = names[k]
    BY <1>4
  <1>6. NamesIn(leaf) = names
    BY <1>5 DEF NamesIn
  <1>7. MadeFrom(leaf, spec.owner, dims, joins, preds)
    BY <1>5 DEF MadeFrom
  <1>8. /\ leaf.column = spec.column /\ leaf.measure = spec.measure
        /\ leaf.fusable = spec.fusable /\ leaf.strategy = spec.strategy
        /\ leaf.rules = final /\ leaf.branches = realized
    OBVIOUS
  <1> HIDE DEF some, leaf, emitted, narrow, fan, names
  <1>9. failed = {} /\ ~(final = {} /\ FanRefused(p, spec, fan)) /\ emitted = Planned(leaf)
    <2> HIDE DEF failed
    <2> QED
      BY <1>1, <1>2, <1>3 DEF Refuse
  <1>10. emitted.leaf = leaf
    BY <1>9 DEF Planned
  <1>11. \A b \in realized : b.why = ""
    BY <1>9
  <1>12. Emitted(p, spec, dims, joins, preds, final, realized, leaf)
    <2> HIDE DEF failed
    <2> QED
      BY <1>6, <1>7, <1>8, <1>9, <1>11 DEF Emitted, names, fan
  <1> QED
    BY <1>10, <1>12 DEF emitted

\* The branches of a leaf are the realizations of its finality rules.
BranchesFrom(p, leaf) ==
    /\ leaf.branches = Realized(p, leaf.owner, leaf.measure, NamesIn(leaf), leaf.preds, leaf.rules)
    /\ leaf.rules \subseteq p.finality
    /\ \A b \in leaf.branches : b.why = ""

LEMMA BuiltLeaf ==
    ASSUME NEW p, NEW ask, NEW dims, NEW joins, NEW preds,
           BuildLeaf(p, ask, dims, joins, preds, FinalityOf(p, ask.spec, dims)).why = ""
    PROVE  LET leaf == BuildLeaf(p, ask, dims, joins, preds, FinalityOf(p, ask.spec, dims)).leaf
           IN  /\ BranchesFrom(p, leaf)
               /\ Emitted(p, ask.spec, dims, joins, preds, FinalityOf(p, ask.spec, dims), leaf.branches, leaf)
  <1> DEFINE final == FinalityOf(p, ask.spec, dims)
             names == [k \in DOMAIN dims |-> dims[k].dim.name]
             realized == Realized(p, ask.spec.owner, ask.spec.measure, names, preds, final)
             built == EmitLeaf(p, ask, dims, joins, preds, final, realized)
  <1>1. BuildLeaf(p, ask, dims, joins, preds, final) = built
    BY DEF BuildLeaf
  <1>2. final \subseteq p.finality
    BY DEF FinalityOf, FinalityFor
  <1>3. Emitted(p, ask.spec, dims, joins, preds, final, realized, built.leaf)
    <2>1. built.why = ""
      BY <1>1
    <2> HIDE DEF final, realized
    <2> QED
      BY <2>1, EmittedLeaf
  <1>4. /\ \A b \in realized : b.why = ""
        /\ built.leaf.measure = ask.spec.measure /\ built.leaf.rules = final
        /\ built.leaf.branches = realized /\ NamesIn(built.leaf) = names
        /\ built.leaf.owner = ask.spec.owner /\ built.leaf.preds = preds
    <2> HIDE DEF final, realized, built
    <2> QED
      BY <1>3 DEF Emitted, MadeFrom
  <1>5. BranchesFrom(p, built.leaf)
    <2>1. realized = Realized(p, ask.spec.owner, ask.spec.measure, names, preds, final)
      OBVIOUS
    <2> HIDE DEF final, realized, built, names
    <2> QED
      BY <1>2, <1>4, <2>1 DEF BranchesFrom
  <1> HIDE DEF final, realized, built
  <1> QED
    BY <1>1, <1>3, <1>4, <1>5 DEF final

LEMMA InRealized ==
    ASSUME NEW p, NEW owner, NEW measure, NEW names, NEW preds, NEW final, NEW b
    PROVE  b \in Realized(p, owner, measure, names, preds, final)
             <=> \E f \in final : \E r \in Range(f.realizations) : b = Realize(p, owner, measure, names, preds, r)
  <1> DEFINE one(r) == Realize(p, owner, measure, names, preds, r)
             all == Realized(p, owner, measure, names, preds, final)
  <1>1. all = UNION {{one(r) : r \in Range(f.realizations)} : f \in final}
    BY DEF Realized
  <1> HIDE DEF one, all
  <1>2. b \in all <=> \E f \in final : \E r \in Range(f.realizations) : b = one(r)
    BY <1>1
  <1> QED
    BY <1>2 DEF all, one

\* One realization that was not refused.
IsBranch(p, owner, measure, preds, r, b) ==
    /\ b.owner = r.source
    /\ b.preds = {[x EXCEPT !.at = IF @ = owner THEN r.source ELSE @] : x \in preds}
    /\ b.fan => /\ measure \in DOMAIN p.g[r.source].measures
                /\ p.g[r.source].measures[measure] \in Additive

\* What a realization reads does not depend on the measure.
RealizedAs(p, owner, names, preds, r, branch) ==
    /\ branch.owner = r.source
    /\ branch.preds = {[x EXCEPT !.at = IF @ = owner THEN r.source ELSE @] : x \in preds}
    /\ \A m : Realize(p, owner, m, names, preds, r).why = ""
              => /\ Realize(p, owner, m, names, preds, r) = branch
                 /\ m \in DOMAIN p.g[r.source].measures
                 /\ branch.fan => p.g[r.source].measures[m] \in Additive

LEMMA Realizing ==
    ASSUME NEW p, NEW owner, NEW names, NEW preds, NEW r
    PROVE  \E branch : RealizedAs(p, owner, names, preds, r, branch)
  <1> DEFINE tree == Tree(p, r.source)
             at(k) == Find(p, r.source, <<NoRole, names[k]>>)
             lost == \E k \in DOMAIN names : at(k).is # "found"
             aliases == {at(k).at : k \in {k \in DOMAIN names : at(k).is = "found"}}
                          \cup {x.at : x \in preds}
             joins == PlanJoins(p.g, r.source, {tree[a] : a \in (aliases \cap DOMAIN tree) \ {r.source}}, <<>>)
             fan == \E k \in DOMAIN joins.edges : joins.edges[k].fan
             moved == {[x EXCEPT !.at = IF @ = owner THEN r.source ELSE @] : x \in preds}
             branch == [why |-> "", owner |-> r.source, role |-> r.role, fan |-> fan, preds |-> moved,
                        scans |-> Joined(r.source, joins.edges)]
             one(m) == Realize(p, owner, m, names, preds, r)
  <1>1. \A m : one(m) = IF m \notin DOMAIN p.g[r.source].measures THEN Refuse("unresolved")
                        ELSE IF lost THEN Refuse("unreachable")
                        ELSE IF joins.refused # "" THEN Refuse(joins.refused)
                        ELSE IF fan /\ p.g[r.source].measures[m] \notin Additive THEN Refuse("fanout")
                        ELSE branch
    BY DEF Realize
  <1>2. branch.owner = r.source /\ branch.preds = moved /\ branch.fan = fan
    OBVIOUS
  <1> HIDE DEF lost, joins, fan, branch, moved
  <1>3. \A m : one(m).why = "" => /\ one(m) = branch /\ m \in DOMAIN p.g[r.source].measures
                                  /\ fan => p.g[r.source].measures[m] \in Additive
    <2> SUFFICES ASSUME NEW m, one(m).why = ""
                 PROVE  /\ one(m) = branch /\ m \in DOMAIN p.g[r.source].measures
                        /\ fan => p.g[r.source].measures[m] \in Additive
      OBVIOUS
    <2> DEFINE x == one(m)
    <2>1. x = IF m \notin DOMAIN p.g[r.source].measures THEN Refuse("unresolved")
              ELSE IF lost THEN Refuse("unreachable")
              ELSE IF joins.refused # "" THEN Refuse(joins.refused)
              ELSE IF fan /\ p.g[r.source].measures[m] \notin Additive THEN Refuse("fanout")
              ELSE branch
      BY <1>1
    <2>2. x.why = ""
      OBVIOUS
    <2> HIDE DEF x
    <2>3. x = branch /\ m \in DOMAIN p.g[r.source].measures
            /\ (fan => p.g[r.source].measures[m] \in Additive)
      BY <2>1, <2>2 DEF Refuse
    <2> QED
      BY <2>3 DEF x
  <1> HIDE DEF one
  <1>4. \A m : one(m).why = "" => /\ one(m) = branch /\ m \in DOMAIN p.g[r.source].measures
                                  /\ branch.fan => p.g[r.source].measures[m] \in Additive
    BY <1>2, <1>3
  <1>5. RealizedAs(p, owner, names, preds, r, branch)
    BY <1>2, <1>4, Zenon DEF RealizedAs, one, moved
  <1> QED
    BY <1>5, Zenon

LEMMA RealizedOne ==
    ASSUME NEW p, NEW owner, NEW measure, NEW names, NEW preds, NEW r,
           NEW b, b = Realize(p, owner, measure, names, preds, r), b.why = ""
    PROVE  IsBranch(p, owner, measure, preds, r, b)
  <1>1. PICK branch : RealizedAs(p, owner, names, preds, r, branch)
    BY Realizing, Zenon
  <1>2. b = branch /\ measure \in DOMAIN p.g[r.source].measures
          /\ (branch.fan => p.g[r.source].measures[measure] \in Additive)
    BY <1>1, Zenon DEF RealizedAs
  <1> QED
    BY <1>1, <1>2, Zenon DEF RealizedAs, IsBranch

LEMMA BranchOf ==
    ASSUME NEW p, NEW leaf, BranchesFrom(p, leaf), NEW b \in leaf.branches
    PROVE  \E f \in leaf.rules : \E r \in Range(f.realizations) :
             /\ b = Realize(p, leaf.owner, leaf.measure, NamesIn(leaf), leaf.preds, r)
             /\ IsBranch(p, leaf.owner, leaf.measure, leaf.preds, r, b)
  <1> DEFINE all == Realized(p, leaf.owner, leaf.measure, NamesIn(leaf), leaf.preds, leaf.rules)
  <1>1. leaf.branches = all /\ b.why = ""
    BY DEF BranchesFrom
  <1>2. b \in all
    BY <1>1
  <1>3. PICK f \in leaf.rules : \E r \in Range(f.realizations) :
               b = Realize(p, leaf.owner, leaf.measure, NamesIn(leaf), leaf.preds, r)
    BY <1>2, InRealized
  <1>4. PICK r \in Range(f.realizations) :
               b = Realize(p, leaf.owner, leaf.measure, NamesIn(leaf), leaf.preds, r)
    BY <1>3
  <1>5. IsBranch(p, leaf.owner, leaf.measure, leaf.preds, r, b)
    BY <1>1, <1>4, RealizedOne, Zenon
  <1> QED
    BY <1>4, <1>5, Zenon

\* Everything plan_leaf refuses for, it refuses for before it builds the select.
ScopedPredicates(p, who, policy, owner, n, joins, metric) ==
    Range(n.user) \cup Range(n.pre) \cup metric \cup TenantPredicates(p, owner, joins.edges, who, policy)

IsBuilt(p, who, policy, ask, n, joins, metric, scoped) ==
    scoped = BuildLeaf(p, ask, n.dims, joins.edges,
                       ScopedPredicates(p, who, policy, ask.spec.owner, n, joins, metric),
                       FinalityOf(p, ask.spec, n.dims))

LEMMA ScopedIsBuilt ==
    ASSUME NEW p, NEW who, NEW policy, NEW ask, NEW n, NEW joins, NEW metric,
           ScopeLeaf(p, who, policy, ask, n, joins, metric).why = ""
    PROVE  /\ joins.refused = "" /\ ~TenantMissing(p, ask.spec.owner, joins.edges, policy)
           /\ \A b \in metric : b.is = "found"
           /\ IsBuilt(p, who, policy, ask, n, joins, metric,
                      ScopeLeaf(p, who, policy, ask, n, joins, metric))
  <1> DEFINE owner == ask.spec.owner
             preds == Range(n.user) \cup Range(n.pre) \cup metric
                        \cup TenantPredicates(p, owner, joins.edges, who, policy)
             built == BuildLeaf(p, ask, n.dims, joins.edges, preds, FinalityOf(p, ask.spec, n.dims))
             scoped == ScopeLeaf(p, who, policy, ask, n, joins, metric)
  <1>1. scoped = IF joins.refused # "" THEN Refuse(joins.refused)
                 ELSE IF TenantMissing(p, owner, joins.edges, policy) THEN Refuse("tenant")
                 ELSE IF TenantMismatch(p, owner, joins.edges, who, policy) THEN Refuse("tenant_unresolved")
                 ELSE IF \E b \in metric : b.is # "found" THEN Refuse("unreachable") ELSE built
    BY DEF ScopeLeaf
  <1>2. scoped.why = ""
    OBVIOUS
  <1> HIDE DEF owner, preds, built, scoped
  <1>3. /\ joins.refused = "" /\ ~TenantMissing(p, owner, joins.edges, policy)
        /\ \A b \in metric : b.is = "found"
        /\ scoped = built
    BY <1>1, <1>2 DEF Refuse
  <1> QED
    BY <1>3 DEF owner, preds, scoped, built, IsBuilt, ScopedPredicates

LEMMA ScopedLeaf ==
    ASSUME NEW p, NEW who, NEW policy, NEW ask, NEW n, NEW joins, NEW metric,
           ScopeLeaf(p, who, policy, ask, n, joins, metric).why = ""
    PROVE  /\ joins.refused = "" /\ ~TenantMissing(p, ask.spec.owner, joins.edges, policy)
           /\ \A b \in metric : b.is = "found"
           /\ BranchesFrom(p, ScopeLeaf(p, who, policy, ask, n, joins, metric).leaf)
           /\ MadeFrom(ScopeLeaf(p, who, policy, ask, n, joins, metric).leaf,
                       ask.spec.owner, n.dims, joins.edges,
                       Range(n.user) \cup Range(n.pre) \cup metric
                         \cup TenantPredicates(p, ask.spec.owner, joins.edges, who, policy))
  <1> DEFINE scoped == ScopeLeaf(p, who, policy, ask, n, joins, metric)
             preds == ScopedPredicates(p, who, policy, ask.spec.owner, n, joins, metric)
             built == BuildLeaf(p, ask, n.dims, joins.edges, preds, FinalityOf(p, ask.spec, n.dims))
  <1>1. /\ joins.refused = "" /\ ~TenantMissing(p, ask.spec.owner, joins.edges, policy)
        /\ \A b \in metric : b.is = "found"
        /\ IsBuilt(p, who, policy, ask, n, joins, metric, scoped)
    BY ScopedIsBuilt
  <1>0. scoped = built
    BY <1>1 DEF IsBuilt
  <1>2. scoped.why = ""
    OBVIOUS
  <1>3. built.why = "" => BranchesFrom(p, built.leaf) /\ MadeFrom(built.leaf, ask.spec.owner, n.dims, joins.edges, preds)
    <2> SUFFICES ASSUME built.why = ""
                 PROVE  BranchesFrom(p, built.leaf) /\ MadeFrom(built.leaf, ask.spec.owner, n.dims, joins.edges, preds)
      OBVIOUS
    <2> HIDE DEF preds
    <2>1. /\ BranchesFrom(p, built.leaf)
          /\ Emitted(p, ask.spec, n.dims, joins.edges, preds, FinalityOf(p, ask.spec, n.dims),
                     built.leaf.branches, built.leaf)
      BY BuiltLeaf
    <2> HIDE DEF built
    <2> QED
      BY <2>1 DEF Emitted
  <1> HIDE DEF scoped, preds, built
  <1> QED
    BY <1>0, <1>1, <1>2, <1>3 DEF scoped, preds, ScopedPredicates

LEMMA MetricPredicatesAreOwn ==
    ASSUME NEW p, NEW ask, NEW x \in MetricPredicates(p, ask), x.is = "found"
    PROVE  x.from \in {"population", "guardrail"}
  <1> DEFINE owner == ask.spec.owner
  <1>1. CASE x \in PopulationPredicates(p, owner, ask.ctx.pops \cup ask.spec.pops)
    <2>1. PICK id, n : x = PopulationPredicate(p, owner, id, n)
      BY <1>1 DEF PopulationPredicates
    <2> QED
      BY <2>1 DEF PopulationPredicate
  <1>2. CASE x \in GuardrailPredicates(p, owner, ask.spec.measure)
    <2>1. PICK b, rule : x = IF b.is # "found" THEN b
                             ELSE [is |-> "found", from |-> "guardrail", of |-> rule.id, at |-> b.at,
                                   col |-> b.col, shift |-> <<>>]
      BY <1>2 DEF GuardrailPredicates
    <2> QED
      BY <2>1
  <1> QED
    BY <1>1, <1>2 DEF MetricPredicates

\* Every scan of a planned leaf and of its branches is within the tenant, if the caller
\* has one.
LeafScoped(p, who, policy, leaf) ==
    p.tenancy # NoPolicy /\ ~policy.unscoped /\ who.tenants # {} =>
      /\ \A a \in leaf.scans : ScanScoped(p, who, leaf.owner, leaf.preds, a)
      /\ \A b \in leaf.branches : DeclaredAlike(p, leaf, b) =>
           \A a \in b.scans : ScanScoped(p, who, b.owner, b.preds, a)

\* The tenant predicate of an alias
TenantOn(p, who, owner, a) ==
    [is |-> "found", from |-> "tenant", of |-> who.tenants, at |-> a,
     col |-> ScopeOf(p, Tree(p, owner)[a]).column, shift |-> <<>>]

Within(p, who, owner, preds, a) ==
    LET scope == ScopeOf(p, Tree(p, owner)[a])
    IN  \/ scope.is = "shared"
        \/ scope.is = "undeclared" /\ p.tenancy.undeclared # "deny"
        \/ TenantOn(p, who, owner, a) \in preds

\* A branch of a realization declared like the owner has the predicates of the leaf.
LEMMA BranchScoped ==
    ASSUME NEW p, NEW who, NEW leaf, BranchesFrom(p, leaf), leaf.owner \in leaf.scans,
           \A a \in leaf.scans : Within(p, who, leaf.owner, leaf.preds, a),
           NEW b \in leaf.branches, DeclaredAlike(p, leaf, b), NEW a \in b.scans
    PROVE  ScanScoped(p, who, b.owner, b.preds, a)
  <1> DEFINE moved(x) == [x EXCEPT !.at = IF @ = leaf.owner THEN b.owner ELSE @]
  <1>1. PICK r : IsBranch(p, leaf.owner, leaf.measure, leaf.preds, r, b)
    BY BranchOf, Zenon
  <1>2. b.owner = r.source /\ b.preds = {[x EXCEPT !.at = IF @ = leaf.owner THEN r.source ELSE @] : x \in leaf.preds}
    BY <1>1, Zenon DEF IsBranch
  <1>3. b.preds = {moved(x) : x \in leaf.preds}
    BY <1>2
  <1> DEFINE from == IF a = b.owner THEN leaf.owner ELSE a
             scope == ScopeOf(p, Tree(p, leaf.owner)[from])
  <1>4. from \in leaf.scans /\ ScopeOf(p, Tree(p, b.owner)[a]) = scope /\ (a # b.owner => a # leaf.owner)
    BY DEF DeclaredAlike
  <1>5. Within(p, who, leaf.owner, leaf.preds, from)
    BY <1>4
  <1>6. ASSUME TenantOn(p, who, leaf.owner, from) \in leaf.preds
        PROVE  \E x \in b.preds : x.from = "tenant" /\ x.at = a /\ x.col = scope.column /\ x.of = who.tenants
    <2> DEFINE x == TenantOn(p, who, leaf.owner, from)
               y == moved(x)
    <2>1. y \in b.preds
      BY <1>3, <1>6, Zenon
    <2>2. y.from = "tenant" /\ y.col = scope.column /\ y.of = who.tenants
      BY DEF TenantOn
    <2>3. y.at = IF from = leaf.owner THEN b.owner ELSE from
      BY DEF TenantOn
    <2>4. y.at = a
      BY <1>4, <2>3
    <2> HIDE DEF y
    <2> QED
      BY <2>1, <2>2, <2>4
  <1> HIDE DEF from
  <1> QED
    BY <1>4, <1>5, <1>6 DEF Within, ScanScoped

\* A leaf that JoinLeaf plans, taken apart.
LEMMA JoinedLeaf ==
    ASSUME NEW p, NEW who, NEW policy, NEW ask, NEW n,
           JoinLeaf(p, who, policy, ask, n).why = ""
    PROVE  /\ \A k \in DOMAIN n.dims : n.dims[k].is = "found"
           /\ AllFound(n.user) /\ AllFound(n.pre) /\ \A b \in n.guards : b.is = "found"
           /\ JoinLeaf(p, who, policy, ask, n)
                = ScopeLeaf(p, who, policy, ask, n,
                            PlanJoins(p.g, ask.spec.owner, Needed(n) \ {ask.spec.owner}, ask.q.via),
                            MetricPredicates(p, ask))
  <1> DEFINE owner == ask.spec.owner
             scoped == ScopeLeaf(p, who, policy, ask, n,
                                 PlanJoins(p.g, owner, Needed(n) \ {owner}, ask.q.via),
                                 MetricPredicates(p, ask))
             joined == JoinLeaf(p, who, policy, ask, n)
             unbound == \/ \E f \in n.shifts : f.is # "found"
                        \/ \E k \in DOMAIN n.dims : n.dims[k].is # "found"
                        \/ ~AllFound(n.user) \/ ~AllFound(n.pre)
                        \/ \E r \in DOMAIN n.user : n.user[r].at \notin DOMAIN Tree(p, owner)
  <1>1. joined = IF unbound THEN Refuse("unreachable")
                 ELSE IF Denied(Tree(p, owner), n.user, DeniedColumns(p, policy)) THEN Refuse("denied")
                 ELSE IF \E b \in n.guards : b.is # "found" THEN Refuse("unreachable") ELSE scoped
    BY DEF JoinLeaf
  <1>2. joined.why = ""
    OBVIOUS
  <1> HIDE DEF scoped, joined, unbound
  <1>3. ~unbound /\ (\A b \in n.guards : b.is = "found") /\ joined = scoped
    BY <1>1, <1>2 DEF Refuse
  <1> QED
    BY <1>3 DEF unbound, joined, scoped

LEMMA PlannedLeaf ==
    ASSUME NEW p, Listed(p.g), NEW who, NEW policy, NEW ask,
           PlanLeaf(p, who, policy, ask).why = ""
    PROVE  /\ NamesJoined(PlanLeaf(p, who, policy, ask).leaf)
           /\ LeafScoped(p, who, policy, PlanLeaf(p, who, policy, ask).leaf)
  <1> DEFINE owner == ask.spec.owner
             n == Names(p, ask)
             plan == PlanJoins(p.g, owner, Needed(n) \ {owner}, ask.q.via)
             metric == MetricPredicates(p, ask)
             leaf == PlanLeaf(p, who, policy, ask).leaf
             tenant == TenantPredicates(p, owner, plan.edges, who, policy)
             tree == Tree(p, owner)
  <1>1. PlanLeaf(p, who, policy, ask) = JoinLeaf(p, who, policy, ask, n)
    BY DEF PlanLeaf
  <1>2. JoinLeaf(p, who, policy, ask, n).why = ""
    BY <1>1
  <1>3. /\ \A k \in DOMAIN n.dims : n.dims[k].is = "found"
        /\ AllFound(n.user) /\ AllFound(n.pre) /\ \A b \in n.guards : b.is = "found"
        /\ JoinLeaf(p, who, policy, ask, n) = ScopeLeaf(p, who, policy, ask, n, plan, metric)
    BY <1>2, JoinedLeaf
  <1>4. Needed(n) \subseteq {owner} \cup Range(Order)
    BY <1>3, NeededIsListed
  <1>5. /\ plan.refused = "" /\ ~TenantMissing(p, owner, plan.edges, policy)
        /\ \A b \in metric : b.is = "found"
        /\ BranchesFrom(p, leaf)
        /\ MadeFrom(leaf, owner, n.dims, plan.edges, Range(n.user) \cup Range(n.pre) \cup metric \cup tenant)
    BY <1>1, <1>2, <1>3, ScopedLeaf
  <1>6. Reaches(owner, Needed(n) \ {owner}, plan)
    BY TargetsAreJoined
  <1>7. \A x \in metric : x.from \in {"population", "guardrail"}
    BY <1>5, MetricPredicatesAreOwn
  <1>8. ASSUME NEW x \in tenant PROVE x.at \in Joined(owner, plan.edges)
    <2>1. PICK a \in Joined(owner, plan.edges) :
                 x = [is |-> "found", from |-> "tenant", of |-> who.tenants, at |-> a,
                      col |-> ScopeOf(p, tree[a]).column, shift |-> <<>>]
      <3> HIDE DEF plan, owner
      <3> QED
        BY Zenon DEF TenantPredicates
    <2> HIDE DEF plan, owner, tree
    <2> QED
      BY <2>1
  <1>9. ASSUME NEW a \in Joined(owner, plan.edges), ScopeOf(p, tree[a]).is = "scoped",
               ~policy.unscoped, who.tenants # {}
        PROVE  TenantOn(p, who, owner, a) \in tenant
    BY <1>9, Zenon DEF TenantPredicates, TenantOn
  <1>10. \A a : ScopeOf(p, tree[a]).is \in {"shared", "scoped", "undeclared"}
    BY DEF ScopeOf
  <1>11. ASSUME p.tenancy # NoPolicy, ~policy.unscoped, NEW a \in Joined(owner, plan.edges)
         PROVE  ScopeOf(p, tree[a]).is = "undeclared" => p.tenancy.undeclared # "deny"
    BY <1>5, <1>11 DEF TenantMissing
  <1>12. Needed(n) \subseteq Joined(owner, plan.edges)
    BY <1>4, <1>5, <1>6 DEF Reaches, Joined
  <1>13. /\ \A k \in DOMAIN n.dims : n.dims[k].at \in Needed(n)
         /\ \A x \in Range(n.user) \cup Range(n.pre) : x.at \in Needed(n)
    BY DEF Needed, Range
  <1> HIDE DEF owner, n, plan, metric, leaf, tenant, tree
  <1>14. NamesJoined(leaf)
    <2>1. ASSUME NEW k \in DOMAIN leaf.dims PROVE leaf.dims[k].at \in leaf.scans
      BY <1>5, <1>12, <1>13 DEF MadeFrom
    <2>2. ASSUME NEW x \in leaf.preds, x.from \in {"user", "prefilter", "tenant"}
          PROVE  x.at \in leaf.scans
      <3>1. x \in Range(n.user) \cup Range(n.pre) \cup tenant
        BY <1>5, <1>7, <2>2 DEF MadeFrom
      <3> QED
        BY <1>5, <1>8, <1>12, <1>13, <3>1 DEF MadeFrom
    <2>3. leaf.joins = plan.edges /\ leaf.owner = owner
      BY <1>5 DEF MadeFrom
    <2>4. Linked(owner, plan.edges)
      BY <1>6 DEF Reaches
    <2> QED
      BY <2>1, <2>2, <2>3, <2>4 DEF NamesJoined, Linked
  <1>15. LeafScoped(p, who, policy, leaf)
    <2> SUFFICES ASSUME p.tenancy # NoPolicy, ~policy.unscoped, who.tenants # {}
                 PROVE  /\ \A a \in leaf.scans : ScanScoped(p, who, leaf.owner, leaf.preds, a)
                        /\ \A b \in leaf.branches : DeclaredAlike(p, leaf, b) =>
                             \A a \in b.scans : ScanScoped(p, who, b.owner, b.preds, a)
      BY Zenon DEF LeafScoped
    <2>1. leaf.scans = Joined(owner, plan.edges) /\ leaf.owner = owner /\ tenant \subseteq leaf.preds
      BY <1>5 DEF MadeFrom
    <2>2. ASSUME NEW a \in leaf.scans PROVE Within(p, who, leaf.owner, leaf.preds, a)
      <3>1. Tree(p, leaf.owner)[a] = tree[a]
        BY <2>1 DEF tree
      <3> QED
        BY <1>9, <1>10, <1>11, <2>1, <3>1 DEF Within
    <2>3. ASSUME NEW a \in leaf.scans PROVE ScanScoped(p, who, leaf.owner, leaf.preds, a)
      <3> DEFINE x == TenantOn(p, who, leaf.owner, a)
      <3>1. /\ x.from = "tenant" /\ x.at = a /\ x.col = ScopeOf(p, Tree(p, leaf.owner)[a]).column
            /\ x.of = who.tenants
        BY DEF TenantOn
      <3>2. Within(p, who, leaf.owner, leaf.preds, a)
        BY <2>2
      <3> HIDE DEF x
      <3> QED
        BY <3>1, <3>2 DEF Within, ScanScoped, x
    <2>4. leaf.owner \in leaf.scans
      BY <2>1 DEF Joined
    <2>5. ASSUME NEW b \in leaf.branches, DeclaredAlike(p, leaf, b), NEW a \in b.scans
          PROVE  ScanScoped(p, who, b.owner, b.preds, a)
      BY <1>5, <2>2, <2>4, <2>5, BranchScoped
    <2> QED
      BY <2>3, <2>5
  <1> QED
    BY <1>14, <1>15 DEF leaf

-----------------------------------------------------------------------------
(* compile()                                                                *)

\* Nobody passes stage 0 without a tenant unless the policy says so.
Identified ==
    \/ project.tenancy = NoPolicy \/ authz.unscoped
    \/ caller.tenants # {} \/ project.tenancy.missing = "allow_unscoped"

PlannedInv ==
    /\ IsSeq(planned)
    /\ \A k \in DOMAIN planned : \A leaf \in Range(planned[k]) :
         NamesJoined(leaf) /\ LeafScoped(project, caller, authz, leaf)

\* The inductive invariant
ScopeInv ==
    /\ Listed(project.g)
    /\ PlannedInv
    /\ stage # "principal" => Identified \/ (stage = "done" /\ answer.why # "")

\* A plan of one more metric, or a refusal
NextAsks == Asks(Len(planned) + 1)
LeavesOf(p, who, policy, asks) == [i \in DOMAIN asks |-> PlanLeaf(p, who, policy, asks[i]).leaf]

LEMMA PlansOne ==
    ASSUME PlanNext
    PROVE  \/ planned' = <<>> /\ stage' = "done" /\ answer'.selects = <<>>
           \/ /\ \A i \in DOMAIN NextAsks : PlanLeaf(project, caller, authz, NextAsks[i]).why = ""
              /\ planned' = Append(planned, LeavesOf(project, caller, authz, NextAsks))
              /\ stage' = (IF Len(planned') = Len(bound) THEN "restrict" ELSE "plan")
  <1> DEFINE asks == NextAsks
             plans == [i \in DOMAIN asks |-> PlanLeaf(project, caller, authz, asks[i])]
             refused == {i \in DOMAIN plans : plans[i].why # ""}
             leaves == [i \in DOMAIN plans |-> plans[i].leaf]
  <1>0. PICK pl \in {plans} :
             LET some == {i \in DOMAIN pl : pl[i].why # ""}
             IN  IF some # {} THEN Fail(pl[CHOOSE i \in some : \A j \in some : i <= j].why)
                 ELSE /\ planned' = Append(planned, [i \in DOMAIN pl |-> pl[i].leaf])
                      /\ stage' = IF Len(planned') = Len(bound) THEN "restrict" ELSE "plan"
                      /\ UNCHANGED answer
    BY Zenon DEF PlanNext, NextAsks
  <1>1. IF refused # {} THEN Fail(plans[CHOOSE i \in refused : \A j \in refused : i <= j].why)
        ELSE /\ planned' = Append(planned, leaves)
             /\ stage' = IF Len(planned') = Len(bound) THEN "restrict" ELSE "plan"
             /\ UNCHANGED answer
    <2>1. pl = plans
      OBVIOUS
    <2> HIDE DEF plans
    <2> QED
      BY <1>0, <2>1, Zenon
  <1>2. CASE refused # {}
    <2> DEFINE why == plans[CHOOSE i \in refused : \A j \in refused : i <= j].why
    <2>1. Fail(why)
      BY <1>1, <1>2, Zenon
    <2> HIDE DEF why
    <2>2. planned' = <<>> /\ stage' = "done" /\ answer' = [NoAnswer EXCEPT !.why = why]
      BY <2>1, Zenon DEF Fail
    <2>3. answer'.selects = <<>>
      BY <2>2 DEF NoAnswer
    <2> QED
      BY <2>2, <2>3
  <1>3. CASE refused = {}
    <2>1. planned' = Append(planned, leaves) /\ stage' = (IF Len(planned') = Len(bound) THEN "restrict" ELSE "plan")
      BY <1>1, <1>3, Zenon
    <2>2. leaves = LeavesOf(project, caller, authz, asks)
      BY DEF LeavesOf
    <2>3. \A i \in DOMAIN asks : PlanLeaf(project, caller, authz, asks[i]).why = ""
      BY <1>3
    <2> HIDE DEF leaves
    <2> QED
      BY <2>1, <2>2, <2>3, Zenon
  <1> QED
    BY <1>2, <1>3, Zenon
-----------------------------------------------------------------------------
(* Sequences of sequences                                                   *)

LEMMA SeqOver ==
    ASSUME NEW n \in Nat, NEW s, s = [k \in 1..n |-> s[k]]
    PROVE  IsSeq(s) /\ Len(s) = n
  <1> DEFINE S == {s[k] : k \in 1..n}
  <1>1. s \in [1..n -> S]
    OBVIOUS
  <1> HIDE DEF S
  <1>2. s \in Seq(S)
    BY <1>1
  <1> QED
    BY <1>1, <1>2 DEF IsSeq

LEMMA OneFacts ==
    ASSUME NEW e
    PROVE  IsSeq(<<e>>) /\ Len(<<e>>) = 1 /\ DOMAIN <<e>> = {1} /\ <<e>>[1] = e /\ Range(<<e>>) = {e}
  <1>1. <<e>> \in Seq({e}) /\ Len(<<e>>) = 1 /\ <<e>>[1] = e
    OBVIOUS
  <1>2. DOMAIN <<e>> = {1}
    BY <1>1
  <1> QED
    BY <1>1, <1>2 DEF IsSeq, Range

LEMMA TwoFacts ==
    ASSUME NEW d, NEW e
    PROVE  /\ IsSeq(<<d, e>>) /\ Len(<<d, e>>) = 2 /\ DOMAIN <<d, e>> = {1, 2}
           /\ <<d, e>>[1] = d /\ <<d, e>>[2] = e /\ Range(<<d, e>>) = {d, e}
  <1>1. <<d, e>> \in Seq({d, e}) /\ Len(<<d, e>>) = 2 /\ <<d, e>>[1] = d /\ <<d, e>>[2] = e
    OBVIOUS
  <1>2. DOMAIN <<d, e>> = {1, 2}
    BY <1>1
  <1> QED
    BY <1>1, <1>2 DEF IsSeq, Range

LEMMA ConcatFacts ==
    ASSUME NEW s, NEW t, IsSeq(s), IsSeq(t)
    PROVE  /\ IsSeq(s \o t) /\ Len(s \o t) = Len(s) + Len(t) /\ DOMAIN (s \o t) = 1..(Len(s) + Len(t))
           /\ \A i \in 1..Len(s) : (s \o t)[i] = s[i]
           /\ \A i \in 1..Len(t) : (s \o t)[Len(s) + i] = t[i]
           /\ Range(s \o t) = Range(s) \cup Range(t)
  <1>1. PICK S, T : s \in Seq(S) /\ t \in Seq(T)
    BY DEF IsSeq
  <1> DEFINE U == S \cup T
  <1>2. s \in Seq(U) /\ t \in Seq(U)
    BY <1>1
  <1> HIDE DEF U
  <1>3. s \o t \in Seq(U)
    BY <1>2
  <1>4. /\ Len(s \o t) = Len(s) + Len(t) /\ DOMAIN (s \o t) = 1..(Len(s) + Len(t))
        /\ \A i \in 1..Len(s) : (s \o t)[i] = s[i]
        /\ \A i \in 1..Len(t) : (s \o t)[Len(s) + i] = t[i]
    BY <1>2, <1>3
  <1>5. Len(s) \in Nat /\ Len(t) \in Nat /\ DOMAIN s = 1..Len(s) /\ DOMAIN t = 1..Len(t)
    BY <1>2
  <1> DEFINE c == s \o t
  <1>6. ASSUME NEW i \in 1..(Len(s) + Len(t)) PROVE c[i] \in Range(s) \cup Range(t)
    <2>1. CASE i <= Len(s)
      BY <1>4, <1>5, <2>1 DEF Range
    <2>2. CASE i > Len(s)
      <3>1. i - Len(s) \in 1..Len(t) /\ i = Len(s) + (i - Len(s))
        BY <1>5, <2>2
      <3> QED
        BY <1>4, <1>5, <3>1 DEF Range
    <2> QED
      BY <1>5, <2>1, <2>2
  <1>7. \A i \in 1..Len(s) : s[i] \in Range(c)
    BY <1>4, <1>5 DEF Range
  <1>8. ASSUME NEW i \in 1..Len(t) PROVE t[i] \in Range(c)
    <2>1. Len(s) + i \in DOMAIN c
      BY <1>4, <1>5
    <2> QED
      BY <1>4, <2>1 DEF Range
  <1>9. Range(c) = Range(s) \cup Range(t)
    <2> HIDE DEF c
    <2>1. DOMAIN c = 1..(Len(s) + Len(t))
      BY <1>4 DEF c
    <2>2. Range(c) \subseteq Range(s) \cup Range(t)
      BY <1>6, <2>1 DEF Range
    <2>3. Range(s) \cup Range(t) \subseteq Range(c)
      <3> USE <1>5
      <3> QED
        BY <1>7, <1>8 DEF Range
    <2> QED
      BY <2>2, <2>3
  <1> QED
    BY <1>3, <1>4, <1>9 DEF IsSeq

\* The first m + 1 of some sequences, flattened.
Flattening(f, ss, m) ==
    f = [n \in 0..m |-> IF n = 0 THEN ss[1] ELSE f[n - 1] \o ss[n + 1]]

LEMMA FlatteningExists ==
    ASSUME NEW ss, NEW m \in Nat
    PROVE  \E f : Flattening(f, ss, m)
  <1> DEFINE S == {k \in Nat : \E f : Flattening(f, ss, k)}
  <1>1. 0 \in S
    <2>1. Flattening([n \in 0..0 |-> ss[1]], ss, 0)
      BY DEF Flattening
    <2> QED
      BY <2>1
  <1>2. ASSUME NEW k \in S PROVE k + 1 \in S
    <2>1. PICK f : Flattening(f, ss, k)
      OBVIOUS
    <2> DEFINE h == [n \in 0..k+1 |-> IF n = k + 1 THEN f[k] \o ss[(k + 1) + 1] ELSE f[n]]
    <2>2. ASSUME NEW n \in 0..k+1
          PROVE  h[n] = IF n = 0 THEN ss[1] ELSE h[n - 1] \o ss[n + 1]
      <3>1. CASE n = k + 1
        <4>1. h[n] = f[k] \o ss[(k + 1) + 1] /\ h[n - 1] = f[k]
          BY <3>1
        <4> QED
          BY <3>1, <4>1, SMTT(60)
      <3>2. CASE n # k + 1 /\ n = 0
        <4>1. h[n] = f[0] /\ f[0] = ss[1]
          BY <2>1, <3>2 DEF Flattening
        <4> QED
          BY <3>2, <4>1
      <3>3. CASE n # k + 1 /\ n # 0
        <4>1. h[n] = f[n] /\ h[n - 1] = f[n - 1] /\ n \in 0..k
          BY <3>3
        <4>2. f[n] = f[n - 1] \o ss[n + 1]
          BY <2>1, <3>3, <4>1 DEF Flattening
        <4> QED
          BY <3>3, <4>1, <4>2
      <3> QED
        BY <3>1, <3>2, <3>3
    <2>3. Flattening(h, ss, k + 1)
      BY <2>2 DEF Flattening
    <2> QED
      BY <2>3
  <1>3. S = Nat
    <2> HIDE DEF S
    <2>1. S \in SUBSET Nat
      BY DEF S
    <2> QED
      BY <1>1, <1>2, <2>1, Induction
  <1> QED
    BY <1>3


IsSeqs(ss) == IsSeq(ss) /\ \A i \in DOMAIN ss : IsSeq(ss[i])

\* FlattenSeq counts from 1.
LEMMA FlattenIs ==
    ASSUME NEW ss, IsSeqs(ss), Len(ss) # 0
    PROVE  \E f : Flattening(f, ss, Len(ss) - 1) /\ FlattenSeq(ss) = f[Len(ss) - 1]
  <1> DEFINE m == Len(ss)
  <1>1. m \in Nat /\ m - 1 \in Nat
    BY SeqFacts DEF IsSeqs
  <1>2. PICK f : Flattening(f, ss, m - 1)
    BY <1>1, FlatteningExists
  <1> DEFINE Counts(h) == h = [i \in 1..m |-> IF i = 1 THEN ss[i] ELSE h[i-1] \o ss[i]]
             one == [i \in 1..m |-> f[i - 1]]
             h == CHOOSE h : Counts(h)
  <1>3. Counts(one)
    <2> SUFFICES ASSUME NEW i \in 1..m
                 PROVE  one[i] = IF i = 1 THEN ss[i] ELSE one[i-1] \o ss[i]
      OBVIOUS
    <2>1. i - 1 \in 0..(m - 1) /\ one[i] = f[i - 1]
      BY <1>1
    <2>2. CASE i = 1
      <3>1. f[0] = ss[1]
        BY <1>1, <1>2 DEF Flattening
      <3> QED
        BY <2>1, <2>2, <3>1
    <2>3. CASE i # 1
      <3>1. i - 1 # 0 /\ (i - 1) + 1 = i /\ i - 1 \in 1..m /\ one[i - 1] = f[(i - 1) - 1]
        BY <1>1, <2>3
      <3>2. f[i - 1] = f[(i - 1) - 1] \o ss[(i - 1) + 1]
        BY <1>2, <2>1, <3>1 DEF Flattening
      <3> QED
        BY <2>1, <2>3, <3>1, <3>2
    <2> QED
      BY <2>2, <2>3
  <1>4. Counts(h)
    <2> HIDE DEF one
    <2> QED
      BY <1>3
  <1>5. FlattenSeq(ss) = h[m]
    BY Zenon DEF FlattenSeq
  <1> HIDE DEF h
  <1> DEFINE S == {n \in Nat : n <= m - 1 => h[n + 1] = f[n]}
  <1>6. 0 \in S
    <2>1. h[1] = ss[1] /\ f[0] = ss[1]
      BY <1>1, <1>2, <1>4 DEF Flattening
    <2> QED
      BY <2>1
  <1>7. ASSUME NEW n \in S, n < m - 1 PROVE n + 1 \in S
    <2>1. n \in Nat /\ n + 1 \in 0..(m - 1) /\ (n + 1) - 1 = n /\ n + 1 # 0 /\ h[n + 1] = f[n]
      BY <1>1, <1>7
    <2>2. (n + 1) + 1 \in 1..m /\ (n + 1) + 1 # 1 /\ ((n + 1) + 1) - 1 = n + 1
      BY <1>1, <2>1
    <2>3. h[(n + 1) + 1] = h[n + 1] \o ss[(n + 1) + 1]
      BY <1>4, <2>2
    <2>4. f[n + 1] = f[n] \o ss[(n + 1) + 1]
      BY <1>2, <2>1 DEF Flattening
    <2>5. h[(n + 1) + 1] = f[n + 1]
      <3>1. h[n + 1] = f[n]
        BY <2>1
      <3> QED
        BY <2>3, <2>4, <3>1, Zenon
    <2>6. n + 1 \in Nat
      BY <2>1
    <2> QED
      BY <2>5, <2>6, Zenon
  <1>8. m - 1 \in S
    <2> HIDE DEF S
    <2>1. S \in SUBSET Nat
      BY DEF S
    <2> QED
      BY <1>1, <1>6, <1>7, <2>1, UpTo
  <1>9. FlattenSeq(ss) = f[m - 1]
    BY <1>1, <1>5, <1>8
  <1> QED
    BY <1>2, <1>9

\* What is in a flattened sequence is in one of its parts.
LEMMA FlattenFacts ==
    ASSUME NEW ss, IsSeqs(ss)
    PROVE  /\ IsSeq(FlattenSeq(ss))
           /\ Range(FlattenSeq(ss)) = UNION {Range(ss[i]) : i \in DOMAIN ss}
  <1>1. Len(ss) \in Nat /\ DOMAIN ss = 1..Len(ss) /\ IsSeq(ss)
    BY SeqFacts DEF IsSeqs
  <1>2. CASE Len(ss) = 0
    <2>1. FlattenSeq(ss) = ss
      BY <1>2, Zenon DEF FlattenSeq
    <2>2. DOMAIN ss = {}
      BY <1>1, <1>2
    <2> QED
      BY <1>1, <2>1, <2>2 DEF Range
  <1>3. CASE Len(ss) # 0
    <2> DEFINE m == Len(ss) - 1
    <2>1. m \in Nat
      BY <1>1, <1>3
    <2>2. PICK f : Flattening(f, ss, m) /\ FlattenSeq(ss) = f[m]
      BY <1>3, FlattenIs
    <2> DEFINE Parts(n) == UNION {Range(ss[i]) : i \in 1..(n + 1)}
               S == {n \in Nat : n <= m => IsSeq(f[n]) /\ Range(f[n]) = Parts(n)}
    <2>3. 0 \in S
      <3>1. f[0] = ss[1] /\ 1 \in DOMAIN ss
        BY <1>1, <1>3, <2>1, <2>2 DEF Flattening
      <3>2. Parts(0) = Range(ss[1])
        OBVIOUS
      <3> QED
        BY <3>1, <3>2 DEF IsSeqs
    <2>4. ASSUME NEW n \in S, n < m PROVE n + 1 \in S
      <3>1. n \in Nat /\ n + 1 \in 0..m /\ (n + 1) - 1 = n /\ n + 1 # 0 /\ (n + 1) + 1 \in DOMAIN ss
        BY <1>1, <2>1, <2>4
      <3> HIDE DEF Parts
      <3>2. IsSeq(f[n]) /\ Range(f[n]) = Parts(n)
        BY <2>1, <2>4, <3>1
      <3> DEFINE next == ss[(n + 1) + 1]
      <3>3. f[n + 1] = f[n] \o next
        BY <2>2, <3>1 DEF Flattening
      <3>4. IsSeq(next)
        BY <3>1 DEF IsSeqs
      <3>5. Parts(n + 1) = Parts(n) \cup Range(next)
        <4>1. \A i : i \in 1..((n + 1) + 1) <=> i \in 1..(n + 1) \/ i = (n + 1) + 1
          BY <3>1
        <4> QED
          BY <4>1 DEF Parts
      <3> HIDE DEF next
      <3>6. IsSeq(f[n + 1]) /\ Range(f[n + 1]) = Parts(n + 1)
        <4> DEFINE before == f[n]
        <4>1. IsSeq(before) /\ Range(before) = Parts(n) /\ f[n + 1] = before \o next
          BY <3>2, <3>3
        <4> HIDE DEF before
        <4>2. IsSeq(before \o next) /\ Range(before \o next) = Range(before) \cup Range(next)
          BY <3>4, <4>1, ConcatFacts
        <4> QED
          BY <3>5, <4>1, <4>2, Zenon
      <3> QED
        BY <3>1, <3>6
    <2>5. m \in S
      <3> HIDE DEF S, Parts
      <3>1. S \in SUBSET Nat
        BY DEF S
      <3> QED
        BY <2>1, <2>3, <2>4, <3>1, UpTo
    <2>6. 1..(m + 1) = DOMAIN ss
      BY <1>1, <1>3
    <2> QED
      BY <2>1, <2>2, <2>5, <2>6
  <1> QED
    BY <1>2, <1>3
-----------------------------------------------------------------------------
(* Resolution                                                               *)

\* b is the active binding of a name.
IsBinding(p, name, b) ==
    \E i \in Active(p) : /\ name \in NamesOf(p, i)
                         /\ b.metric = p.bindings[i].metric /\ b.ref = p.bindings[i].ref

\* What one name resolves to, given its components
Resolved(p, name, component, b) ==
    /\ IsBinding(p, name, b) /\ IsBinding(p, b.metric, b)
    /\ DOMAIN b.parts = DOMAIN Deps(b.ref)
    /\ \A k \in DOMAIN b.parts : b.parts[k] = component[b.ref.deps[k]] /\ b.parts[k].is = "binding"
    /\ IsSeq(b.parts)

LEMMA DepsInShape ==
    ASSUME NEW p, InShape(p), NEW i \in Active(p)
    PROVE  /\ Len(Deps(p.bindings[i].ref)) \in Nat
           /\ DOMAIN Deps(p.bindings[i].ref) = 1..Len(Deps(p.bindings[i].ref))
           /\ p.bindings[i].ref.kind = "offset" => Len(Deps(p.bindings[i].ref)) = 1
           /\ p.bindings[i].ref.kind \in Composite \cup {"conversion"} => Len(Deps(p.bindings[i].ref)) = 2
           /\ p.bindings[i].ref.kind \in SourceBound \cup Composite \cup {"offset", "derived", "conversion"}
  <1>1. i \in DOMAIN p.bindings
    BY DEF Active
  <1> QED
    BY <1>1, Zenon DEF InShape, Deps

LEMMA ResolveOne ==
    ASSUME NEW p, InShape(p), NEW name, NEW component,
           ResolveWith(p, name, component).is = "binding"
    PROVE  Resolved(p, name, component, ResolveWith(p, name, component))
  <1> DEFINE i == CHOOSE i \in Matches(p, name) : TRUE
             ref == p.bindings[i].ref
             parts == [k \in DOMAIN Deps(ref) |-> component[ref.deps[k]]]
             bad == {k \in DOMAIN parts : parts[k].is # "binding"}
             least == CHOOSE k \in bad : \A l \in bad : k <= l
             found == [is |-> "binding", metric |-> p.bindings[i].metric, ref |-> ref, parts |-> parts]
             b == ResolveWith(p, name, component)
  <1>1. b = IF Matches(p, name) = {} THEN Unresolved(name)
            ELSE IF Cardinality(Matches(p, name)) > 1 THEN Ambiguous(name)
            ELSE IF bad # {} THEN parts[least] ELSE found
    BY Zenon DEF ResolveWith
  <1>2. Unresolved(name).is # "binding" /\ Ambiguous(name).is # "binding"
    BY DEF Unresolved, Ambiguous
  <1>3. Matches(p, name) # {}
    BY <1>1, <1>2
  <1>4. i \in Matches(p, name)
    BY <1>3
  <1>5. i \in Active(p) /\ name \in NamesOf(p, i)
    BY <1>4 DEF Matches
  <1>6. Len(Deps(ref)) \in Nat /\ DOMAIN Deps(ref) = 1..Len(Deps(ref))
    BY <1>5, DepsInShape
  <1> HIDE DEF i
  <1>7. DOMAIN parts = 1..Len(Deps(ref)) /\ bad \in SUBSET Nat
    <2>1. DOMAIN parts = DOMAIN Deps(ref)
      BY Zenon
    <2> HIDE DEF parts
    <2>2. bad \subseteq DOMAIN parts
      BY Zenon
    <2> HIDE DEF bad, ref
    <2> QED
      BY <1>6, <2>1, <2>2
  <1>8. ASSUME bad # {} PROVE parts[least].is # "binding"
    <2>1. \E k \in bad : \A l \in bad : k <= l
      <3> HIDE DEF bad
      <3> QED
        BY <1>7, <1>8, LeastNatural
    <2>2. least \in bad
      <3> HIDE DEF bad
      <3> QED
        BY <2>1
    <2> QED
      BY <2>2
  <1>9. bad = {} /\ b = found
    <2> HIDE DEF bad, parts, found, least, b
    <2> QED
      BY <1>1, <1>2, <1>3, <1>8 DEF b
  <1>10. b.metric = p.bindings[i].metric /\ b.ref = ref /\ b.parts = parts
    <2> HIDE DEF b, parts, ref
    <2> QED
      BY <1>9
  <1>11. p.bindings[i].metric \in NamesOf(p, i)
    BY DEF NamesOf
  <1>12. IsBinding(p, name, b) /\ IsBinding(p, b.metric, b)
    <2> HIDE DEF b, parts
    <2> QED
      BY <1>5, <1>10, <1>11 DEF IsBinding
  <1>13. /\ DOMAIN b.parts = DOMAIN Deps(b.ref)
         /\ \A k \in DOMAIN b.parts : b.parts[k] = component[b.ref.deps[k]] /\ b.parts[k].is = "binding"
    <2>1. \A k \in DOMAIN parts : parts[k] = component[ref.deps[k]] /\ parts[k].is = "binding"
      BY <1>9
    <2>2. DOMAIN parts = DOMAIN Deps(ref)
      OBVIOUS
    <2> HIDE DEF b, parts, ref
    <2> QED
      BY <1>10, <2>1, <2>2
  <1>14. IsSeq(b.parts)
    <2>1. parts = [k \in 1..Len(Deps(ref)) |-> parts[k]]
      BY <1>7
    <2> HIDE DEF parts, b, ref
    <2> QED
      BY <1>6, <1>10, <2>1, SeqOver
  <1> HIDE DEF b
  <1> QED
    BY <1>12, <1>13, <1>14 DEF Resolved, b

\* What the names resolve to within m components.
Resolving(f, p, names, m) ==
    f = [n \in 0..m |-> IF n = 0 THEN Unknown(names) ELSE ResolveAll(p, names, f[n - 1])]

LEMMA ResolvingExists ==
    ASSUME NEW p, NEW names, NEW m \in Nat
    PROVE  \E f : Resolving(f, p, names, m)
  <1> DEFINE S == {k \in Nat : \E f : Resolving(f, p, names, k)}
  <1>1. 0 \in S
    <2>1. Resolving([n \in 0..0 |-> Unknown(names)], p, names, 0)
      BY DEF Resolving
    <2> QED
      BY <2>1
  <1>2. ASSUME NEW k \in S PROVE k + 1 \in S
    <2>1. PICK f : Resolving(f, p, names, k)
      OBVIOUS
    <2> DEFINE h == [n \in 0..k+1 |-> IF n = k + 1 THEN ResolveAll(p, names, f[k]) ELSE f[n]]
    <2>2. ASSUME NEW n \in 0..k+1
          PROVE  h[n] = IF n = 0 THEN Unknown(names) ELSE ResolveAll(p, names, h[n - 1])
      <3>1. CASE n = k + 1
        <4>1. h[n] = ResolveAll(p, names, f[k]) /\ h[n - 1] = f[k]
          BY <3>1
        <4> QED
          BY <3>1, <4>1
      <3>2. CASE n # k + 1 /\ n = 0
        <4>1. h[n] = f[0] /\ f[0] = Unknown(names)
          BY <2>1, <3>2 DEF Resolving
        <4> QED
          BY <3>2, <4>1
      <3>3. CASE n # k + 1 /\ n # 0
        <4>1. h[n] = f[n] /\ h[n - 1] = f[n - 1] /\ n \in 0..k
          BY <3>3
        <4>2. f[n] = ResolveAll(p, names, f[n - 1])
          BY <2>1, <3>3, <4>1 DEF Resolving
        <4> QED
          BY <3>3, <4>1, <4>2
      <3> QED
        BY <3>1, <3>2, <3>3
    <2>3. Resolving(h, p, names, k + 1)
      BY <2>2 DEF Resolving
    <2> QED
      BY <2>3
  <1>3. S = Nat
    <2> HIDE DEF S
    <2>1. S \in SUBSET Nat
      BY DEF S
    <2> QED
      BY <1>1, <1>2, <2>1, Induction
  <1> QED
    BY <1>3


\* The names met on the way down from a name
NamesMet(p, name) == {name} \cup UNION {Range(Deps(p.bindings[i].ref)) : i \in DOMAIN p.bindings}

LEMMA DepsAreNames ==
    ASSUME NEW p, NEW name
    PROVE  \A i \in Active(p) : \A k \in DOMAIN Deps(p.bindings[i].ref) :
             p.bindings[i].ref.deps[k] \in NamesMet(p, name)
  <1> SUFFICES ASSUME NEW i \in Active(p), NEW k \in DOMAIN Deps(p.bindings[i].ref)
               PROVE  p.bindings[i].ref.deps[k] \in NamesMet(p, name)
    OBVIOUS
  <1>1. i \in DOMAIN p.bindings
    BY DEF Active
  <1>2. Deps(p.bindings[i].ref) = p.bindings[i].ref.deps
    <2>1. Deps(p.bindings[i].ref) # <<>>
      BY EmptyFacts
    <2> QED
      BY <2>1 DEF Deps, Get
  <1>3. Deps(p.bindings[i].ref)[k] \in Range(Deps(p.bindings[i].ref))
    BY DEF Range
  <1> QED
    BY <1>1, <1>2, <1>3 DEF NamesMet

\* Bindings by their depth: what is at a level is made of what is one level below.
Levels(p, L, N) ==
    /\ L[0] = {}
    /\ \A n \in 1..N : \A b \in L[n] :
         /\ IsBinding(p, b.metric, b)
         /\ IsSeq(b.parts) /\ DOMAIN b.parts = DOMAIN Deps(b.ref)
         /\ \A k \in DOMAIN b.parts : b.parts[k] \in L[n - 1]

\* resolver.py: what a name resolves to is an active binding, and so is every metric that
\* it is made of, and none is nested deeper than there are bindings.
LEMMA ResolveFacts ==
    ASSUME NEW p, InShape(p), NEW name, ResolveMetric(p, name).is = "binding"
    PROVE  /\ IsBinding(p, name, ResolveMetric(p, name))
           /\ \E L : Levels(p, L, Len(p.bindings)) /\ ResolveMetric(p, name) \in L[Len(p.bindings)]
  <1> DEFINE N == Len(p.bindings)
             names == {name} \cup UNION {Range(Deps(p.bindings[i].ref)) : i \in DOMAIN p.bindings}
  <1>1. N \in Nat
    BY Zenon DEF InShape
  <1>2. \E f : Resolving(f, p, names, N)
    BY <1>1, ResolvingExists
  <1> DEFINE f == CHOOSE f : Resolving(f, p, names, N)
  <1>3. Resolving(f, p, names, N)
    BY <1>2, Zenon
  <1>4. ResolveMetric(p, name) = f[N][name]
    BY Zenon DEF ResolveMetric, Resolving
  <1> HIDE DEF f, N
  <1>5. \A i \in Active(p) : \A k \in DOMAIN Deps(p.bindings[i].ref) : p.bindings[i].ref.deps[k] \in names
    BY DepsAreNames DEF NamesMet
  <1>6. name \in names
    OBVIOUS
  <1> HIDE DEF names
  <1>7. ASSUME NEW n \in 1..N, NEW m \in names, f[n][m].is = "binding"
        PROVE  Resolved(p, m, f[n - 1], f[n][m])
    <2>1. n \in 0..N /\ n # 0
      BY <1>1
    <2>2. f[n] = ResolveAll(p, names, f[n - 1])
      BY <1>3, <2>1 DEF Resolving
    <2>3. f[n][m] = ResolveWith(p, m, f[n - 1])
      BY <2>2 DEF ResolveAll
    <2> QED
      BY <1>7, <2>3, ResolveOne
  <1>8. ASSUME NEW m \in names PROVE f[0][m].is # "binding"
    <2>1. f[0] = Unknown(names)
      BY <1>1, <1>3 DEF Resolving
    <2>2. f[0][m] = Unresolved(m)
      BY <2>1 DEF Unknown
    <2> QED
      BY <2>2 DEF Unresolved
  <1> DEFINE At(n) == {b \in {f[n][m] : m \in names} : b.is = "binding"}
             L == [n \in 0..N |-> At(n)]
  <1>9. L[0] = {}
    BY <1>1, <1>8
  <1>10. ASSUME NEW n \in 1..N, NEW b \in L[n]
         PROVE  /\ IsBinding(p, b.metric, b)
                /\ IsSeq(b.parts) /\ DOMAIN b.parts = DOMAIN Deps(b.ref)
                /\ \A k \in DOMAIN b.parts : b.parts[k] \in L[n - 1]
    <2>1. PICK m \in names : b = f[n][m] /\ b.is = "binding"
      BY <1>1
    <2>2. Resolved(p, m, f[n - 1], b)
      BY <1>7, <2>1
    <2>3. ASSUME NEW k \in DOMAIN b.parts PROVE b.parts[k] \in L[n - 1]
      <3>1. b.parts[k] = f[n - 1][b.ref.deps[k]] /\ b.parts[k].is = "binding" /\ k \in DOMAIN Deps(b.ref)
        BY <2>2 DEF Resolved
      <3>2. PICK i \in Active(p) : b.ref = p.bindings[i].ref
        BY <2>2 DEF Resolved, IsBinding
      <3>3. b.ref.deps[k] \in names
        BY <1>5, <3>1, <3>2
      <3>4. n - 1 \in 0..N
        BY <1>1
      <3> QED
        BY <3>1, <3>3, <3>4
    <2> HIDE DEF L
    <2> QED
      BY <2>2, <2>3 DEF Resolved
  <1>11. Levels(p, L, N)
    <2> HIDE DEF L
    <2> QED
      BY <1>9, <1>10, Zenon DEF Levels
  <1>12. ResolveMetric(p, name) \in L[N]
    BY <1>1, <1>4, <1>6
  <1>13. IsBinding(p, name, ResolveMetric(p, name))
    <2>1. N # 0
      BY <1>4, <1>6, <1>8
    <2>2. N \in 1..N
      BY <1>1, <2>1
    <2> QED
      BY <1>4, <1>6, <1>7, <2>2 DEF Resolved
  <1> HIDE DEF L
  <1> QED
    BY <1>11, <1>12, <1>13, Zenon DEF N

-----------------------------------------------------------------------------
(* What is planned for a metric                                             *)

\* An open reading is of a binding that is n levels deep or less, and a closed one is of
\* no offset or derived metric.
IsReading(r) == r \in [state : {"open", "closed"}, ctx : {r.ctx}, b : {r.b}, name : {r.name}]
Readable(p, L, N, n, r) ==
    /\ IsReading(r)
    /\ IsBinding(p, r.name, r.b)
    /\ \E l \in 1..N : r.b \in L[l] /\ (r.state # "closed" => l <= n)
    /\ r.state = "closed" => r.b.ref.kind \notin {"offset", "derived"}

LEMMA UnfoldStays ==
    ASSUME NEW p, InShape(p), NEW q, NEW L, NEW N \in Nat, Levels(p, L, N),
           NEW n \in Nat, NEW r, Readable(p, L, N, n + 1, r)
    PROVE  /\ IsSeq(Unfold(p, q, r))
           /\ \A s \in Range(Unfold(p, q, r)) : Readable(p, L, N, n, s)
  <1> DEFINE within(k, ctx) == Reading(ctx, r.b.parts[k], r.b.parts[k].metric)
             shift == [time |-> r.b.ref.time, delta |-> r.b.ref.delta,
                       pre |-> Prefilters(p, q, r.b, FirstSource(p, r.b))]
             closed == [r EXCEPT !.state = "closed"]
             kind == IF r.state = "open" THEN r.b.ref.kind ELSE "closed"
  <1>1. PICK l \in 1..N : r.b \in L[l] /\ (r.state # "closed" => l <= n + 1)
    BY DEF Readable
  <1>2. /\ IsBinding(p, r.b.metric, r.b)
        /\ IsSeq(r.b.parts) /\ DOMAIN r.b.parts = DOMAIN Deps(r.b.ref)
        /\ \A k \in DOMAIN r.b.parts : r.b.parts[k] \in L[l - 1]
    BY <1>1 DEF Levels
  <1>3. ASSUME NEW k \in DOMAIN r.b.parts, NEW ctx, r.state # "closed"
        PROVE  Readable(p, L, N, n, within(k, ctx))
    <2>1. r.b.parts[k] \in L[l - 1] /\ l - 1 \in 0..N
      BY <1>2
    <2>2. l - 1 # 0
      BY <2>1 DEF Levels
    <2>3. l - 1 \in 1..N /\ l - 1 <= n
      BY <1>1, <1>3, <2>1, <2>2
    <2>4. IsBinding(p, r.b.parts[k].metric, r.b.parts[k])
      BY <2>1, <2>3 DEF Levels
    <2>5. /\ within(k, ctx).b = r.b.parts[k] /\ within(k, ctx).name = r.b.parts[k].metric
          /\ within(k, ctx).state = "open" /\ IsReading(within(k, ctx))
      BY DEF Reading, IsReading
    <2> HIDE DEF within
    <2> QED
      BY <2>1, <2>3, <2>4, <2>5 DEF Readable
  <1>4. closed.b = r.b /\ closed.name = r.name /\ closed.state = "closed" /\ IsReading(closed)
    <2>1. IsReading(r)
      BY DEF Readable
    <2>2. closed = [state |-> "closed", ctx |-> r.ctx, b |-> r.b, name |-> r.name]
      BY <2>1 DEF IsReading
    <2> HIDE DEF closed
    <2> QED
      BY <2>2 DEF IsReading
  <1>5. ASSUME kind # "offset", kind # "derived" PROVE Readable(p, L, N, n, closed)
    <2>1. r.state \in {"open", "closed"}
      BY DEF Readable, IsReading
    <2>2. r.b.ref.kind \notin {"offset", "derived"}
      BY <1>5, <2>1 DEF Readable
    <2> HIDE DEF closed
    <2> QED
      BY <1>1, <1>4, <2>2 DEF Readable
  <1>6. kind # "closed" => r.state # "closed" /\ r.b.ref.kind = kind
    OBVIOUS
  <1>7. kind \in {"offset", "conversion"} => 1 \in DOMAIN r.b.parts
    <2>1. PICK i \in Active(p) : r.b.ref = p.bindings[i].ref
      BY <1>2 DEF IsBinding
    <2> HIDE DEF kind
    <2> QED
      BY <1>2, <1>6, <2>1, DepsInShape
  <1>8. CASE kind = "offset"
    <2> DEFINE s == within(1, Enclose(r.ctx, r.b, <<shift>>))
    <2>1. Unfold(p, q, r) = <<s>>
      BY <1>8, Zenon DEF Unfold
    <2>2. Readable(p, L, N, n, s)
      BY <1>3, <1>6, <1>7, <1>8
    <2> HIDE DEF s
    <2> QED
      BY <2>1, <2>2, OneFacts
  <1>9. CASE kind = "derived"
    <2> DEFINE s(k) == within(k, Enclose(r.ctx, r.b, <<>>))
               all == [k \in DOMAIN r.b.parts |-> s(k)]
    <2>1. Unfold(p, q, r) = all
      BY <1>9 DEF Unfold
    <2>2. \A k \in DOMAIN r.b.parts : Readable(p, L, N, n, s(k))
      BY <1>3, <1>6, <1>9
    <2> HIDE DEF s
    <2>3. IsSeq(all)
      <3>1. Len(r.b.parts) \in Nat /\ DOMAIN r.b.parts = 1..Len(r.b.parts)
        BY <1>2, SeqFacts
      <3>2. all = [k \in 1..Len(r.b.parts) |-> all[k]]
        BY <3>1
      <3> HIDE DEF all
      <3> QED
        BY <3>1, <3>2, SeqOver
    <2>4. \A x \in Range(all) : Readable(p, L, N, n, x)
      BY <2>2 DEF Range
    <2> QED
      BY <2>1, <2>3, <2>4
  <1>10. CASE kind = "conversion"
    <2> DEFINE s == within(1, r.ctx)
    <2>1. Unfold(p, q, r) = <<closed, s>>
      BY <1>10 DEF Unfold
    <2>2. Readable(p, L, N, n, s) /\ Readable(p, L, N, n, closed)
      BY <1>3, <1>5, <1>6, <1>7, <1>10
    <2> HIDE DEF s, closed
    <2> QED
      BY <2>1, <2>2, TwoFacts
  <1>11. CASE kind \notin {"offset", "derived", "conversion"}
    <2>1. Unfold(p, q, r) = <<closed>>
      BY <1>11 DEF Unfold
    <2>2. Readable(p, L, N, n, closed)
      BY <1>5, <1>11
    <2> HIDE DEF closed
    <2> QED
      BY <2>1, <2>2, OneFacts
  <1> QED
    BY <1>8, <1>9, <1>10, <1>11

\* What is read to plan a metric, down to m levels.
Unfolding(f, p, q, first, m) ==
    f = [n \in 0..m |-> IF n = 0 THEN <<first>> ELSE UnfoldAll(p, q, f[n - 1])]

LEMMA UnfoldingExists ==
    ASSUME NEW p, NEW q, NEW first, NEW m \in Nat
    PROVE  \E f : Unfolding(f, p, q, first, m)
  <1> DEFINE S == {k \in Nat : \E f : Unfolding(f, p, q, first, k)}
  <1>1. 0 \in S
    <2>1. Unfolding([n \in 0..0 |-> <<first>>], p, q, first, 0)
      BY DEF Unfolding
    <2> QED
      BY <2>1
  <1>2. ASSUME NEW k \in S PROVE k + 1 \in S
    <2>1. PICK f : Unfolding(f, p, q, first, k)
      OBVIOUS
    <2> DEFINE h == [n \in 0..k+1 |-> IF n = k + 1 THEN UnfoldAll(p, q, f[k]) ELSE f[n]]
    <2>2. ASSUME NEW n \in 0..k+1
          PROVE  h[n] = IF n = 0 THEN <<first>> ELSE UnfoldAll(p, q, h[n - 1])
      <3>1. CASE n = k + 1
        <4>1. h[n] = UnfoldAll(p, q, f[k]) /\ h[n - 1] = f[k]
          BY <3>1
        <4> QED
          BY <3>1, <4>1
      <3>2. CASE n # k + 1 /\ n = 0
        <4>1. h[n] = f[0] /\ f[0] = <<first>>
          BY <2>1, <3>2 DEF Unfolding
        <4> QED
          BY <3>2, <4>1
      <3>3. CASE n # k + 1 /\ n # 0
        <4>1. h[n] = f[n] /\ h[n - 1] = f[n - 1] /\ n \in 0..k
          BY <3>3
        <4>2. f[n] = UnfoldAll(p, q, f[n - 1])
          BY <2>1, <3>3, <4>1 DEF Unfolding
        <4> QED
          BY <3>3, <4>1, <4>2
      <3> QED
        BY <3>1, <3>2, <3>3
    <2>3. Unfolding(h, p, q, first, k + 1)
      BY <2>2 DEF Unfolding
    <2> QED
      BY <2>3
  <1>3. S = Nat
    <2> HIDE DEF S
    <2>1. S \in SUBSET Nat
      BY DEF S
    <2> QED
      BY <1>1, <1>2, <2>1, Induction
  <1> QED
    BY <1>3


LEMMA UnfoldAllStays ==
    ASSUME NEW p, InShape(p), NEW q, NEW L, NEW N \in Nat, Levels(p, L, N),
           NEW n \in Nat, NEW rs, IsSeq(rs), \A r \in Range(rs) : Readable(p, L, N, n + 1, r)
    PROVE  /\ IsSeq(UnfoldAll(p, q, rs))
           /\ \A s \in Range(UnfoldAll(p, q, rs)) : Readable(p, L, N, n, s)
  <1> DEFINE ss == [i \in DOMAIN rs |-> Unfold(p, q, rs[i])]
  <1>1. ASSUME NEW i \in DOMAIN rs
        PROVE  IsSeq(Unfold(p, q, rs[i])) /\ \A s \in Range(Unfold(p, q, rs[i])) : Readable(p, L, N, n, s)
    <2>1. Readable(p, L, N, n + 1, rs[i])
      BY DEF Range
    <2> QED
      BY <2>1, UnfoldStays
  <1>2. Len(rs) \in Nat /\ DOMAIN rs = 1..Len(rs)
    BY SeqFacts
  <1>3. /\ ss = [i \in 1..Len(rs) |-> ss[i]] /\ DOMAIN ss = DOMAIN rs
        /\ \A i \in DOMAIN rs : IsSeq(ss[i]) /\ \A s \in Range(ss[i]) : Readable(p, L, N, n, s)
    BY <1>1, <1>2
  <1>4. UnfoldAll(p, q, rs) = FlattenSeq(ss)
    BY DEF UnfoldAll
  <1> HIDE DEF ss
  <1>5. IsSeqs(ss)
    BY <1>2, <1>3, SeqOver DEF IsSeqs
  <1>6. IsSeq(FlattenSeq(ss)) /\ Range(FlattenSeq(ss)) = UNION {Range(ss[i]) : i \in DOMAIN ss}
    BY <1>5, FlattenFacts
  <1> QED
    BY <1>3, <1>4, <1>6, SMTT(60)

\* Whatever is planned for a metric is planned for an active binding, under its name, and
\* is neither an offset nor a derived metric.
LEMMA ReadingsFacts ==
    ASSUME NEW p, InShape(p), NEW q, NEW ctx, NEW b, NEW name, IsBinding(p, name, b),
           NEW L, Levels(p, L, Len(p.bindings)), b \in L[Len(p.bindings)]
    PROVE  /\ IsSeq(Readings(p, q, ctx, b, name))
           /\ \A r \in Range(Readings(p, q, ctx, b, name)) :
                /\ IsBinding(p, r.name, r.b) /\ r.b.ref.kind \notin {"offset", "derived"}
                /\ \E l \in 1..Len(p.bindings) : r.b \in L[l]
  <1> DEFINE N == Len(p.bindings)
             first == Reading(ctx, b, name)
  <1>1. N \in Nat
    BY Zenon DEF InShape
  <1>2. \E f : Unfolding(f, p, q, first, N)
    BY <1>1, UnfoldingExists
  <1> DEFINE f == CHOOSE f : Unfolding(f, p, q, first, N)
  <1>3. Unfolding(f, p, q, first, N)
    BY <1>2, Zenon
  <1>4. Readings(p, q, ctx, b, name) = f[N]
    BY Zenon DEF Readings, Unfolding
  <1>5. N # 0 => N \in 1..N
    BY <1>1
  <1>6. b \in L[N] /\ Levels(p, L, N)
    OBVIOUS
  <1> HIDE DEF f, N
  <1>7. N \in 1..N
    BY <1>5, <1>6 DEF Levels
  <1>8. Readable(p, L, N, N, first)
    <2>1. first.b = b /\ first.name = name /\ first.state = "open" /\ IsReading(first)
      BY DEF Reading, IsReading
    <2> HIDE DEF first
    <2> QED
      BY <1>1, <1>6, <1>7, <2>1 DEF Readable
  <1> HIDE DEF first
  <1> DEFINE Fine(n) == IsSeq(f[n]) /\ \A r \in Range(f[n]) : Readable(p, L, N, N - n, r)
             S == {n \in Nat : n <= N => Fine(n)}
  <1>9. 0 \in S
    <2>1. f[0] = <<first>>
      BY <1>1, <1>3 DEF Unfolding
    <2>2. N - 0 = N
      BY <1>1
    <2>3. IsSeq(f[0]) /\ Range(f[0]) = {first}
      BY <2>1, OneFacts
    <2> QED
      BY <1>8, <2>2, <2>3
  <1>10. ASSUME NEW n \in S, n < N PROVE n + 1 \in S
    <2>1. n \in Nat /\ n + 1 \in 0..N /\ (n + 1) - 1 = n /\ n + 1 # 0 /\ Fine(n)
      BY <1>1, <1>10
    <2>2. f[n + 1] = UnfoldAll(p, q, f[n])
      BY <1>3, <2>1 DEF Unfolding
    <2>3. N - (n + 1) \in Nat /\ N - n = (N - (n + 1)) + 1
      BY <1>1, <2>1
    <2> DEFINE rs == f[n]  left == N - (n + 1)
    <2>4. IsSeq(rs) /\ \A r \in Range(rs) : Readable(p, L, N, left + 1, r)
      BY <2>1, <2>3
    <2>5. left \in Nat
      BY <2>3
    <2> HIDE DEF rs, left
    <2>6. IsSeq(UnfoldAll(p, q, rs)) /\ \A r \in Range(UnfoldAll(p, q, rs)) : Readable(p, L, N, left, r)
      BY <1>1, <1>6, <2>4, <2>5, UnfoldAllStays
    <2>7. Fine(n + 1)
      BY <2>2, <2>6, Zenon DEF rs, left
    <2> HIDE DEF Fine
    <2> QED
      BY <2>1, <2>7
  <1>11. Fine(N)
    <2> HIDE DEF S, Fine
    <2>1. S \in SUBSET Nat
      BY DEF S
    <2>2. N \in S
      BY <1>1, <1>9, <1>10, <2>1, UpTo
    <2> QED
      BY <1>1, <2>2 DEF S
  <1>12. ASSUME NEW r \in Range(f[N])
         PROVE  /\ IsBinding(p, r.name, r.b) /\ r.b.ref.kind \notin {"offset", "derived"}
                /\ \E l \in 1..N : r.b \in L[l]
    <2>1. Readable(p, L, N, 0, r)
      <3>1. N - N = 0
        BY <1>1
      <3> QED
        BY <1>11, <3>1
    <2>2. PICK l \in 1..N : r.b \in L[l] /\ (r.state # "closed" => l <= 0)
      BY <2>1 DEF Readable
    <2>3. r.state = "closed"
      BY <2>2
    <2> QED
      BY <2>1, <2>2, <2>3 DEF Readable
  <1> QED
    BY <1>4, <1>11, <1>12, Zenon DEF N
-----------------------------------------------------------------------------
(* What the strategies ask for                                              *)

\* A leaf that may share its select is named for the binding whose measure it reads.
NamedMeasure(p, x) ==
    \E i \in Active(p) : x.column \in NamesOf(p, i) /\ x.measure = p.bindings[i].ref.measure

\* A leaf that does not refuse a fan-out counts distinct values, is taken as it is, or
\* deduplicates a declared measure.
Dedups(p, x) ==
    \/ x.fans = "refuse"
    \/ x.strategy \in {"distinct_count", "opaque"}
    \/ x.fans = "dedup" /\ x.measure \in DOMAIN p.g[x.owner].measures

Asked(p, ask) ==
    ask.why = "" => (ask.spec.fusable => NamedMeasure(p, ask.spec)) /\ Dedups(p, ask.spec)

LEMMA RefusedAsked == \A p, why : why # "" => Asked(p, Refuse(why))
  BY DEF Asked, Refuse

LEMMA LeafAsked ==
    ASSUME NEW p, NEW q, NEW ctx, NEW spec, spec.fusable => NamedMeasure(p, spec), Dedups(p, spec)
    PROVE  Asked(p, Leaf(q, ctx, spec))
  BY DEF Asked, Leaf

\* validate.py: the measure of an accepted binding is declared on its source.
MeasureKnown(p, ref) == Has(ref, "measure") /\ ref.measure \in DOMAIN p.g[ref.source].measures

LEMMA AcceptedMeasure ==
    ASSUME NEW p, Accepted(p), NEW name, NEW b, IsBinding(p, name, b), b.ref.kind \in {"single", "cumulative"}
    PROVE  MeasureKnown(p, b.ref)
  <1>1. PICK i \in Active(p) : b.ref = p.bindings[i].ref
    BY DEF IsBinding
  <1>2. i \in DOMAIN p.bindings
    BY DEF Active
  <1>3. ShapeOK(b.ref) /\ BindingOK(p, i)
    BY <1>1, <1>2, Zenon DEF Accepted
  <1>4. "measure" \in Required(b.ref.kind)
    <2>1. b.ref.kind = "single" => Required(b.ref.kind) = {"source", "measure"}
      BY DEF Required, Composite
    <2>2. b.ref.kind = "cumulative" => Required(b.ref.kind) = {"source", "measure", "order"}
      BY DEF Required, Composite
    <2> QED
      BY <2>1, <2>2
  <1>5. Has(b.ref, "measure")
    BY <1>3, <1>4 DEF ShapeOK, Has
  <1>6. HasMeasure(p, b.ref)
    <2>1. CASE b.ref.kind = "single"
      BY <1>1, <1>3, <2>1 DEF BindingOK, Recompute, Composite
    <2>2. CASE b.ref.kind = "cumulative"
      <3>1. CumulativeOK(p, b.ref)
        BY <1>1, <1>3, <2>2 DEF BindingOK, Recompute, Composite
      <3> QED
        BY <3>1 DEF CumulativeOK
    <2> QED
      BY <2>1, <2>2
  <1> QED
    BY <1>5, <1>6 DEF MeasureKnown, HasMeasure

\* A leaf for the measure of a binding, under its name
LEMMA MeasureAsked ==
    ASSUME NEW p, Accepted(p), NEW name, NEW b, IsBinding(p, name, b), b.ref.kind \in {"single", "cumulative"},
           NEW spec, spec.owner = b.ref.source, spec.measure = Get(b.ref, "measure", NoMetric),
           spec.column = name, spec.fans = "dedup"
    PROVE  NamedMeasure(p, spec) /\ Dedups(p, spec)
  <1>1. Has(b.ref, "measure") /\ b.ref.measure \in DOMAIN p.g[b.ref.source].measures
    BY AcceptedMeasure DEF MeasureKnown
  <1>2. spec.measure = b.ref.measure
    BY <1>1 DEF Get, Has
  <1>3. PICK i \in Active(p) : name \in NamesOf(p, i) /\ b.ref = p.bindings[i].ref
    BY DEF IsBinding
  <1> QED
    BY <1>1, <1>2, <1>3 DEF NamedMeasure, Dedups

AllAsked(p, asks) == IsSeq(asks) /\ \A ask \in Range(asks) : Asked(p, ask)

LEMMA OneAsked == ASSUME NEW p, NEW ask, Asked(p, ask) PROVE AllAsked(p, <<ask>>)
  BY OneFacts DEF AllAsked

\* The populations a leaf is asked for, and those of the leaves of one plan
LEMMA IdsOfBoth == \A A, B : Ids(A \cup B) = Ids(A) \cup Ids(B)
  BY DEF Ids

AskPops(ask) == Ids(ask.ctx.pops) \cup Ids(ask.spec.pops)
Narrowed(plan, sets) ==
    (\A ask \in Range(plan) : ask.why = "") =>
      DOMAIN plan = DOMAIN sets /\ \A k \in DOMAIN sets : AskPops(plan[k]) = sets[k]

LEMMA LeafPops == \A q, ctx, spec : AskPops(Leaf(q, ctx, spec)) = Ids(ctx.pops) \cup Ids(spec.pops)
  BY DEF AskPops, Leaf

LEMMA OneNarrowed ==
    ASSUME NEW ask, NEW S, ask.why = "" => AskPops(ask) = S
    PROVE  Narrowed(<<ask>>, <<S>>)
  BY OneFacts DEF Narrowed

LEMMA PairNarrowed ==
    ASSUME NEW plan, NEW A, NEW B, DOMAIN plan = {1, 2},
           (\A ask \in Range(plan) : ask.why = "") => AskPops(plan[1]) = A /\ AskPops(plan[2]) = B
    PROVE  Narrowed(plan, <<A, B>>)
  <1> DEFINE sets == <<A, B>>
  <1>1. DOMAIN sets = {1, 2} /\ sets[1] = A /\ sets[2] = B
    BY TwoFacts
  <1> HIDE DEF sets
  <1>2. Narrowed(plan, sets)
    BY <1>1 DEF Narrowed
  <1> QED
    BY <1>2 DEF sets

LEMMA RefusedNarrowed == ASSUME NEW why, why # "", NEW sets PROVE Narrowed(<<Refuse(why)>>, sets)
  <1>1. Refuse(why).why = why /\ Range(<<Refuse(why)>>) = {Refuse(why)}
    BY OneFacts DEF Refuse
  <1> QED
    BY <1>1 DEF Narrowed

\* The strategies of one leaf: the populations around it and its own
Own(ctx, b) == <<Ids(ctx.pops) \cup Ids(OwnPop(b))>>

LEMMA OwnNarrowed ==
    ASSUME NEW q, NEW ctx, NEW b, NEW spec, spec.pops = OwnPop(b)
    PROVE  Narrowed(<<Leaf(q, ctx, spec)>>, Own(ctx, b))
  BY LeafPops, OneNarrowed, ZenonT(60) DEF Own

LEMMA SingleAsks ==
    ASSUME NEW p, Accepted(p), NEW q, NEW ctx, NEW name, NEW b, IsBinding(p, name, b), b.ref.kind = "single"
    PROVE  AllAsked(p, PlanSingle(q, ctx, b, name)) /\ Narrowed(PlanSingle(q, ctx, b, name), Own(ctx, b))
  <1> DEFINE spec == [Ask(b, name, "single", q) EXCEPT !.rule = name]
  <1>1. /\ spec.owner = b.ref.source /\ spec.measure = Get(b.ref, "measure", NoMetric)
        /\ spec.column = name /\ spec.fans = "dedup" /\ spec.pops = OwnPop(b)
    BY DEF Ask
  <1>2. PlanSingle(q, ctx, b, name) = <<Leaf(q, ctx, spec)>>
    BY DEF PlanSingle
  <1> HIDE DEF spec
  <1>3. Asked(p, Leaf(q, ctx, spec))
    BY <1>1, MeasureAsked, LeafAsked
  <1> QED
    BY <1>1, <1>2, <1>3, OneAsked, OwnNarrowed

LEMMA SemiAdditiveAsks ==
    ASSUME NEW p, NEW q, NEW ctx, NEW name, NEW b
    PROVE  AllAsked(p, PlanSemiAdditive(q, ctx, b, name)) /\ Narrowed(PlanSemiAdditive(q, ctx, b, name), Own(ctx, b))
  <1> DEFINE spec == [Ask(b, name, "semi_additive", q) EXCEPT
                        !.params = <<b.ref.column>>, !.fans = "refuse", !.fusable = FALSE]
  <1>1. spec.fans = "refuse" /\ ~spec.fusable /\ spec.pops = OwnPop(b)
    BY DEF Ask
  <1>2. PlanSemiAdditive(q, ctx, b, name) = <<Leaf(q, ctx, spec)>>
    BY DEF PlanSemiAdditive
  <1> HIDE DEF spec
  <1>3. Asked(p, Leaf(q, ctx, spec))
    BY <1>1, LeafAsked DEF Dedups
  <1> QED
    BY <1>1, <1>2, <1>3, OneAsked, OwnNarrowed

LEMMA RecomputeAsks ==
    ASSUME NEW p, NEW q, NEW ctx, NEW name, NEW b, b.ref.kind \in Recompute, NEW pops
    PROVE  /\ AllAsked(p, PlanRecompute(p, q, ctx, b, name, pops))
           /\ \A S : S = Ids(ctx.pops) \cup Ids(OwnPop(b) \cup pops) =>
                Narrowed(PlanRecompute(p, q, ctx, b, name, pops), <<S>>)
  <1> DEFINE counted == BindName(p.g, <<NoRole, b.ref.column>>, b.ref.source, Tree(p, b.ref.source), TRUE)
             spec == [Ask(b, name, b.ref.kind, q) EXCEPT
                        !.measure = counted.col, !.params = <<b.ref.column>>, !.pops = @ \cup pops,
                        !.fans = IF b.ref.kind = "percentile" THEN "refuse" ELSE "recount",
                        !.fusable = FALSE, !.reads = {<<counted.at, counted.col>>}]
  <1>1. PlanRecompute(p, q, ctx, b, name, pops)
          = IF counted.is # "found" THEN <<Refuse("unreachable")>> ELSE <<Leaf(q, ctx, spec)>>
    BY Zenon DEF PlanRecompute
  <1> HIDE DEF counted
  <1>2. /\ spec.fans = IF b.ref.kind = "percentile" THEN "refuse" ELSE "recount"
        /\ ~spec.fusable /\ spec.strategy = b.ref.kind /\ spec.pops = OwnPop(b) \cup pops
    BY DEF Ask
  <1> HIDE DEF spec
  <1>3. Asked(p, Leaf(q, ctx, spec))
    BY <1>2, LeafAsked DEF Dedups, Recompute
  <1>4. AskPops(Leaf(q, ctx, spec)) = Ids(ctx.pops) \cup Ids(OwnPop(b) \cup pops)
    BY <1>2, LeafPops
  <1> QED
    BY <1>1, <1>3, <1>4, OneAsked, RefusedAsked, OneNarrowed, RefusedNarrowed

LEMMA OpaqueAsks ==
    ASSUME NEW p, NEW q, NEW ctx, NEW name, NEW b
    PROVE  AllAsked(p, PlanOpaque(q, ctx, b, name)) /\ Narrowed(PlanOpaque(q, ctx, b, name), Own(ctx, b))
  <1> DEFINE spec == [Ask(b, name, "opaque", q) EXCEPT !.fans = "asis", !.fusable = FALSE, !.native = b.ref.grain]
  <1>1. spec.strategy = "opaque" /\ ~spec.fusable /\ spec.pops = OwnPop(b)
    BY DEF Ask
  <1>2. PlanOpaque(q, ctx, b, name) = <<Leaf(q, ctx, spec)>>
    BY DEF PlanOpaque
  <1> HIDE DEF spec
  <1>3. Asked(p, Leaf(q, ctx, spec))
    BY <1>1, LeafAsked DEF Dedups
  <1> QED
    BY <1>1, <1>2, <1>3, OneAsked, OwnNarrowed

LEMMA CumulativeAsks ==
    ASSUME NEW p, Accepted(p), NEW q, NEW ctx, NEW name, NEW b, IsBinding(p, name, b), b.ref.kind = "cumulative"
    PROVE  AllAsked(p, PlanCumulative(p, q, ctx, b, name)) /\ Narrowed(PlanCumulative(p, q, ctx, b, name), Own(ctx, b))
  <1> DEFINE owner == b.ref.source
             order == {Find(p, owner, b.ref.order[k]) : k \in DOMAIN b.ref.order}
             grouped == {Find(p, owner, q.dims[k]) : k \in DOMAIN q.dims}
             shown == IF Has(b.ref, "history")
                      THEN Visibility(p, owner, FiltersOf(q), {<<f.at, f.dim.col>> : f \in order}) ELSE {}
             params == <<b.ref.order, Has(b.ref, "history"), shown>>
             spec == [Ask(b, name, "cumulative", q) EXCEPT !.params = params, !.filters = @ \ shown]
  <1>1. PlanCumulative(p, q, ctx, b, name)
          = IF ~(order \subseteq grouped) THEN <<Refuse("order_dimension")>> ELSE <<Leaf(q, ctx, spec)>>
    BY Zenon DEF PlanCumulative
  <1> HIDE DEF order, grouped, shown, params
  <1>2. /\ spec.owner = b.ref.source /\ spec.measure = Get(b.ref, "measure", NoMetric)
        /\ spec.column = name /\ spec.fans = "dedup" /\ spec.pops = OwnPop(b)
    BY DEF Ask
  <1> HIDE DEF spec
  <1>3. Asked(p, Leaf(q, ctx, spec))
    BY <1>2, MeasureAsked, LeafAsked
  <1> QED
    BY <1>1, <1>2, <1>3, OneAsked, RefusedAsked, OwnNarrowed, RefusedNarrowed

LEMMA RollingAsks ==
    ASSUME NEW p, Accepted(p), NEW q, NEW ctx, NEW name, NEW b, IsBinding(p, name, b), b.ref.kind = "cumulative"
    PROVE  AllAsked(p, PlanRolling(p, q, ctx, b, name)) /\ Narrowed(PlanRolling(p, q, ctx, b, name), Own(ctx, b))
  <1> DEFINE owner == b.ref.source
             day == Find(p, owner, b.ref.order[1])
             on == {k \in DOMAIN q.dims : LET f == Find(p, owner, q.dims[k])
                                          IN  f.is = "found" /\ f.at = day.at /\ f.dim.col = day.dim.col}
             shown == Visibility(p, owner, FiltersOf(q), {<<day.at, day.dim.col>>})
             spec == [Ask(b, name, "rolling", q) EXCEPT
                        !.params = <<shown>>, !.filters = @ \ shown, !.fusable = FALSE]
  <1>1. PlanRolling(p, q, ctx, b, name)
          = IF \E k \in DOMAIN q.dims : Find(p, owner, q.dims[k]).is # "found" THEN <<Refuse("unreachable")>>
            ELSE IF Cardinality(on) # 1 THEN <<Refuse("order_dimension")>> ELSE <<Leaf(q, ctx, spec)>>
    BY Zenon DEF PlanRolling
  <1> HIDE DEF day, on, shown
  <1>2. /\ spec.owner = b.ref.source /\ spec.measure = Get(b.ref, "measure", NoMetric)
        /\ spec.column = name /\ spec.fans = "dedup" /\ spec.pops = OwnPop(b)
    BY DEF Ask
  <1> HIDE DEF spec
  <1>3. Asked(p, Leaf(q, ctx, spec))
    BY <1>2, MeasureAsked, LeafAsked
  <1> QED
    BY <1>1, <1>2, <1>3, OneAsked, RefusedAsked, OwnNarrowed, RefusedNarrowed

LEMMA ConversionAsks ==
    ASSUME NEW p, NEW q, NEW ctx, NEW b, NEW name
    PROVE  /\ AllAsked(p, PlanConversion(q, ctx, b, name))
           /\ Narrowed(PlanConversion(q, ctx, b, name),
                       <<Ids(ctx.pops) \cup Ids(OwnPop(b.parts[2])), Ids(ctx.pops) \cup Ids(OwnPop(b.parts[1]))>>)
  <1> DEFINE side(k) == b.parts[k]
             measured(k) == IF side(k).ref.kind = "single" THEN side(k).ref.measure ELSE side(k).ref.column
             bare == [q EXCEPT !.dims = <<>>, !.filters = {}, !.range = NoRange]
             params == <<side(2).metric, b.ref.entity, b.ref.times>>
             events == [Ask(side(2), name, "conversion_events", bare) EXCEPT
                          !.measure = measured(2), !.fans = "refuse", !.fusable = FALSE]
             leaf == [Ask(side(1), name, "conversion", q) EXCEPT
                        !.measure = measured(1), !.fans = "refuse", !.fusable = FALSE, !.params = params]
  <1>1. PlanConversion(q, ctx, b, name) = IF ctx.shifts # <<>> THEN <<Refuse("conversion_under_offset")>>
                                    ELSE <<Leaf(bare, ctx, events), Leaf(q, ctx, leaf)>>
    BY Zenon DEF PlanConversion
  <1> HIDE DEF side, measured, bare, params
  <1>2. /\ events.fans = "refuse" /\ ~events.fusable /\ leaf.fans = "refuse" /\ ~leaf.fusable
        /\ events.pops = OwnPop(b.parts[2]) /\ leaf.pops = OwnPop(b.parts[1])
    BY DEF Ask, side
  <1> HIDE DEF events, leaf
  <1>3. Asked(p, Leaf(bare, ctx, events)) /\ Asked(p, Leaf(q, ctx, leaf))
    BY <1>2, LeafAsked DEF Dedups
  <1> DEFINE one == Leaf(bare, ctx, events)
             two == Leaf(q, ctx, leaf)
             first == Ids(ctx.pops) \cup Ids(OwnPop(b.parts[2]))
             second == Ids(ctx.pops) \cup Ids(OwnPop(b.parts[1]))
  <1>4. AskPops(one) = first /\ AskPops(two) = second
    BY <1>2, LeafPops
  <1> HIDE DEF one, two, first, second
  <1>5. AllAsked(p, <<one, two>>)
    BY <1>3, TwoFacts DEF AllAsked, one, two
  <1>6. Narrowed(<<one, two>>, <<first, second>>)
    <2> DEFINE plan == <<one, two>>
    <2>1. DOMAIN plan = {1, 2} /\ plan[1] = one /\ plan[2] = two
      BY TwoFacts
    <2> HIDE DEF plan
    <2>2. Narrowed(plan, <<first, second>>)
      BY <1>4, <2>1, PairNarrowed
    <2> QED
      BY <2>2 DEF plan
  <1>7. CASE ctx.shifts # <<>>
    BY <1>1, <1>7, OneAsked, RefusedAsked, RefusedNarrowed
  <1>8. CASE ctx.shifts = <<>>
    BY <1>1, <1>5, <1>6, <1>8 DEF one, two, first, second
  <1> QED
    BY <1>7, <1>8

LEMMA CompositeAsks ==
    ASSUME NEW p, Accepted(p), NEW q, NEW ctx, NEW b,
           IsBinding(p, b.parts[1].metric, b.parts[1]), IsBinding(p, b.parts[2].metric, b.parts[2])
    PROVE  /\ AllAsked(p, PlanComposite(p, q, ctx, b))
           /\ Narrowed(PlanComposite(p, q, ctx, b),
                       <<Ids(ctx.pops) \cup Ids(OwnPop(b)) \cup Ids(OwnPop(b.parts[1])),
                         Ids(ctx.pops) \cup Ids(OwnPop(b)) \cup Ids(OwnPop(b.parts[2]))>>)
  <1> DEFINE spec(c) == [Ask(c, c.metric, "single", q) EXCEPT !.rule = c.metric, !.pops = @ \cup OwnPop(b)]
             part(c) == CASE c.ref.kind = "distinct_count" -> PlanRecompute(p, q, ctx, c, c.metric, OwnPop(b))
                          [] c.ref.kind = "single" -> <<Leaf(q, ctx, spec(c))>>
                          [] OTHER -> <<Refuse("component_kind")>>
             sets(c) == Ids(ctx.pops) \cup Ids(OwnPop(b)) \cup Ids(OwnPop(c))
  <1>1. PlanComposite(p, q, ctx, b) = part(b.parts[1]) \o part(b.parts[2])
    BY Zenon DEF PlanComposite
  <1>2. ASSUME NEW c, IsBinding(p, c.metric, c) PROVE AllAsked(p, part(c)) /\ Narrowed(part(c), <<sets(c)>>) /\ DOMAIN part(c) = {1}
    <2>1. CASE c.ref.kind = "distinct_count"
      <3>1. part(c) = PlanRecompute(p, q, ctx, c, c.metric, OwnPop(b))
        BY <2>1
      <3>2. sets(c) = Ids(ctx.pops) \cup Ids(OwnPop(c) \cup OwnPop(b))
        BY IdsOfBoth
      <3>3. \E ask : PlanRecompute(p, q, ctx, c, c.metric, OwnPop(b)) = <<ask>>
        BY DEF PlanRecompute
      <3> HIDE DEF part, sets
      <3> QED
        BY <2>1, <3>1, <3>2, <3>3, RecomputeAsks, OneFacts DEF Recompute
    <2>2. CASE c.ref.kind = "single"
      <3>1. part(c) = <<Leaf(q, ctx, spec(c))>>
        BY <2>2
      <3>2. /\ spec(c).owner = c.ref.source /\ spec(c).measure = Get(c.ref, "measure", NoMetric)
            /\ spec(c).column = c.metric /\ spec(c).fans = "dedup" /\ spec(c).pops = OwnPop(c) \cup OwnPop(b)
        BY DEF Ask
      <3> HIDE DEF spec, part
      <3>3. Asked(p, Leaf(q, ctx, spec(c)))
        BY <1>2, <2>2, <3>2, MeasureAsked, LeafAsked
      <3>4. AskPops(Leaf(q, ctx, spec(c))) = sets(c)
        BY <3>2, LeafPops, IdsOfBoth
      <3> DEFINE ask == Leaf(q, ctx, spec(c))
      <3> HIDE DEF sets, ask
      <3>5. AllAsked(p, <<ask>>) /\ Narrowed(<<ask>>, <<sets(c)>>) /\ DOMAIN <<ask>> = {1}
        BY <3>3, <3>4, OneAsked, OneNarrowed, OneFacts DEF ask
      <3> QED
        BY <3>1, <3>5 DEF ask
    <2>3. CASE c.ref.kind \notin {"distinct_count", "single"}
      <3>1. part(c) = <<Refuse("component_kind")>>
        BY <2>3
      <3> DEFINE ask == Refuse("component_kind")
      <3> HIDE DEF part, sets
      <3>2. AllAsked(p, <<ask>>) /\ Narrowed(<<ask>>, <<sets(c)>>) /\ DOMAIN <<ask>> = {1}
        <4>1. Asked(p, ask) /\ Narrowed(<<ask>>, <<sets(c)>>)
          BY RefusedAsked, RefusedNarrowed
        <4> HIDE DEF ask
        <4> QED
          BY <4>1, OneAsked, OneFacts
      <3> QED
        BY <3>1, <3>2
    <2> QED
      BY <2>1, <2>2, <2>3
  <1> DEFINE one == part(b.parts[1])
             two == part(b.parts[2])
             first == sets(b.parts[1])
             second == sets(b.parts[2])
  <1> HIDE DEF part, sets
  <1>3. /\ AllAsked(p, one) /\ Narrowed(one, <<first>>) /\ DOMAIN one = {1}
        /\ AllAsked(p, two) /\ Narrowed(two, <<second>>) /\ DOMAIN two = {1}
    BY <1>2
  <1>4. PlanComposite(p, q, ctx, b) = one \o two
    BY <1>1
  <1> HIDE DEF one, two, first, second
  <1>5. IsSeq(one) /\ IsSeq(two) /\ Len(one) = 1 /\ Len(two) = 1
    <2>1. IsSeq(one) /\ IsSeq(two)
      BY <1>3 DEF AllAsked
    <2>2. /\ Len(one) \in Nat /\ DOMAIN one = 1..Len(one)
          /\ Len(two) \in Nat /\ DOMAIN two = 1..Len(two)
      BY <2>1, SeqFacts
    <2> QED
      BY <1>3, <2>1, <2>2
  <1> DEFINE both == one \o two
  <1>6. /\ IsSeq(both) /\ DOMAIN both = 1..2 /\ both[1] = one[1] /\ both[2] = two[1]
        /\ Range(both) = Range(one) \cup Range(two)
    <2>1. /\ IsSeq(both) /\ DOMAIN both = 1..(Len(one) + Len(two))
          /\ \A i \in 1..Len(one) : both[i] = one[i]
          /\ \A i \in 1..Len(two) : both[Len(one) + i] = two[i]
          /\ Range(both) = Range(one) \cup Range(two)
      BY <1>5, ConcatFacts, SMTT(60)
    <2> HIDE DEF both
    <2> QED
      BY <1>5, <2>1
  <1> HIDE DEF both
  <1>7. AllAsked(p, both)
    BY <1>3, <1>6 DEF AllAsked
  <1>8. Narrowed(both, <<first, second>>)
    <2>1. ASSUME \A ask \in Range(both) : ask.why = "" PROVE AskPops(one[1]) = first /\ AskPops(two[1]) = second
      <3>1. \A ask \in Range(one) \cup Range(two) : ask.why = ""
        BY <1>6, <2>1
      <3> QED
        BY <1>3, <3>1, OneFacts DEF Narrowed
    <2>2. DOMAIN both = {1, 2}
      BY <1>6
    <2> QED
      BY <1>6, <2>1, <2>2, PairNarrowed
  <1> QED
    BY <1>4, <1>7, <1>8 DEF both, first, second, sets
\* A metric and the populations around it
Pop(r) == [state |-> r.state, b |-> r.b, pops |-> Ids(r.ctx.pops)]

LEMMA PopulationsByKind ==
    ASSUME NEW r, NEW ctx, r.pops = Ids(ctx.pops)
    PROVE  /\ r.b.ref.kind \in Composite => PopulationsOf(r) =
                <<Ids(ctx.pops) \cup Ids(OwnPop(r.b)) \cup Ids(OwnPop(r.b.parts[1])),
                  Ids(ctx.pops) \cup Ids(OwnPop(r.b)) \cup Ids(OwnPop(r.b.parts[2]))>>
           /\ r.b.ref.kind = "conversion" => PopulationsOf(r) =
                <<Ids(ctx.pops) \cup Ids(OwnPop(r.b.parts[2])), Ids(ctx.pops) \cup Ids(OwnPop(r.b.parts[1]))>>
           /\ r.b.ref.kind \notin Composite \cup {"conversion"} => PopulationsOf(r) = Own(ctx, r.b)
           /\ IsSeq(PopulationsOf(r))
  <1> DEFINE own == Ids(ctx.pops) \cup Ids(OwnPop(r.b))
             part(k) == Ids(OwnPop(r.b.parts[k]))
  <1>1. PopulationsOf(r) = CASE r.b.ref.kind \in Composite -> <<own \cup part(1), own \cup part(2)>>
                             [] r.b.ref.kind = "conversion" -> <<Ids(ctx.pops) \cup part(2), Ids(ctx.pops) \cup part(1)>>
                             [] OTHER -> <<own>>
    BY DEF PopulationsOf
  <1>2. "conversion" \notin Composite
    BY DEF Composite
  <1>3. r.b.ref.kind \in Composite => PopulationsOf(r) = <<own \cup part(1), own \cup part(2)>>
    BY <1>1, <1>2
  <1>4. r.b.ref.kind = "conversion" => PopulationsOf(r) = <<Ids(ctx.pops) \cup part(2), Ids(ctx.pops) \cup part(1)>>
    BY <1>1, <1>2
  <1>5. r.b.ref.kind \notin Composite \cup {"conversion"} => PopulationsOf(r) = <<own>>
    BY <1>1
  <1>6. IsSeq(PopulationsOf(r))
    <2> HIDE DEF own, part
    <2> QED
      BY <1>3, <1>4, <1>5, OneFacts, TwoFacts
  <1> QED
    BY <1>3, <1>4, <1>5, <1>6 DEF Own

LEMMA ReadingAsks ==
    ASSUME NEW p, InShape(p), Accepted(p), NEW q, NEW ctx, NEW name, NEW b, IsBinding(p, name, b),
           b.ref.kind \notin {"offset", "derived"},
           NEW L, NEW N \in Nat, Levels(p, L, N), NEW l \in 1..N, b \in L[l],
           NEW r, r.b = b, r.pops = Ids(ctx.pops)
    PROVE  AllAsked(p, PlanReading(p, q, ctx, b, name)) /\ Narrowed(PlanReading(p, q, ctx, b, name), PopulationsOf(r))
  <1> DEFINE kind == b.ref.kind
             plan == PlanReading(p, q, ctx, b, name)
  <1>1. PICK i \in Active(p) : b.ref = p.bindings[i].ref
    BY DEF IsBinding
  <1>2. /\ kind \in SourceBound \cup Composite \cup {"conversion"}
        /\ kind \in Composite => DOMAIN Deps(b.ref) = 1..2
    BY <1>1, DepsInShape
  <1>3. CASE kind = "conversion"
    <2>1. plan = PlanConversion(q, ctx, b, name)
      BY <1>3 DEF PlanReading, Composite, Recompute
    <2> QED
      BY <1>3, <2>1, ConversionAsks, PopulationsByKind DEF Composite, Recompute
  <1>4. CASE kind \in Composite
    <2>1. plan = PlanComposite(p, q, ctx, b)
      BY <1>4 DEF PlanReading, Composite, Recompute
    <2>2. DOMAIN b.parts = 1..2 /\ \A k \in DOMAIN b.parts : b.parts[k] \in L[l - 1]
      BY <1>2, <1>4 DEF Levels
    <2>3. 1 \in DOMAIN b.parts /\ 2 \in DOMAIN b.parts
      BY <2>2
    <2>4. b.parts[1] \in L[l - 1] /\ b.parts[2] \in L[l - 1]
      BY <2>2, <2>3
    <2>5. l - 1 \in 1..N
      <3>1. l - 1 # 0
        BY <2>4 DEF Levels
      <3> QED
        BY <3>1
    <2>6. IsBinding(p, b.parts[1].metric, b.parts[1]) /\ IsBinding(p, b.parts[2].metric, b.parts[2])
      BY <2>4, <2>5 DEF Levels
    <2> QED
      BY <1>4, <2>1, <2>6, CompositeAsks, PopulationsByKind DEF Composite, Recompute
  <1>5. CASE kind = "semi_additive"
    <2>1. plan = PlanSemiAdditive(q, ctx, b, name)
      BY <1>5 DEF PlanReading, Composite, Recompute
    <2> QED
      BY <1>5, <2>1, SemiAdditiveAsks, PopulationsByKind DEF Composite, Recompute
  <1>6. CASE kind \in Recompute
    <2>1. plan = PlanRecompute(p, q, ctx, b, name, {})
      BY <1>6 DEF PlanReading, Composite, Recompute
    <2>2. OwnPop(b) \cup {} = OwnPop(b)
      OBVIOUS
    <2>3. PopulationsOf(r) = <<Ids(ctx.pops) \cup Ids(OwnPop(b) \cup {})>>
      BY <1>6, <2>2, PopulationsByKind DEF Composite, Recompute, Own
    <2> DEFINE S == Ids(ctx.pops) \cup Ids(OwnPop(b) \cup {})
    <2>4. /\ AllAsked(p, PlanRecompute(p, q, ctx, b, name, {}))
          /\ \A T : T = S => Narrowed(PlanRecompute(p, q, ctx, b, name, {}), <<T>>)
      BY <1>6, RecomputeAsks
    <2> HIDE DEF S
    <2>5. Narrowed(PlanRecompute(p, q, ctx, b, name, {}), <<S>>)
      BY <2>4
    <2> QED
      BY <2>1, <2>3, <2>4, <2>5 DEF S
  <1>7. CASE kind = "cumulative"
    <2>1. plan = PlanRolling(p, q, ctx, b, name) \/ plan = PlanCumulative(p, q, ctx, b, name)
      BY <1>7 DEF PlanReading, Composite, Recompute
    <2> QED
      BY <1>7, <2>1, RollingAsks, CumulativeAsks, PopulationsByKind DEF Composite
  <1>8. CASE kind = "opaque"
    <2>1. plan = PlanOpaque(q, ctx, b, name)
      BY <1>8 DEF PlanReading, Composite, Recompute
    <2> QED
      BY <1>8, <2>1, OpaqueAsks, PopulationsByKind DEF Composite, Recompute
  <1>9. CASE kind = "single"
    <2>1. plan = PlanSingle(q, ctx, b, name)
      BY <1>9 DEF PlanReading, Composite, Recompute
    <2> QED
      BY <1>9, <2>1, SingleAsks, PopulationsByKind DEF Composite, Recompute
  <1>10. kind \in {"conversion", "semi_additive", "cumulative", "opaque", "single"} \cup Composite \cup Recompute
    BY <1>2 DEF SourceBound, Recompute
  <1> QED
    BY <1>3, <1>4, <1>5, <1>6, <1>7, <1>8, <1>9, <1>10

\* Everything that is asked for a resolved metric is asked in order.
LEMMA MetricAsks ==
    ASSUME NEW p, InShape(p), Accepted(p), NEW q, NEW ctx, NEW name, NEW b, b = ResolveMetric(p, name),
           b.is = "binding"
    PROVE  AllAsked(p, PlanMetric(p, q, ctx, b, name))
  <1> DEFINE N == Len(p.bindings)
             rs == Readings(p, q, ctx, b, name)
             plan(r) == PlanReading(p, q, r.ctx, r.b, r.name)
             ss == [i \in DOMAIN rs |-> plan(rs[i])]
  <1>1. N \in Nat
    BY Zenon DEF InShape
  <1>2. IsBinding(p, name, b) /\ \E L : Levels(p, L, N) /\ b \in L[N]
    BY ResolveFacts
  <1>3. PICK L : Levels(p, L, N) /\ b \in L[N]
    BY <1>2
  <1>4. /\ IsSeq(rs)
        /\ \A r \in Range(rs) : /\ IsBinding(p, r.name, r.b) /\ r.b.ref.kind \notin {"offset", "derived"}
                                /\ \E l \in 1..N : r.b \in L[l]
    BY <1>2, <1>3, ReadingsFacts
  <1>5. PlanMetric(p, q, ctx, b, name) = FlattenSeq(ss)
    BY Zenon DEF PlanMetric
  <1> HIDE DEF rs, N
  <1>6. ASSUME NEW r \in Range(rs) PROVE AllAsked(p, plan(r))
    <2>1. PICK l \in 1..N : r.b \in L[l]
      BY <1>4
    <2>2. Pop(r).b = r.b /\ Pop(r).pops = Ids(r.ctx.pops)
      BY DEF Pop
    <2> QED
      BY <1>1, <1>3, <1>4, <2>1, <2>2, ReadingAsks
  <1> HIDE DEF plan
  <1>7. Len(rs) \in Nat /\ DOMAIN rs = 1..Len(rs)
    BY <1>4, SeqFacts
  <1>8. /\ ss = [i \in 1..Len(rs) |-> ss[i]] /\ DOMAIN ss = DOMAIN rs
        /\ \A i \in DOMAIN rs : AllAsked(p, ss[i])
    BY <1>6, <1>7 DEF Range
  <1> HIDE DEF ss
  <1>9. IsSeqs(ss)
    BY <1>7, <1>8, SeqOver DEF IsSeqs, AllAsked
  <1>10. IsSeq(FlattenSeq(ss)) /\ Range(FlattenSeq(ss)) = UNION {Range(ss[i]) : i \in DOMAIN ss}
    BY <1>9, FlattenFacts
  <1>11. ASSUME NEW ask \in Range(FlattenSeq(ss)) PROVE Asked(p, ask)
    <2>1. PICK i \in DOMAIN ss : ask \in Range(ss[i])
      BY <1>10
    <2> QED
      BY <1>8, <2>1 DEF AllAsked
  <1> QED
    BY <1>5, <1>10, <1>11 DEF AllAsked

-----------------------------------------------------------------------------
(* What a leaf aggregates                                                   *)

\* A planned leaf names the measure it reads, and counts no row twice.
AdditiveOn(p, leaf, s) ==
    leaf.measure \in DOMAIN p.g[s].measures /\ p.g[s].measures[leaf.measure] \in Additive
Fans(leaf) == \E k \in DOMAIN leaf.joins : leaf.joins[k].fan
CountsOnce(p, leaf) ==
    /\ Fans(leaf) /\ leaf.branches = {}
         => leaf.strategy \in {"distinct_count", "opaque"} \/ AdditiveOn(p, leaf, leaf.owner)
    /\ \A b \in leaf.branches : b.fan => AdditiveOn(p, leaf, b.owner)

\* A finality rule has a realization to build the leaf from.
LEMMA RealizedSomehow ==
    ASSUME NEW p, Accepted(p), NEW owner, NEW measure, NEW names, NEW preds, NEW final,
           final \subseteq p.finality, Realized(p, owner, measure, names, preds, final) = {}
    PROVE  final = {}
  <1> SUFFICES ASSUME NEW f \in final PROVE FALSE
    OBVIOUS
  <1>1. FinalityOK(p, f)
    BY Zenon DEF Accepted
  <1> DEFINE ends == {k \in DOMAIN f.realizations : f.realizations[k].role = "final"}
  <1>2. Cardinality(ends) = 1
    BY <1>1 DEF FinalityOK
  <1>3. ends # {}
    <2> HIDE DEF ends
    <2> QED
      BY <1>2, FS_EmptySet
  <1>4. PICK k \in DOMAIN f.realizations : TRUE
    BY <1>3
  <1>5. f.realizations[k] \in Range(f.realizations)
    BY DEF Range
  <1> DEFINE Branches(x) == {Realize(p, owner, measure, names, preds, r) : r \in Range(x.realizations)}
  <1>6. Realize(p, owner, measure, names, preds, f.realizations[k]) \in Branches(f)
    BY <1>5, Zenon
  <1>7. Realized(p, owner, measure, names, preds, final) = UNION {Branches(x) : x \in final}
    BY Zenon DEF Realized
  <1> HIDE DEF Branches
  <1> QED
    BY <1>6, <1>7

\* A leaf is named as it was asked for, reads the measure that was asked for, is built from
\* its finality rules, and counts no row twice.
Answers(p, spec, leaf) ==
    /\ leaf.column = spec.column /\ leaf.measure = spec.measure /\ leaf.fusable = spec.fusable
    /\ BranchesFrom(p, leaf)
    /\ CountsOnce(p, leaf)

LEMMA EmittedRows ==
    ASSUME NEW p, Accepted(p), NEW ask, NEW dims, NEW joins, NEW preds, Dedups(p, ask.spec),
           BuildLeaf(p, ask, dims, joins, preds, FinalityOf(p, ask.spec, dims)).why = ""
    PROVE  Answers(p, ask.spec, BuildLeaf(p, ask, dims, joins, preds, FinalityOf(p, ask.spec, dims)).leaf)
  <1> DEFINE final == FinalityOf(p, ask.spec, dims)
             leaf == BuildLeaf(p, ask, dims, joins, preds, final).leaf
             fan == \E k \in DOMAIN joins : joins[k].fan
  <1>1. BranchesFrom(p, leaf) /\ Emitted(p, ask.spec, dims, joins, preds, final, leaf.branches, leaf)
    BY BuiltLeaf
  <1> HIDE DEF final, leaf
  <1>2. /\ leaf.column = ask.spec.column /\ leaf.measure = ask.spec.measure
        /\ leaf.fusable = ask.spec.fusable /\ leaf.strategy = ask.spec.strategy
        /\ leaf.joins = joins /\ leaf.owner = ask.spec.owner /\ leaf.rules = final
        /\ final = {} => ~FanRefused(p, ask.spec, fan)
    BY <1>1 DEF Emitted, MadeFrom
  <1>3. leaf.branches = {} => final = {}
    BY <1>1, <1>2, RealizedSomehow DEF BranchesFrom
  <1>4. ASSUME Fans(leaf), leaf.branches = {}
        PROVE  leaf.strategy \in {"distinct_count", "opaque"} \/ AdditiveOn(p, leaf, leaf.owner)
    <2>1. fan /\ final = {}
      BY <1>2, <1>3, <1>4 DEF Fans
    <2> HIDE DEF fan
    <2>2. /\ ask.spec.fans # "refuse"
          /\ ask.spec.fans = "dedup" => p.g[ask.spec.owner].measures[ask.spec.measure] \in Additive
      BY <1>2, <2>1 DEF FanRefused
    <2> QED
      BY <1>2, <2>2 DEF Dedups, AdditiveOn
  <1>5. ASSUME NEW b \in leaf.branches, b.fan PROVE AdditiveOn(p, leaf, b.owner)
    <2>1. PICK r : IsBranch(p, leaf.owner, leaf.measure, leaf.preds, r, b)
      BY <1>1, BranchOf, Zenon
    <2> QED
      BY <1>5, <2>1, Zenon DEF IsBranch, AdditiveOn
  <1>6. CountsOnce(p, leaf)
    BY <1>4, <1>5 DEF CountsOnce
  <1> QED
    BY <1>1, <1>2, <1>6 DEF Answers, leaf, final
-----------------------------------------------------------------------------
(* A function applied to everything in a sequence                           *)

Mapped(h, s) == [j \in DOMAIN s |-> h[s[j]]]

LEMMA MappedFacts ==
    ASSUME NEW h, NEW s, IsSeq(s)
    PROVE  IsSeq(Mapped(h, s)) /\ Len(Mapped(h, s)) = Len(s) /\ DOMAIN Mapped(h, s) = 1..Len(s)
  <1>1. Len(s) \in Nat /\ DOMAIN s = 1..Len(s)
    BY SeqFacts
  <1> DEFINE t == Mapped(h, s)
  <1>2. t = [j \in 1..Len(s) |-> t[j]] /\ DOMAIN t = 1..Len(s)
    BY <1>1 DEF Mapped
  <1> HIDE DEF t
  <1>3. IsSeq(t) /\ Len(t) = Len(s)
    BY <1>1, <1>2, SeqOver
  <1> QED
    BY <1>2, <1>3 DEF t

LEMMA SameSeq ==
    ASSUME NEW s, NEW t, IsSeq(s), IsSeq(t), Len(s) = Len(t), \A j \in 1..Len(s) : s[j] = t[j]
    PROVE  s = t
  <1>1. PICK S, T : s \in Seq(S) /\ t \in Seq(T)
    BY DEF IsSeq
  <1> QED
    BY <1>1

LEMMA SameLength ==
    ASSUME NEW s, NEW t, IsSeq(s), IsSeq(t), DOMAIN s = DOMAIN t
    PROVE  Len(s) = Len(t)
  <1> DEFINE m == Len(s)
             n == Len(t)
  <1>1. m \in Nat /\ n \in Nat /\ DOMAIN s = 1..m /\ DOMAIN t = 1..n
    BY SeqFacts
  <1> HIDE DEF m, n
  <1>2. 1..m = 1..n
    BY <1>1
  <1>3. \A i \in Nat : 1 <= i => (i <= m <=> i <= n)
    BY <1>1, <1>2
  <1>4. m = n
    BY <1>1, <1>3
  <1> QED
    BY <1>4 DEF m, n

LEMMA MappedConcat ==
    ASSUME NEW h, NEW s, NEW t, IsSeq(s), IsSeq(t)
    PROVE  Mapped(h, s \o t) = Mapped(h, s) \o Mapped(h, t)
  <1> DEFINE c == s \o t
             left == Mapped(h, s)
             right == Mapped(h, t)
             d == left \o right
             whole == Mapped(h, c)
  <1>1. Len(s) \in Nat /\ Len(t) \in Nat /\ DOMAIN s = 1..Len(s) /\ DOMAIN t = 1..Len(t)
    BY SeqFacts
  <1>2. /\ IsSeq(c) /\ Len(c) = Len(s) + Len(t) /\ DOMAIN c = 1..(Len(s) + Len(t))
        /\ \A i \in 1..Len(s) : c[i] = s[i]
        /\ \A i \in 1..Len(t) : c[Len(s) + i] = t[i]
    BY ConcatFacts
  <1>3. IsSeq(left) /\ Len(left) = Len(s) /\ IsSeq(right) /\ Len(right) = Len(t)
    BY MappedFacts
  <1>4. /\ \A i \in 1..Len(s) : left[i] = h[s[i]]
        /\ \A i \in 1..Len(t) : right[i] = h[t[i]]
    BY <1>1 DEF Mapped
  <1> HIDE DEF left, right, c
  <1>5. /\ IsSeq(d) /\ Len(d) = Len(s) + Len(t)
        /\ \A i \in 1..Len(s) : d[i] = left[i]
        /\ \A i \in 1..Len(t) : d[Len(s) + i] = right[i]
    <2>1. /\ IsSeq(d) /\ Len(d) = Len(left) + Len(right)
          /\ \A i \in 1..Len(left) : d[i] = left[i]
          /\ \A i \in 1..Len(right) : d[Len(left) + i] = right[i]
      BY <1>3, ConcatFacts
    <2> HIDE DEF d
    <2> QED
      BY <1>3, <2>1
  <1>6. IsSeq(whole) /\ Len(whole) = Len(s) + Len(t)
    BY <1>2, MappedFacts
  <1>7. \A j \in 1..(Len(s) + Len(t)) : whole[j] = h[c[j]]
    BY <1>2 DEF Mapped
  <1> HIDE DEF d, whole
  <1>8. ASSUME NEW j \in 1..(Len(s) + Len(t)) PROVE whole[j] = d[j]
    <2>1. CASE j <= Len(s)
      <3>1. j \in 1..Len(s)
        BY <1>1, <2>1
      <3> QED
        BY <1>2, <1>4, <1>5, <1>7, <3>1
    <2>2. CASE j > Len(s)
      <3> DEFINE i == j - Len(s)
      <3>1. i \in 1..Len(t) /\ j = Len(s) + i
        BY <1>1, <2>2
      <3> HIDE DEF i
      <3>2. c[j] = t[i] /\ d[j] = right[i] /\ right[i] = h[t[i]]
        BY <1>2, <1>4, <1>5, <3>1
      <3> QED
        BY <1>7, <3>2
    <2> QED
      BY <1>1, <2>1, <2>2
  <1>9. whole = d
    BY <1>5, <1>6, <1>8, SameSeq
  <1> QED
    BY <1>9 DEF whole, d, c, left, right

\* Flattening and applying a function may be done in either order.
LEMMA FlattenMapped ==
    ASSUME NEW h, NEW ss, IsSeqs(ss), NEW tt, IsSeq(tt), Len(tt) = Len(ss),
           \A i \in 1..Len(ss) : tt[i] = Mapped(h, ss[i])
    PROVE  FlattenSeq(tt) = Mapped(h, FlattenSeq(ss))
  <1>1. Len(ss) \in Nat /\ DOMAIN ss = 1..Len(ss) /\ DOMAIN tt = 1..Len(ss) /\ IsSeq(ss)
    BY SeqFacts DEF IsSeqs
  <1>2. IsSeqs(tt)
    BY <1>1, MappedFacts DEF IsSeqs
  <1>3. CASE Len(ss) = 0
    <2>1. FlattenSeq(ss) = ss /\ FlattenSeq(tt) = tt
      BY <1>3, Zenon DEF FlattenSeq
    <2>2. IsSeq(Mapped(h, ss)) /\ Len(Mapped(h, ss)) = 0
      BY <1>1, <1>3, MappedFacts
    <2> DEFINE m == Mapped(h, ss)
    <2>3. IsSeq(m) /\ Len(m) = 0
      BY <2>2
    <2> HIDE DEF m
    <2>4. tt = m
      BY <1>1, <1>3, <2>3, SameSeq
    <2> QED
      BY <2>1, <2>4 DEF m
  <1>4. CASE Len(ss) # 0
    <2> DEFINE m == Len(ss) - 1
    <2>1. m \in Nat
      BY <1>1, <1>4
    <2>2. PICK f : Flattening(f, ss, m) /\ FlattenSeq(ss) = f[m]
      BY <1>4, FlattenIs
    <2>3. PICK g : Flattening(g, tt, m) /\ FlattenSeq(tt) = g[m]
      BY <1>2, <1>4, FlattenIs
    <2> DEFINE S == {n \in Nat : n <= m => IsSeq(f[n]) /\ g[n] = Mapped(h, f[n])}
    <2>4. 0 \in S
      <3>1. f[0] = ss[1] /\ g[0] = tt[1] /\ 1 \in 1..Len(ss) /\ 1 \in DOMAIN ss
        BY <1>1, <1>4, <2>1, <2>2, <2>3 DEF Flattening
      <3>2. IsSeq(f[0]) /\ g[0] = Mapped(h, f[0])
        BY <3>1 DEF IsSeqs
      <3> QED
        BY <3>2
    <2>5. ASSUME NEW n \in S, n < m PROVE n + 1 \in S
      <3>1. n \in Nat /\ n + 1 \in 0..m /\ (n + 1) - 1 = n /\ n + 1 # 0 /\ (n + 1) + 1 \in 1..Len(ss)
        BY <1>1, <2>1, <2>5
      <3> DEFINE next == ss[(n + 1) + 1]
                 before == f[n]
      <3>2. IsSeq(before) /\ g[n] = Mapped(h, before)
        BY <2>1, <2>5, <3>1
      <3>3. f[n + 1] = before \o next
        BY <2>2, <3>1 DEF Flattening
      <3>4. g[n + 1] = g[n] \o tt[(n + 1) + 1]
        BY <2>3, <3>1 DEF Flattening
      <3>5. IsSeq(next) /\ tt[(n + 1) + 1] = Mapped(h, next)
        BY <1>1, <3>1 DEF IsSeqs
      <3> HIDE DEF next, before
      <3>6. IsSeq(before \o next) /\ Mapped(h, before \o next) = Mapped(h, before) \o Mapped(h, next)
        BY <3>2, <3>5, ConcatFacts, MappedConcat
      <3>7. IsSeq(f[n + 1]) /\ g[n + 1] = Mapped(h, f[n + 1])
        BY <3>2, <3>3, <3>4, <3>5, <3>6, Zenon
      <3>8. n + 1 \in Nat
        BY <3>1
      <3> QED
        BY <3>7, <3>8, Zenon
    <2>6. m \in S
      <3> HIDE DEF S
      <3>1. S \in SUBSET Nat
        BY DEF S
      <3> QED
        BY <2>1, <2>4, <2>5, <3>1, UpTo
    <2>7. m <= m
      BY <2>1
    <2> QED
      BY <2>2, <2>3, <2>6, <2>7
  <1> QED
    BY <1>3, <1>4

\* The same over the sequences that an element of another sequence stands for.
LEMMA FlattenBoth ==
    ASSUME NEW h, NEW ss, IsSeqs(ss), NEW tt, IsSeqs(tt), DOMAIN tt = DOMAIN ss,
           \A i \in DOMAIN ss : tt[i] = Mapped(h, ss[i])
    PROVE  FlattenSeq(tt) = Mapped(h, FlattenSeq(ss))
  <1>1. IsSeq(ss) /\ IsSeq(tt)
    BY DEF IsSeqs
  <1>2. DOMAIN ss = 1..Len(ss) /\ Len(ss) = Len(tt)
    BY <1>1, SeqFacts, SameLength
  <1> QED
    BY <1>1, <1>2, FlattenMapped
-----------------------------------------------------------------------------
(* Populations                                                              *)

\* The context a metric is planned in
IsCtx(ctx) == ctx \in [shifts : {ctx.shifts}, pops : {ctx.pops}]

LEMMA EncloseFacts ==
    ASSUME NEW ctx, IsCtx(ctx), NEW b, NEW shifts
    PROVE  /\ IsCtx(Enclose(ctx, b, shifts))
           /\ Ids(Enclose(ctx, b, shifts).pops) = Ids(ctx.pops) \cup Ids(OwnPop(b))
  <1> DEFINE all == ctx.shifts \o shifts
             pops == ctx.pops \cup OwnPop(b)
             new == Enclose(ctx, b, shifts)
  <1>1. new = [shifts |-> all, pops |-> pops]
    <2> HIDE DEF all, pops
    <2>1. new = [ctx EXCEPT !.shifts = all, !.pops = pops]
      BY Zenon DEF Enclose, all, pops
    <2> HIDE DEF new
    <2> QED
      BY <2>1 DEF IsCtx
  <1> HIDE DEF new, all, pops
  <1>2. new.pops = pops /\ IsCtx(new)
    BY <1>1 DEF IsCtx
  <1> QED
    BY <1>2, IdsOfBoth DEF new, pops

\* Going inside a metric and looking at what is around it may be done in either order.
AroundAlike(p, q, r) ==
    /\ DOMAIN Inside(Pop(r)) = DOMAIN Unfold(p, q, r)
    /\ \A k \in DOMAIN Unfold(p, q, r) :
         Inside(Pop(r))[k] = Pop(Unfold(p, q, r)[k]) /\ IsCtx(Unfold(p, q, r)[k].ctx)
    /\ IsSeq(Inside(Pop(r)))

LEMMA UnfoldAround ==
    ASSUME NEW p, InShape(p), NEW q, NEW L, NEW N \in Nat, Levels(p, L, N),
           NEW n \in Nat, NEW r, Readable(p, L, N, n + 1, r), IsCtx(r.ctx)
    PROVE  AroundAlike(p, q, r)
  <1> DEFINE within(k, ctx) == Reading(ctx, r.b.parts[k], r.b.parts[k].metric)
             shift == [time |-> r.b.ref.time, delta |-> r.b.ref.delta,
                       pre |-> Prefilters(p, q, r.b, FirstSource(p, r.b))]
             closed == [r EXCEPT !.state = "closed"]
             kind == IF r.state = "open" THEN r.b.ref.kind ELSE "closed"
             around == Pop(r)
             own == around.pops \cup Ids(OwnPop(r.b))
             seen == [around EXCEPT !.state = "closed"]
             inside(k) == Around(r.b.parts[k], own)
  <1>1. PICK l \in 1..N : r.b \in L[l]
    BY DEF Readable
  <1>2. IsBinding(p, r.b.metric, r.b) /\ IsSeq(r.b.parts) /\ DOMAIN r.b.parts = DOMAIN Deps(r.b.ref)
    BY <1>1 DEF Levels
  <1>3. around.b = r.b /\ around.state = r.state /\ around.pops = Ids(r.ctx.pops)
    BY DEF Pop
  <1>4. \A k, ctx : Ids(ctx.pops) = own => inside(k) = Pop(within(k, ctx))
    BY DEF Pop, Reading, Around
  <1>5. seen = Pop(closed) /\ closed.ctx = r.ctx
    <2>1. IsReading(r)
      BY DEF Readable
    <2>2. closed = [state |-> "closed", ctx |-> r.ctx, b |-> r.b, name |-> r.name]
      BY <2>1 DEF IsReading
    <2>3. seen = [state |-> "closed", b |-> r.b, pops |-> Ids(r.ctx.pops)]
      BY DEF Pop
    <2> HIDE DEF closed, seen
    <2> QED
      BY <2>2, <2>3 DEF Pop
  <1>6. \A k, ctx : within(k, ctx).ctx = ctx
    BY DEF Reading
  <1>7. Len(r.b.parts) \in Nat /\ DOMAIN r.b.parts = 1..Len(r.b.parts)
    BY <1>2, SeqFacts
  <1>8. CASE kind = "offset"
    <2> DEFINE ctx == Enclose(r.ctx, r.b, <<shift>>)
               s == within(1, ctx)
               t == [k \in DOMAIN r.b.parts |-> inside(k)]
    <2>1. Unfold(p, q, r) = <<s>>
      BY <1>8, Zenon DEF Unfold
    <2>2. Inside(around) = t
      BY <1>3, <1>8 DEF Inside
    <2>3. DOMAIN r.b.parts = {1}
      <3>1. PICK i \in Active(p) : r.b.ref = p.bindings[i].ref
        BY <1>2 DEF IsBinding
      <3>2. r.b.ref.kind = "offset"
        BY <1>8
      <3>3. Len(Deps(r.b.ref)) = 1 /\ DOMAIN Deps(r.b.ref) = 1..Len(Deps(r.b.ref))
        BY <3>1, <3>2, DepsInShape
      <3> QED
        BY <1>2, <3>3
    <2>4. IsCtx(ctx) /\ Ids(ctx.pops) = own
      BY <1>3, EncloseFacts
    <2>5. inside(1) = Pop(s) /\ s.ctx = ctx
      BY <1>4, <1>6, <2>4
    <2> HIDE DEF s, inside
    <2>6. t = [k \in 1..1 |-> t[k]] /\ DOMAIN t = {1} /\ t[1] = inside(1)
      BY <2>3
    <2> HIDE DEF t, around, ctx
    <2>7. IsSeq(t)
      BY <2>6, SeqOver
    <2>8. DOMAIN <<s>> = {1} /\ <<s>>[1] = s
      BY OneFacts
    <2>9. \A k \in {1} : t[k] = Pop(<<s>>[k]) /\ IsCtx(<<s>>[k].ctx)
      BY <2>4, <2>5, <2>6, <2>8
    <2> QED
      BY <2>1, <2>2, <2>6, <2>7, <2>8, <2>9, Zenon DEF AroundAlike, around
  <1>9. CASE kind = "derived"
    <2> DEFINE ctx == Enclose(r.ctx, r.b, <<>>)
               s == [k \in DOMAIN r.b.parts |-> within(k, ctx)]
               t == [k \in DOMAIN r.b.parts |-> inside(k)]
    <2>1. Unfold(p, q, r) = s
      BY <1>9 DEF Unfold
    <2>2. Inside(around) = t
      BY <1>3, <1>9 DEF Inside
    <2>3. IsCtx(ctx) /\ Ids(ctx.pops) = own
      BY <1>3, EncloseFacts
    <2>4. \A k \in DOMAIN r.b.parts : inside(k) = Pop(within(k, ctx)) /\ within(k, ctx).ctx = ctx
      BY <1>4, <1>6, <2>3
    <2> HIDE DEF inside, within, ctx
    <2>5. /\ DOMAIN s = DOMAIN r.b.parts /\ DOMAIN t = DOMAIN r.b.parts
          /\ \A k \in DOMAIN r.b.parts : t[k] = Pop(s[k]) /\ IsCtx(s[k].ctx)
          /\ t = [k \in 1..Len(r.b.parts) |-> t[k]]
      BY <1>7, <2>3, <2>4
    <2> HIDE DEF s, t, around
    <2>6. IsSeq(t)
      BY <1>7, <2>5, SeqOver
    <2> QED
      BY <2>1, <2>2, <2>5, <2>6, Zenon DEF AroundAlike, around
  <1>10. CASE kind = "conversion"
    <2> DEFINE s == within(1, r.ctx)
               base == Around(r.b.parts[1], around.pops)
    <2>1. Unfold(p, q, r) = <<closed, s>>
      BY <1>10 DEF Unfold
    <2>2. Inside(around) = <<seen, base>>
      <3> HIDE DEF seen, base
      <3> QED
        BY <1>3, <1>10 DEF Inside, seen, base
    <2>3. base = Pop(s) /\ s.ctx = r.ctx
      BY <1>3 DEF Pop, Reading, Around
    <2> HIDE DEF s, base, closed, seen, around
    <2>4. /\ DOMAIN <<closed, s>> = {1, 2} /\ <<closed, s>>[1] = closed /\ <<closed, s>>[2] = s
          /\ DOMAIN <<seen, base>> = {1, 2} /\ <<seen, base>>[1] = seen /\ <<seen, base>>[2] = base
          /\ IsSeq(<<seen, base>>)
      BY TwoFacts
    <2> DEFINE two == <<closed, s>>
               too == <<seen, base>>
    <2>5. /\ DOMAIN two = {1, 2} /\ DOMAIN too = {1, 2} /\ IsSeq(too)
          /\ \A k \in {1, 2} : too[k] = Pop(two[k]) /\ IsCtx(two[k].ctx)
      BY <1>5, <2>3, <2>4
    <2> HIDE DEF two, too
    <2>6. Unfold(p, q, r) = two /\ Inside(Pop(r)) = too
      BY <2>1, <2>2 DEF two, too, around
    <2> QED
      BY <2>5, <2>6, Zenon DEF AroundAlike
  <1>11. CASE kind \notin {"offset", "derived", "conversion"}
    <2>1. Unfold(p, q, r) = <<closed>>
      BY <1>11 DEF Unfold
    <2>2. Inside(around) = <<seen>>
      <3> HIDE DEF seen
      <3> QED
        BY <1>3, <1>11 DEF Inside, seen
    <2> HIDE DEF closed, seen, around
    <2> DEFINE one == <<closed>>
               too == <<seen>>
    <2>3. /\ DOMAIN one = {1} /\ one[1] = closed /\ DOMAIN too = {1} /\ too[1] = seen /\ IsSeq(too)
      BY OneFacts
    <2> HIDE DEF one, too
    <2>4. \A k \in {1} : too[k] = Pop(one[k]) /\ IsCtx(one[k].ctx)
      BY <1>5, <2>3
    <2>5. Unfold(p, q, r) = one /\ Inside(Pop(r)) = too
      BY <2>1, <2>2 DEF one, too, around
    <2> QED
      BY <2>3, <2>4, <2>5, Zenon DEF AroundAlike
  <1> QED
    BY <1>8, <1>9, <1>10, <1>11
Pops(rs) == [j \in DOMAIN rs |-> Pop(rs[j])]

LEMMA UnfoldAllAround ==
    ASSUME NEW p, InShape(p), NEW q, NEW L, NEW N \in Nat, Levels(p, L, N),
           NEW n \in Nat, NEW rs, IsSeq(rs),
           \A r \in Range(rs) : Readable(p, L, N, n + 1, r) /\ IsCtx(r.ctx)
    PROVE  /\ AllInside(Pops(rs)) = Pops(UnfoldAll(p, q, rs))
           /\ \A s \in Range(UnfoldAll(p, q, rs)) : IsCtx(s.ctx)
  <1> DEFINE ss == [i \in DOMAIN rs |-> Unfold(p, q, rs[i])]
             tt == [i \in DOMAIN Pops(rs) |-> Inside(Pops(rs)[i])]
             all == UNION {Range(ss[i]) : i \in DOMAIN ss}
             h == [r \in all |-> Pop(r)]
  <1>1. ASSUME NEW i \in DOMAIN rs
        PROVE  IsSeq(Unfold(p, q, rs[i])) /\ AroundAlike(p, q, rs[i])
    <2>1. Readable(p, L, N, n + 1, rs[i]) /\ IsCtx(rs[i].ctx)
      BY DEF Range
    <2> QED
      BY <2>1, UnfoldStays, UnfoldAround
  <1>2. Len(rs) \in Nat /\ DOMAIN rs = 1..Len(rs)
    BY SeqFacts
  <1>3. /\ ss = [i \in 1..Len(rs) |-> ss[i]] /\ DOMAIN ss = DOMAIN rs
        /\ \A i \in DOMAIN rs : ss[i] = Unfold(p, q, rs[i])
    BY <1>2
  <1>4. /\ tt = [i \in 1..Len(rs) |-> tt[i]] /\ DOMAIN tt = DOMAIN rs
        /\ \A i \in DOMAIN rs : tt[i] = Inside(Pop(rs[i]))
    BY <1>2 DEF Pops
  <1>5. UnfoldAll(p, q, rs) = FlattenSeq(ss) /\ AllInside(Pops(rs)) = FlattenSeq(tt)
    BY DEF UnfoldAll, AllInside
  <1> HIDE DEF ss, tt
  <1>6. ASSUME NEW i \in DOMAIN rs
        PROVE  /\ IsSeq(ss[i]) /\ IsSeq(tt[i]) /\ DOMAIN tt[i] = DOMAIN ss[i]
               /\ \A k \in DOMAIN ss[i] : tt[i][k] = Pop(ss[i][k]) /\ IsCtx(ss[i][k].ctx)
    <2>1. IsSeq(Unfold(p, q, rs[i])) /\ AroundAlike(p, q, rs[i])
      BY <1>1
    <2>2. ss[i] = Unfold(p, q, rs[i]) /\ tt[i] = Inside(Pop(rs[i]))
      BY <1>3, <1>4
    <2> QED
      BY <2>1, <2>2, Zenon DEF AroundAlike
  <1>7. IsSeqs(ss) /\ IsSeqs(tt)
    <2>1. IsSeq(ss) /\ IsSeq(tt)
      BY <1>2, <1>3, <1>4, SeqOver
    <2> QED
      BY <1>3, <1>4, <1>6, <2>1 DEF IsSeqs
  <1>8. ASSUME NEW i \in DOMAIN ss PROVE tt[i] = Mapped(h, ss[i])
    <2> DEFINE one == ss[i]
               two == tt[i]
               three == Mapped(h, one)
    <2>1. /\ IsSeq(one) /\ IsSeq(two) /\ DOMAIN two = DOMAIN one
          /\ \A k \in DOMAIN one : two[k] = Pop(one[k])
      BY <1>3, <1>6
    <2>2. \A k \in DOMAIN one : one[k] \in all
      BY DEF Range
    <2>3. \A k \in DOMAIN one : h[one[k]] = Pop(one[k])
      BY <2>2
    <2> HIDE DEF one, two, h
    <2>4. IsSeq(three) /\ Len(three) = Len(one) /\ \A k \in DOMAIN one : three[k] = h[one[k]]
      BY <2>1, MappedFacts DEF Mapped
    <2> HIDE DEF three
    <2>5. Len(one) \in Nat /\ DOMAIN one = 1..Len(one) /\ Len(two) \in Nat /\ DOMAIN two = 1..Len(two)
      BY <2>1, SeqFacts
    <2>6. Len(two) = Len(one)
      BY <2>1, <2>5
    <2>7. \A k \in 1..Len(two) : two[k] = three[k]
      BY <2>1, <2>3, <2>4, <2>5, <2>6
    <2>8. two = three
      BY <2>1, <2>4, <2>6, <2>7, SameSeq
    <2> QED
      BY <2>8 DEF one, two, three
  <1>9. FlattenSeq(tt) = Mapped(h, FlattenSeq(ss))
    <2> HIDE DEF h
    <2> QED
      BY <1>3, <1>4, <1>7, <1>8, FlattenBoth
  <1>10. Range(FlattenSeq(ss)) = all
    BY <1>7, FlattenFacts
  <1> DEFINE flat == FlattenSeq(ss)
  <1> HIDE DEF flat
  <1>11. Mapped(h, flat) = Pops(flat)
    <2>1. \A j \in DOMAIN flat : flat[j] \in all
      <3> HIDE DEF all
      <3> QED
        BY <1>10 DEF Range, flat
    <2> HIDE DEF all
    <2> QED
      BY <2>1 DEF Mapped, Pops
  <1>12. ASSUME NEW s \in all PROVE IsCtx(s.ctx)
    <2>1. PICK i \in DOMAIN ss : s \in Range(ss[i])
      OBVIOUS
    <2>2. PICK k \in DOMAIN ss[i] : s = ss[i][k]
      BY <2>1 DEF Range
    <2> QED
      BY <1>3, <1>6, <2>2
  <1> HIDE DEF all, h
  <1> QED
    BY <1>5, <1>9, <1>10, <1>11, <1>12 DEF flat

\* What is inside a metric, down to m levels.
Nesting(f, first, m) ==
    f = [n \in 0..m |-> IF n = 0 THEN <<first>> ELSE AllInside(f[n - 1])]

LEMMA NestingExists ==
    ASSUME NEW first, NEW m \in Nat
    PROVE  \E f : Nesting(f, first, m)
  <1> DEFINE S == {k \in Nat : \E f : Nesting(f, first, k)}
  <1>1. 0 \in S
    <2>1. Nesting([n \in 0..0 |-> <<first>>], first, 0)
      BY DEF Nesting
    <2> QED
      BY <2>1
  <1>2. ASSUME NEW k \in S PROVE k + 1 \in S
    <2>1. PICK f : Nesting(f, first, k)
      OBVIOUS
    <2> DEFINE h == [n \in 0..k+1 |-> IF n = k + 1 THEN AllInside(f[k]) ELSE f[n]]
    <2>2. ASSUME NEW n \in 0..k+1
          PROVE  h[n] = IF n = 0 THEN <<first>> ELSE AllInside(h[n - 1])
      <3>1. CASE n = k + 1
        <4>1. h[n] = AllInside(f[k]) /\ h[n - 1] = f[k]
          BY <3>1
        <4> QED
          BY <3>1, <4>1
      <3>2. CASE n # k + 1 /\ n = 0
        <4>1. h[n] = f[0] /\ f[0] = <<first>>
          BY <2>1, <3>2 DEF Nesting
        <4> QED
          BY <3>2, <4>1
      <3>3. CASE n # k + 1 /\ n # 0
        <4>1. h[n] = f[n] /\ h[n - 1] = f[n - 1] /\ n \in 0..k
          BY <3>3
        <4>2. f[n] = AllInside(f[n - 1])
          BY <2>1, <3>3, <4>1 DEF Nesting
        <4> QED
          BY <3>3, <4>1, <4>2
      <3> QED
        BY <3>1, <3>2, <3>3
    <2>3. Nesting(h, first, k + 1)
      BY <2>2 DEF Nesting
    <2> QED
      BY <2>3
  <1>3. S = Nat
    <2> HIDE DEF S
    <2>1. S \in SUBSET Nat
      BY DEF S
    <2> QED
      BY <1>1, <1>2, <2>1, Induction
  <1> QED
    BY <1>3


\* What is read to plan a metric, and the populations around each of it
LEMMA ReadingsAround ==
    ASSUME NEW p, InShape(p), NEW q, NEW b, NEW name, IsBinding(p, name, b),
           NEW L, Levels(p, L, Len(p.bindings)), b \in L[Len(p.bindings)]
    PROVE  \E read : /\ read = Pops(Readings(p, q, NoEnclosing, b, name))
                     /\ Populations(p, b) = FlattenSeq([i \in DOMAIN read |-> PopulationsOf(read[i])])
  <1> DEFINE N == Len(p.bindings)
             first == Reading(NoEnclosing, b, name)
             around == Around(b, {})
  <1>1. N \in Nat
    BY Zenon DEF InShape
  <1>2. (\E f : Unfolding(f, p, q, first, N)) /\ \E g : Nesting(g, around, N)
    BY <1>1, UnfoldingExists, NestingExists
  <1> DEFINE f == CHOOSE f : Unfolding(f, p, q, first, N)
             g == CHOOSE g : Nesting(g, around, N)
  <1>3. Unfolding(f, p, q, first, N) /\ Nesting(g, around, N)
    BY <1>2, Zenon
  <1>4. Readings(p, q, NoEnclosing, b, name) = f[N]
    BY Zenon DEF Readings, Unfolding
  <1>5. Populations(p, b) = FlattenSeq([i \in DOMAIN g[N] |-> PopulationsOf(g[N][i])])
    BY Zenon DEF Populations, Nesting
  <1>6. b \in L[N] /\ Levels(p, L, N)
    OBVIOUS
  <1> HIDE DEF f, g, N
  <1>7. N \in 1..N
    <2>1. N # 0
      BY <1>6 DEF Levels
    <2> QED
      BY <1>1, <2>1
  <1>8. Readable(p, L, N, N, first) /\ IsCtx(first.ctx) /\ Pop(first) = around
    <2>1. first.b = b /\ first.name = name /\ first.state = "open" /\ IsReading(first) /\ first.ctx = NoEnclosing
      BY DEF Reading, IsReading
    <2>2. IsCtx(NoEnclosing) /\ NoEnclosing.pops = {}
      BY DEF IsCtx, NoEnclosing
    <2>3. Ids({}) = {}
      BY DEF Ids
    <2> HIDE DEF first
    <2>4. Pop(first) = around
      BY <2>1, <2>2, <2>3 DEF Pop, Around
    <2> QED
      BY <1>1, <1>6, <1>7, <2>1, <2>2, <2>4 DEF Readable
  <1> HIDE DEF first, around
  <1> DEFINE Fine(n) == /\ IsSeq(f[n]) /\ \A r \in Range(f[n]) : Readable(p, L, N, N - n, r) /\ IsCtx(r.ctx)
                        /\ g[n] = Pops(f[n])
             S == {n \in Nat : n <= N => Fine(n)}
  <1>9. 0 \in S
    <2>1. f[0] = <<first>> /\ g[0] = <<around>>
      BY <1>1, <1>3 DEF Unfolding, Nesting
    <2>2. N - 0 = N
      BY <1>1
    <2>3. IsSeq(<<first>>) /\ Range(<<first>>) = {first} /\ DOMAIN <<first>> = {1} /\ <<first>>[1] = first
      BY OneFacts
    <2> DEFINE one == <<first>>
               two == <<around>>
    <2>4. two = Pops(one)
      <3>1. Pops(one) = [j \in 1..1 |-> Pop(one[j])] /\ one[1] = first
        BY <2>3 DEF Pops
      <3> HIDE DEF one
      <3>2. Pops(one) = [j \in 1..1 |-> around]
        BY <1>8, <3>1
      <3> QED
        BY <3>2
    <2>5. IsSeq(one) /\ \A r \in Range(one) : Readable(p, L, N, N - 0, r) /\ IsCtx(r.ctx)
      BY <1>8, <2>2, <2>3
    <2> HIDE DEF one, two
    <2>6. Fine(0)
      BY <2>1, <2>4, <2>5, Zenon DEF one, two
    <2> HIDE DEF Fine
    <2> QED
      BY <2>6
  <1>10. ASSUME NEW n \in S, n < N PROVE n + 1 \in S
    <2>1. n \in Nat /\ n + 1 \in 0..N /\ (n + 1) - 1 = n /\ n + 1 # 0 /\ Fine(n)
      BY <1>1, <1>10
    <2>2. f[n + 1] = UnfoldAll(p, q, f[n]) /\ g[n + 1] = AllInside(g[n])
      BY <1>3, <2>1 DEF Unfolding, Nesting
    <2>3. N - (n + 1) \in Nat /\ N - n = (N - (n + 1)) + 1
      BY <1>1, <2>1
    <2> DEFINE rs == f[n]  left == N - (n + 1)
    <2>4. IsSeq(rs) /\ \A r \in Range(rs) : Readable(p, L, N, left + 1, r) /\ IsCtx(r.ctx)
      BY <2>1, <2>3
    <2>5. left \in Nat /\ g[n] = Pops(rs)
      BY <2>1, <2>3
    <2> HIDE DEF rs, left
    <2>6. IsSeq(UnfoldAll(p, q, rs)) /\ \A r \in Range(UnfoldAll(p, q, rs)) : Readable(p, L, N, left, r)
      BY <1>1, <1>6, <2>4, <2>5, UnfoldAllStays
    <2>7. /\ AllInside(Pops(rs)) = Pops(UnfoldAll(p, q, rs))
          /\ \A r \in Range(UnfoldAll(p, q, rs)) : IsCtx(r.ctx)
      BY <1>1, <1>6, <2>4, <2>5, UnfoldAllAround
    <2>8. Fine(n + 1)
      BY <2>2, <2>5, <2>6, <2>7, Zenon DEF rs, left
    <2>9. n + 1 \in Nat
      BY <2>1
    <2> HIDE DEF Fine
    <2> QED
      BY <2>8, <2>9
  <1>11. N \in S
    <2> HIDE DEF S
    <2>1. S \in SUBSET Nat
      BY DEF S
    <2> QED
      BY <1>1, <1>9, <1>10, <2>1, UpTo
  <1>12. g[N] = Pops(f[N])
    <2>1. N <= N
      BY <1>1
    <2> QED
      BY <1>11, <2>1
  <1> WITNESS g[N]
  <1> QED
    BY <1>4, <1>5, <1>12, Zenon

\* Every leaf that is asked for a metric is asked for under the populations of the metric,
\* of its components and of the metrics it is read through, and under no other.
AskedUnder(p, b, asks) == Populations(p, b) = [i \in DOMAIN asks |-> AskPops(asks[i])]

LEMMA MetricPopulations ==
    ASSUME NEW p, InShape(p), Accepted(p), NEW q, NEW name, NEW b, b = ResolveMetric(p, name), b.is = "binding",
           NEW asks, asks = PlanMetric(p, q, NoEnclosing, b, name), \A ask \in Range(asks) : ask.why = ""
    PROVE  AskedUnder(p, b, asks)
  <1> DEFINE N == Len(p.bindings)
             rs == Readings(p, q, NoEnclosing, b, name)
             plan(r) == PlanReading(p, q, r.ctx, r.b, r.name)
             ss == [i \in DOMAIN rs |-> plan(rs[i])]
  <1>1. N \in Nat
    BY Zenon DEF InShape
  <1>2. IsBinding(p, name, b) /\ \E L : Levels(p, L, N) /\ b \in L[N]
    BY ResolveFacts
  <1>3. PICK L : Levels(p, L, N) /\ b \in L[N]
    BY <1>2
  <1>4. /\ IsSeq(rs)
        /\ \A r \in Range(rs) : /\ IsBinding(p, r.name, r.b) /\ r.b.ref.kind \notin {"offset", "derived"}
                                /\ \E l \in 1..N : r.b \in L[l]
    BY <1>2, <1>3, ReadingsFacts
  <1>5. asks = FlattenSeq(ss)
    BY Zenon DEF PlanMetric
  <1>6. PICK read : /\ read = Pops(rs)
                    /\ Populations(p, b) = FlattenSeq([i \in DOMAIN read |-> PopulationsOf(read[i])])
    BY <1>2, <1>3, ReadingsAround, ZenonT(60)
  <1> DEFINE tt == [i \in DOMAIN read |-> PopulationsOf(read[i])]
  <1> HIDE DEF rs, N
  <1>7. ASSUME NEW r \in Range(rs)
        PROVE  AllAsked(p, plan(r)) /\ Narrowed(plan(r), PopulationsOf(Pop(r))) /\ IsSeq(PopulationsOf(Pop(r)))
    <2>1. PICK l \in 1..N : r.b \in L[l]
      BY <1>4
    <2>2. Pop(r).b = r.b /\ Pop(r).pops = Ids(r.ctx.pops)
      BY DEF Pop
    <2> QED
      BY <1>1, <1>3, <1>4, <2>1, <2>2, ReadingAsks, PopulationsByKind
  <1> HIDE DEF plan
  <1>8. Len(rs) \in Nat /\ DOMAIN rs = 1..Len(rs)
    BY <1>4, SeqFacts
  <1>9. /\ ss = [i \in 1..Len(rs) |-> ss[i]] /\ DOMAIN ss = DOMAIN rs
        /\ tt = [i \in 1..Len(rs) |-> tt[i]] /\ DOMAIN tt = DOMAIN rs
    BY <1>6, <1>8 DEF Pops
  <1>10. ASSUME NEW i \in DOMAIN rs
         PROVE  AllAsked(p, ss[i]) /\ Narrowed(ss[i], tt[i]) /\ IsSeq(tt[i])
    <2>1. rs[i] \in Range(rs) /\ ss[i] = plan(rs[i]) /\ tt[i] = PopulationsOf(Pop(rs[i]))
      BY <1>6 DEF Pops, Range
    <2> QED
      BY <1>7, <2>1
  <1>11. Populations(p, b) = FlattenSeq(tt)
    BY <1>6
  <1> HIDE DEF ss, tt
  <1>12. IsSeqs(ss) /\ IsSeqs(tt)
    <2>1. IsSeq(ss) /\ IsSeq(tt)
      BY <1>8, <1>9, SeqOver
    <2> QED
      BY <1>9, <1>10, <2>1 DEF IsSeqs, AllAsked
  <1> DEFINE all == UNION {Range(ss[i]) : i \in DOMAIN ss}
             h == [ask \in all |-> AskPops(ask)]
  <1>13. IsSeq(asks) /\ Range(asks) = all
    BY <1>5, <1>12, FlattenFacts
  <1>14. ASSUME NEW i \in DOMAIN ss PROVE tt[i] = Mapped(h, ss[i])
    <2> DEFINE one == ss[i]
               two == tt[i]
               three == Mapped(h, one)
    <2>1. IsSeq(one) /\ IsSeq(two) /\ Narrowed(one, two)
      BY <1>9, <1>10 DEF AllAsked
    <2>2. Range(one) \subseteq all
      OBVIOUS
    <2>3. \A k \in DOMAIN one : h[one[k]] = AskPops(one[k])
      BY <2>2 DEF Range
    <2> HIDE DEF one, two, h, all
    <2>4. DOMAIN one = DOMAIN two /\ \A k \in DOMAIN two : AskPops(one[k]) = two[k]
      BY <1>13, <2>1, <2>2 DEF Narrowed
    <2>5. IsSeq(three) /\ Len(three) = Len(one) /\ \A k \in DOMAIN one : three[k] = h[one[k]]
      BY <2>1, MappedFacts DEF Mapped
    <2> HIDE DEF three
    <2>6. Len(one) \in Nat /\ DOMAIN one = 1..Len(one) /\ Len(two) \in Nat /\ DOMAIN two = 1..Len(two)
      BY <2>1, SeqFacts
    <2>7. Len(two) = Len(one)
      BY <2>1, <2>4, SameLength
    <2>8. \A k \in 1..Len(two) : two[k] = three[k]
      BY <2>3, <2>4, <2>5, <2>6, <2>7
    <2>9. two = three
      BY <2>1, <2>5, <2>7, <2>8, SameSeq
    <2> QED
      BY <2>9 DEF one, two, three
  <1>15. FlattenSeq(tt) = Mapped(h, asks)
    <2> HIDE DEF h
    <2>1. DOMAIN tt = DOMAIN ss
      BY <1>9
    <2>2. FlattenSeq(tt) = Mapped(h, FlattenSeq(ss))
      BY <1>12, <1>14, <2>1, FlattenBoth
    <2> QED
      BY <1>5, <2>2, Zenon
  <1>16. \A j \in DOMAIN asks : asks[j] \in all
    <2> HIDE DEF all
    <2> QED
      BY <1>13 DEF Range
  <1> HIDE DEF all
  <1>17. Mapped(h, asks) = [i \in DOMAIN asks |-> AskPops(asks[i])]
    BY <1>16 DEF Mapped
  <1> HIDE DEF h
  <1> QED
    BY <1>11, <1>15, <1>17 DEF AskedUnder
-----------------------------------------------------------------------------
(* The populations of a planned leaf                                        *)

LEMMA BoundFrom ==
    ASSUME NEW p, NEW owner, NEW refs, NEW from, NEW shifts, AllFound(Bind(p, owner, refs, from, shifts)),
           NEW x \in Range(Bind(p, owner, refs, from, shifts))
    PROVE  x.from = from
  <1> DEFINE f == Bind(p, owner, refs, from, shifts)
  <1>1. PICK r \in DOMAIN f : x = f[r]
    BY DEF Range
  <1>2. x.is = "found"
    BY <1>1 DEF AllFound
  <1>3. DOMAIN f = refs
    BY DEF Bind
  <1> DEFINE b == Qualified(p, owner, r)
  <1>4. x = IF b.is # "found" THEN b
            ELSE [is |-> "found", from |-> from, of |-> r, at |-> b.at, col |-> b.col,
                  shift |-> ShiftsOn(p, owner, shifts, b.at, b.col)]
    BY <1>1, <1>3 DEF Bind
  <1> HIDE DEF b
  <1> QED
    BY <1>2, <1>4

LEMMA PopulationPredicateFacts ==
    ASSUME NEW p, NEW owner, NEW id, NEW n, PopulationPredicate(p, owner, id, n).is = "found"
    PROVE  PopulationPredicate(p, owner, id, n).from = "population" /\ PopulationPredicate(p, owner, id, n).of = id
  BY DEF PopulationPredicate

LEMMA GuardrailFrom ==
    ASSUME NEW p, NEW owner, NEW measure, NEW x \in GuardrailPredicates(p, owner, measure), x.is = "found"
    PROVE  x.from = "guardrail"
  <1>1. PICK b, rule : x = IF b.is # "found" THEN b
                           ELSE [is |-> "found", from |-> "guardrail", of |-> rule.id, at |-> b.at,
                                 col |-> b.col, shift |-> <<>>]
    BY DEF GuardrailPredicates
  <1> QED
    BY <1>1

\* The population predicates of a set of predicates name these populations
NamedIn(preds) == {x.of : x \in {x \in preds : x.from = "population"}}

LEMMA MetricNamed ==
    ASSUME NEW p, NEW ask, \A x \in MetricPredicates(p, ask) : x.is = "found"
    PROVE  NamedIn(MetricPredicates(p, ask)) = AskPops(ask)
  <1> DEFINE owner == ask.spec.owner
             pops == ask.ctx.pops \cup ask.spec.pops
             metric == MetricPredicates(p, ask)
             preds == PopulationPredicates(p, owner, pops)
             guards == GuardrailPredicates(p, owner, ask.spec.measure)
             own(pop) == {PopulationPredicate(p, owner, pop.id, n) : n \in pop.names}
  <1>1. metric = preds \cup guards
    BY DEF MetricPredicates
  <1>2. AskPops(ask) = Ids(pops)
    BY IdsOfBoth DEF AskPops
  <1>3. preds = UNION {own(pop) : pop \in pops}
    BY Zenon DEF PopulationPredicates
  <1>4. \A x \in guards : x.is = "found" => x.from = "guardrail"
    BY GuardrailFrom
  <1>0. \A x \in metric : x.is = "found"
    OBVIOUS
  <1> HIDE DEF owner, pops, metric, preds, guards
  <1>5. ASSUME NEW id \in NamedIn(metric) PROVE id \in Ids(pops)
    <2>1. PICK x \in metric : x.from = "population" /\ id = x.of
      BY DEF NamedIn
    <2>2. x.is = "found"
      BY <1>0
    <2>3. x \in preds
      BY <1>1, <1>4, <2>1, <2>2
    <2>4. PICK pop \in pops : x \in own(pop)
      BY <1>3, <2>3
    <2>5. PICK n \in pop.names : x = PopulationPredicate(p, owner, pop.id, n)
      BY <2>4
    <2>6. id = pop.id
      BY <2>1, <2>2, <2>5, PopulationPredicateFacts
    <2> QED
      BY <2>5, <2>6 DEF Ids
  <1>6. ASSUME NEW id \in Ids(pops) PROVE id \in NamedIn(metric)
    <2>1. PICK pop \in pops : pop.names # {} /\ id = pop.id
      BY DEF Ids
    <2>2. PICK n \in pop.names : TRUE
      BY <2>1
    <2> DEFINE x == PopulationPredicate(p, owner, pop.id, n)
    <2>3. x \in own(pop)
      BY <2>2
    <2> HIDE DEF x, own
    <2>4. x \in metric
      BY <1>1, <1>3, <2>3
    <2>5. x.from = "population" /\ x.of = id
      BY <1>0, <2>1, <2>4, PopulationPredicateFacts DEF x
    <2> QED
      BY <2>4, <2>5 DEF NamedIn
  <1> QED
    BY <1>2, <1>5, <1>6 DEF metric

\* A planned leaf answers what was asked for, under the populations it was asked for.
AnswersAsked(p, ask, leaf) == Answers(p, ask.spec, leaf) /\ PopulationsIn(leaf) = AskPops(ask)

LEMMA PlannedRows ==
    ASSUME NEW p, Accepted(p), NEW who, NEW policy, NEW ask, Asked(p, ask),
           PlanLeaf(p, who, policy, ask).why = ""
    PROVE  ask.why = "" /\ AnswersAsked(p, ask, PlanLeaf(p, who, policy, ask).leaf)
  <1> DEFINE owner == ask.spec.owner
             shifts == ask.ctx.shifts
             before == UNION {shifts[k].pre : k \in DOMAIN shifts}
             n == Names(p, ask)
             plan == PlanJoins(p.g, owner, Needed(n) \ {owner}, ask.q.via)
             metric == MetricPredicates(p, ask)
             leaf == PlanLeaf(p, who, policy, ask).leaf
             tenant == TenantPredicates(p, owner, plan.edges, who, policy)
             scoped == ScopeLeaf(p, who, policy, ask, n, plan, metric)
             preds == ScopedPredicates(p, who, policy, owner, n, plan, metric)
  <1>1. ask.why = "" /\ PlanLeaf(p, who, policy, ask) = JoinLeaf(p, who, policy, ask, n)
    BY DEF PlanLeaf
  <1>2. JoinLeaf(p, who, policy, ask, n).why = ""
    BY <1>1
  <1>3. /\ AllFound(n.user) /\ AllFound(n.pre)
        /\ JoinLeaf(p, who, policy, ask, n) = scoped
    BY <1>2, JoinedLeaf
  <1>4. /\ \A x \in metric : x.is = "found"
        /\ IsBuilt(p, who, policy, ask, n, plan, metric, scoped)
        /\ MadeFrom(scoped.leaf, owner, n.dims, plan.edges,
                    Range(n.user) \cup Range(n.pre) \cup metric \cup tenant)
    <2>1. scoped.why = ""
      BY <1>2, <1>3
    <2> HIDE DEF n, plan, metric
    <2> QED
      BY <2>1, ScopedIsBuilt, ScopedLeaf
  <1>5. scoped = BuildLeaf(p, ask, n.dims, plan.edges, preds, FinalityOf(p, ask.spec, n.dims))
    <2> HIDE DEF n, plan, metric, scoped
    <2> QED
      BY <1>4 DEF IsBuilt
  <1>6. PlanLeaf(p, who, policy, ask) = scoped
    BY <1>1, <1>3
  <1>7. Answers(p, ask.spec, leaf)
    <2>1. scoped.why = "" /\ leaf = scoped.leaf
      BY <1>6
    <2>2. Dedups(p, ask.spec)
      BY <1>1 DEF Asked
    <2> HIDE DEF n, plan, metric, scoped, preds, leaf
    <2> QED
      BY <1>5, <2>1, <2>2, EmittedRows
  <1>8. /\ n.user = Bind(p, owner, ask.spec.filters, "user", shifts)
        /\ n.pre = Bind(p, owner, before, "prefilter", <<>>)
    BY DEF Names
  <1>9. \A x \in Range(n.user) : x.from = "user"
    <2> HIDE DEF n
    <2> QED
      BY <1>3, <1>8, BoundFrom
  <1>10. \A x \in Range(n.pre) : x.from = "prefilter"
    <2> HIDE DEF n, before
    <2> QED
      BY <1>3, <1>8, BoundFrom
  <1>11. ASSUME NEW x \in tenant PROVE x.from = "tenant"
    <2>1. PICK a : x = [is |-> "found", from |-> "tenant", of |-> who.tenants, at |-> a,
                        col |-> ScopeOf(p, Tree(p, owner)[a]).column, shift |-> <<>>]
      <3> HIDE DEF plan, owner
      <3> QED
        BY Zenon DEF TenantPredicates
    <2> QED
      BY <2>1
  <1>12. NamedIn(metric) = AskPops(ask)
    BY <1>4, MetricNamed
  <1>13. leaf.preds = Range(n.user) \cup Range(n.pre) \cup metric \cup tenant
    BY <1>4, <1>6 DEF MadeFrom
  <1> HIDE DEF n, plan, metric, tenant, scoped, preds, leaf
  <1>14. PopulationsIn(leaf) = NamedIn(metric)
    BY <1>9, <1>10, <1>11, <1>13 DEF PopulationsIn, NamedIn
  <1> QED
    BY <1>1, <1>7, <1>12, <1>14 DEF AnswersAsked, leaf
-----------------------------------------------------------------------------
(* Fusion                                                                   *)

\* Names are unique, so leaves that may share a select and have one name read one measure.
LEMMA OneMeasure ==
    ASSUME NEW p, Accepted(p), NEW x, NEW y, NamedMeasure(p, x), NamedMeasure(p, y), x.column = y.column
    PROVE  x.measure = y.measure
  <1>1. PICK i \in Active(p) : x.column \in NamesOf(p, i) /\ x.measure = p.bindings[i].ref.measure
    BY DEF NamedMeasure
  <1>2. PICK k \in Active(p) : y.column \in NamesOf(p, k) /\ y.measure = p.bindings[k].ref.measure
    BY DEF NamedMeasure
  <1>3. \A j, l \in Active(p) : j # l => NamesOf(p, j) \cap NamesOf(p, l) = {}
    <2>1. NamesUnique(p)
      BY Zenon DEF Accepted
    <2> QED
      BY <2>1, Zenon DEF NamesUnique
  <1>4. i = k
    BY <1>1, <1>2, <1>3
  <1> QED
    BY <1>1, <1>2, <1>4

\* Leaves of one key scan, filter and group alike, under finality rules of one key.
Alike(x, y) ==
    /\ x.owner = y.owner /\ x.preds = y.preds /\ x.dims = y.dims
    /\ x.joins = y.joins /\ x.params = y.params
    /\ {FinalityKey(f) : f \in x.rules} = {FinalityKey(f) : f \in y.rules}

\* Where the key tells the rules apart, leaves of one key realize alike.
LEMMA BranchesOfOneKey ==
    ASSUME NEW p, RulesTellApart(p), NEW x, NEW y, BranchesFrom(p, x), BranchesFrom(p, y), Alike(x, y),
           NEW b \in x.branches
    PROVE  b \in y.branches
  <1> DEFINE one(m, r) == Realize(p, x.owner, m, NamesIn(x), x.preds, r)
  <1>1. PICK f \in x.rules : \E r \in Range(f.realizations) : b = one(x.measure, r)
    <2>1. \E f \in x.rules : \E r \in Range(f.realizations) :
             /\ b = Realize(p, x.owner, x.measure, NamesIn(x), x.preds, r)
             /\ IsBranch(p, x.owner, x.measure, x.preds, r, b)
      BY BranchOf, Zenon
    <2> QED
      BY <2>1, Zenon
  <1>2. PICK r \in Range(f.realizations) : b = one(x.measure, r)
    BY <1>1
  <1>3. PICK h \in y.rules : FinalityKey(f) = FinalityKey(h)
    <2>1. FinalityKey(f) \in {FinalityKey(h) : h \in y.rules}
      BY Zenon DEF Alike
    <2> QED
      BY <2>1, Zenon
  <1>4. f \in p.finality /\ h \in p.finality
    BY DEF BranchesFrom
  <1>5. r \in Range(h.realizations)
    BY <1>3, <1>4, Zenon DEF RulesTellApart
  <1>6. NamesIn(x) = NamesIn(y) /\ x.owner = y.owner /\ x.preds = y.preds
    BY DEF Alike, NamesIn
  <1>7. one(y.measure, r) \in y.branches
    <2> DEFINE all == Realized(p, y.owner, y.measure, NamesIn(y), y.preds, y.rules)
    <2>1. Realize(p, y.owner, y.measure, NamesIn(y), y.preds, r) \in all
      BY <1>5, InRealized, Zenon
    <2>2. y.branches = all
      BY DEF BranchesFrom
    <2> HIDE DEF all
    <2> QED
      BY <1>6, <2>1, <2>2
  <1>8. one(y.measure, r).why = "" /\ one(x.measure, r).why = ""
    BY <1>2, <1>7 DEF BranchesFrom
  <1>9. one(y.measure, r) = one(x.measure, r)
    <2>1. PICK branch : RealizedAs(p, x.owner, NamesIn(x), x.preds, r, branch)
      BY Realizing, Zenon
    <2>2. \A m : one(m, r).why = "" => one(m, r) = branch
      BY <2>1, Zenon DEF RealizedAs
    <2> HIDE DEF one
    <2> QED
      BY <1>8, <2>2
  <1> QED
    BY <1>2, <1>7, <1>9

LEMMA SameKey ==
    ASSUME NEW x, NEW y, SelectKey(x) = SelectKey(y)
    PROVE  /\ Alike(x, y)
           /\ y.fusable => x.fusable
           /\ ~y.fusable => x.measure = y.measure
  <1> DEFINE rest(l) == IF l.fusable THEN <<>> ELSE <<l.measure, l.column>>
  <1>1. FusionKey(x) = FusionKey(y) /\ rest(x) = rest(y)
    BY DEF SelectKey
  <1>2. Alike(x, y)
    BY <1>1 DEF FusionKey, Alike
  <1>3. \A a, b : <<a, b>> # <<>>
    BY TwoFacts, EmptyFacts
  <1>4. ASSUME y.fusable PROVE x.fusable
    BY <1>1, <1>3, <1>4
  <1>5. ASSUME ~y.fusable PROVE x.measure = y.measure
    <2>1. ~x.fusable
      <3>1. rest(y) = <<y.measure, y.column>>
        BY <1>5
      <3>2. x.fusable => rest(x) = <<>>
        OBVIOUS
      <3> HIDE DEF rest
      <3> QED
        BY <1>1, <1>3, <3>1, <3>2
    <2>2. <<x.measure, x.column>> = <<y.measure, y.column>>
      BY <1>1, <1>5, <2>1
    <2> QED
      BY <2>2
  <1> QED
    BY <1>2, <1>4, <1>5

LEMMA FirstOfFacts ==
    ASSUME NEW leaves, NEW i \in Nat \ {0}
    PROVE  FirstOf(leaves, i) \in 1..i /\ SelectKey(leaves[FirstOf(leaves, i)]) = SelectKey(leaves[i])
  <1> DEFINE same == {j \in 1..i : SelectKey(leaves[j]) = SelectKey(leaves[i])}
  <1>1. PICK j \in same : \A k \in same : j <= k
    <2>1. same \in SUBSET Nat /\ i \in same
      OBVIOUS
    <2> HIDE DEF same
    <2> QED
      BY <2>1, LeastNatural
  <1>2. /\ j \in 1..i /\ SelectKey(leaves[j]) = SelectKey(leaves[i])
        /\ \A k \in 1..(j - 1) : SelectKey(leaves[k]) # SelectKey(leaves[i])
    BY <1>1
  <1>3. \E l \in 1..i : /\ SelectKey(leaves[l]) = SelectKey(leaves[i])
                        /\ \A k \in 1..(l - 1) : SelectKey(leaves[k]) # SelectKey(leaves[i])
    BY <1>2, Zenon
  <1> QED
    BY <1>3, Zenon DEF FirstOf

LEMMA AdderOfFacts ==
    ASSUME NEW leaves, NEW i \in Nat \ {0}
    PROVE  AdderOf(leaves, i) \in 1..i /\ Together(leaves, AdderOf(leaves, i), i)
  <1> DEFINE same == {j \in 1..i : Together(leaves, j, i)}
  <1>1. PICK j \in same : \A k \in same : j <= k
    <2>1. same \in SUBSET Nat /\ i \in same
      BY DEF Together
    <2> HIDE DEF same
    <2> QED
      BY <2>1, LeastNatural
  <1>2. j \in 1..i /\ Together(leaves, j, i) /\ \A k \in 1..(j - 1) : ~Together(leaves, k, i)
    BY <1>1
  <1>3. \E l \in 1..i : Together(leaves, l, i) /\ \A k \in 1..(l - 1) : ~Together(leaves, k, i)
    BY <1>2, Zenon
  <1> QED
    BY <1>3, Zenon DEF AdderOf

\* A leaf can be read off the select it was fused into.
LEMMA FusedKeeps ==
    ASSUME NEW p, Accepted(p), NEW leaves, IsSeq(leaves),
           \A leaf \in Range(leaves) : (leaf.fusable => NamedMeasure(p, leaf)) /\ BranchesFrom(p, leaf),
           NEW i \in DOMAIN leaves
    PROVE  /\ Fuse(leaves)[i].measure = leaves[i].measure
           /\ Alike(Fuse(leaves)[i].select, leaves[i])
           /\ RulesTellApart(p) => Fuse(leaves)[i].select.branches = leaves[i].branches
  <1> DEFINE first == FirstOf(leaves, i)
             adder == AdderOf(leaves, i)
  <1>1. Len(leaves) \in Nat /\ DOMAIN leaves = 1..Len(leaves)
    BY SeqFacts
  <1>2. i \in Nat \ {0} /\ 1..i \subseteq DOMAIN leaves
    BY <1>1
  <1>3. first \in 1..i /\ SelectKey(leaves[first]) = SelectKey(leaves[i])
    BY <1>2, FirstOfFacts
  <1>4. adder \in 1..i /\ Together(leaves, adder, i)
    BY <1>2, AdderOfFacts
  <1>5. Fuse(leaves)[i].select = leaves[first] /\ Fuse(leaves)[i].measure = leaves[adder].measure
    BY DEF Fuse
  <1> HIDE DEF adder
  <1>6. FirstOf(leaves, adder) = first /\ leaves[adder].column = leaves[i].column
    BY <1>4 DEF Together
  <1>7. adder \in Nat \ {0} /\ adder \in DOMAIN leaves
    BY <1>2, <1>4
  <1>8. SelectKey(leaves[first]) = SelectKey(leaves[adder])
    BY <1>6, <1>7, FirstOfFacts
  <1> HIDE DEF first
  <1>9. SelectKey(leaves[adder]) = SelectKey(leaves[i])
    BY <1>3, <1>8
  <1>10. leaves[adder].measure = leaves[i].measure
    <2>1. CASE ~leaves[i].fusable
      BY <1>9, <2>1, SameKey
    <2>2. CASE leaves[i].fusable
      <3>1. leaves[adder].fusable
        BY <1>9, <2>2, SameKey
      <3>2. NamedMeasure(p, leaves[adder]) /\ NamedMeasure(p, leaves[i])
        BY <1>7, <2>2, <3>1 DEF Range
      <3> QED
        BY <1>6, <3>2, OneMeasure
    <2> QED
      BY <2>1, <2>2
  <1>11. Alike(leaves[first], leaves[i])
    BY <1>3, SameKey
  <1>12. ASSUME RulesTellApart(p) PROVE leaves[first].branches = leaves[i].branches
    <2>1. first \in DOMAIN leaves
      BY <1>2, <1>3
    <2>2. BranchesFrom(p, leaves[first]) /\ BranchesFrom(p, leaves[i])
      BY <2>1 DEF Range
    <2>3. Alike(leaves[i], leaves[first])
      BY <1>11 DEF Alike
    <2>4. leaves[first].branches \subseteq leaves[i].branches
      BY <1>11, <1>12, <2>2, BranchesOfOneKey
    <2>5. leaves[i].branches \subseteq leaves[first].branches
      BY <1>12, <2>2, <2>3, BranchesOfOneKey
    <2> QED
      BY <2>4, <2>5
  <1> QED
    BY <1>5, <1>10, <1>11, <1>12

LEMMA FuseNothing == Fuse(FlattenSeq(<<>>)) = <<>>
  <1>1. IsSeqs(<<>>)
    BY EmptyFacts DEF IsSeqs
  <1>2. IsSeq(FlattenSeq(<<>>)) /\ Range(FlattenSeq(<<>>)) = UNION {Range(<<>>[i]) : i \in DOMAIN <<>>}
    BY <1>1, FlattenFacts
  <1> DEFINE flat == FlattenSeq(<<>>)
  <1>3. IsSeq(flat) /\ Range(flat) = {}
    BY <1>2, EmptyFacts
  <1> HIDE DEF flat
  <1>4. DOMAIN flat = {}
    BY <1>3 DEF Range
  <1>5. DOMAIN Fuse(flat) = {} /\ Fuse(flat) = [i \in {} |-> Fuse(flat)[i]]
    BY <1>4 DEF Fuse
  <1> QED
    BY <1>5, EmptyFacts DEF flat
-----------------------------------------------------------------------------
(* What a name resolves to                                                  *)

Outcomes == {"binding", "unresolved", "ambiguous"}

LEMMA ResolveWithEnds ==
    ASSUME NEW p, InShape(p), NEW first, NEW name, NEW component,
           \A m \in NamesMet(p, first) : component[m].is \in Outcomes
    PROVE  ResolveWith(p, name, component).is \in Outcomes
  <1> DEFINE i == CHOOSE i \in Matches(p, name) : TRUE
             ref == p.bindings[i].ref
             parts == [k \in DOMAIN Deps(ref) |-> component[ref.deps[k]]]
             bad == {k \in DOMAIN parts : parts[k].is # "binding"}
             least == CHOOSE k \in bad : \A l \in bad : k <= l
             found == [is |-> "binding", metric |-> p.bindings[i].metric, ref |-> ref, parts |-> parts]
             b == ResolveWith(p, name, component)
  <1>1. b = IF Matches(p, name) = {} THEN Unresolved(name)
            ELSE IF Cardinality(Matches(p, name)) > 1 THEN Ambiguous(name)
            ELSE IF bad # {} THEN parts[least] ELSE found
    BY Zenon DEF ResolveWith
  <1>2. Unresolved(name).is \in Outcomes /\ Ambiguous(name).is \in Outcomes
    BY DEF Unresolved, Ambiguous, Outcomes
  <1>3. found.is \in Outcomes
    BY DEF Outcomes
  <1>4. ASSUME Matches(p, name) # {}, bad # {} PROVE parts[least].is \in Outcomes
    <2>1. i \in Active(p)
      BY <1>4 DEF Matches
    <2> HIDE DEF i
    <2>2. Len(Deps(ref)) \in Nat /\ DOMAIN Deps(ref) = 1..Len(Deps(ref))
      BY <2>1, DepsInShape
    <2>3. bad \in SUBSET Nat
      <3>1. DOMAIN parts = DOMAIN Deps(ref)
        BY Zenon
      <3> HIDE DEF parts
      <3>2. bad \subseteq DOMAIN parts
        BY Zenon
      <3> HIDE DEF bad, ref
      <3> QED
        BY <2>2, <3>1, <3>2
    <2>4. \E k \in bad : \A l \in bad : k <= l
      <3> HIDE DEF bad
      <3> QED
        BY <1>4, <2>3, LeastNatural
    <2>5. least \in bad
      <3> HIDE DEF bad
      <3> QED
        BY <2>4
    <2>6. least \in DOMAIN Deps(ref)
      <3> HIDE DEF least
      <3> QED
        BY <2>5
    <2>7. ref.deps[least] \in NamesMet(p, first)
      <3> HIDE DEF least
      <3> QED
        BY <2>1, <2>6, DepsAreNames
    <2>8. parts[least] = component[ref.deps[least]]
      <3> HIDE DEF least
      <3> QED
        BY <2>6
    <2> HIDE DEF parts, least, ref
    <2> QED
      BY <2>7, <2>8
  <1> HIDE DEF b, bad, parts, least, found
  <1> QED
    BY <1>1, <1>2, <1>3, <1>4 DEF b

LEMMA ResolveEnds ==
    ASSUME NEW p, InShape(p), NEW name
    PROVE  ResolveMetric(p, name).is \in Outcomes
  <1> DEFINE N == Len(p.bindings)
             names == NamesMet(p, name)
  <1>1. N \in Nat
    BY Zenon DEF InShape
  <1>2. \E f : Resolving(f, p, names, N)
    BY <1>1, ResolvingExists
  <1> DEFINE f == CHOOSE f : Resolving(f, p, names, N)
  <1>3. Resolving(f, p, names, N)
    BY <1>2, Zenon
  <1>4. ResolveMetric(p, name) = f[N][name]
    BY Zenon DEF ResolveMetric, Resolving, NamesMet
  <1>5. name \in names
    BY DEF NamesMet
  <1> HIDE DEF f, N
  <1> DEFINE S == {n \in Nat : n <= N => \A m \in names : f[n][m].is \in Outcomes}
  <1>6. 0 \in S
    <2> SUFFICES ASSUME NEW m \in names PROVE f[0][m].is \in Outcomes
      OBVIOUS
    <2>1. f[0] = Unknown(names)
      BY <1>1, <1>3 DEF Resolving
    <2>2. f[0][m] = Unresolved(m)
      BY <2>1 DEF Unknown
    <2> QED
      BY <2>2 DEF Unresolved, Outcomes
  <1>7. ASSUME NEW n \in S, n < N PROVE n + 1 \in S
    <2> SUFFICES ASSUME NEW m \in names PROVE f[n + 1][m].is \in Outcomes
      OBVIOUS
    <2>1. n + 1 \in 0..N /\ n + 1 # 0 /\ (n + 1) - 1 = n
      BY <1>1, <1>7
    <2>2. f[n + 1] = ResolveAll(p, names, f[n])
      BY <1>3, <2>1 DEF Resolving
    <2>3. f[n + 1][m] = ResolveWith(p, m, f[n])
      BY <2>2 DEF ResolveAll
    <2>4. \A l \in names : f[n][l].is \in Outcomes
      BY <1>1, <1>7
    <2> QED
      BY <2>3, <2>4, ResolveWithEnds
  <1>8. N \in S
    <2>1. S \in SUBSET Nat
      OBVIOUS
    <2> HIDE DEF S
    <2> QED
      BY <1>1, <1>6, <1>7, <2>1, UpTo
  <1> QED
    BY <1>1, <1>4, <1>5, <1>8
LEMMA ScopeInit == Init => ScopeInv
  <1> SUFFICES ASSUME Init PROVE ScopeInv
    OBVIOUS
  <1>1. PICK r \in Requests : project = r[1]
    BY Zenon DEF Init
  <1>2. Listed(project.g)
    BY <1>1, OrderAssumption DEF Listed
  <1>3. planned = <<>> /\ stage = "principal"
    BY DEF Init
  <1>4. PlannedInv
    BY <1>3, EmptyFacts DEF PlannedInv
  <1> QED
    BY <1>2, <1>3, <1>4 DEF ScopeInv

LEMMA ScopeStep == ScopeInv /\ [Next]_vars => ScopeInv'
  <1> SUFFICES ASSUME ScopeInv, [Next]_vars PROVE ScopeInv'
    OBVIOUS
  <1>1. ASSUME UNCHANGED <<project, caller, authz>> PROVE Listed(project.g)' /\ Identified' = Identified
    BY <1>1 DEF ScopeInv, Listed, Identified
  <1>2. ASSUME planned' = <<>> PROVE PlannedInv'
    BY <1>2, EmptyFacts DEF PlannedInv
  <1>3. ASSUME UNCHANGED <<project, caller, authz, planned>> PROVE PlannedInv'
    BY <1>3 DEF ScopeInv, PlannedInv
  <1>4. ASSUME stage # "principal", stage # "done", UNCHANGED <<project, caller, authz>>, PlannedInv'
        PROVE  ScopeInv'
    BY <1>1, <1>4 DEF ScopeInv
  <1>5. CASE BindPrincipal
    <2>1. UNCHANGED <<project, caller, authz>>
      BY <1>5 DEF BindPrincipal
    <2>2. CASE /\ project.tenancy # NoPolicy /\ ~authz.unscoped /\ caller.tenants = {}
               /\ project.tenancy.missing # "allow_unscoped"
      <3>1. Fail("tenant_unresolved")
        BY <1>5, <2>2 DEF BindPrincipal
      <3>2. planned' = <<>> /\ stage' = "done" /\ answer'.why = "tenant_unresolved"
        BY <3>1 DEF Fail, NoAnswer
      <3> QED
        BY <1>1, <1>2, <2>1, <3>2 DEF ScopeInv
    <2>3. CASE ~(/\ project.tenancy # NoPolicy /\ ~authz.unscoped /\ caller.tenants = {}
                 /\ project.tenancy.missing # "allow_unscoped")
      <3>1. UNCHANGED planned
        BY <1>5, <2>3 DEF BindPrincipal
      <3>2. Identified
        BY <2>3 DEF Identified
      <3> QED
        BY <1>1, <1>3, <2>1, <3>1, <3>2 DEF ScopeInv
    <2> QED
      BY <2>2, <2>3
  <1>6. CASE ResolveMetrics
    <2>1. stage = "resolve" /\ UNCHANGED <<project, caller, authz>>
      BY <1>6, Zenon DEF ResolveMetrics
    <2>2. planned' = <<>> \/ UNCHANGED planned
      BY <1>6, Zenon DEF ResolveMetrics, Fail
    <2> QED
      BY <1>2, <1>3, <1>4, <2>1, <2>2
  <1>7. CASE Enforce
    <2>1. stage = "enforce" /\ UNCHANGED <<project, caller, authz>> /\ (planned' = <<>> \/ UNCHANGED planned)
      BY <1>7 DEF Enforce, Fail
    <2> QED
      BY <1>2, <1>3, <1>4, <2>1
  <1>8. CASE PlanNext
    <2>1. stage = "plan" /\ UNCHANGED <<project, caller, authz>>
      BY <1>8, Zenon DEF PlanNext
    <2>2. CASE planned' = <<>>
      BY <1>2, <1>4, <2>1, <2>2
    <2>3. CASE planned' # <<>>
      <3>1. PICK leaves :
              /\ planned' = Append(planned, leaves)
              /\ \A leaf \in Range(leaves) : \E ask :
                   /\ PlanLeaf(project, caller, authz, ask).why = ""
                   /\ leaf = PlanLeaf(project, caller, authz, ask).leaf
        <4>1. /\ \A i \in DOMAIN NextAsks : PlanLeaf(project, caller, authz, NextAsks[i]).why = ""
              /\ planned' = Append(planned, LeavesOf(project, caller, authz, NextAsks))
          BY <1>8, <2>3, PlansOne
        <4>2. ASSUME NEW leaf \in Range(LeavesOf(project, caller, authz, NextAsks))
              PROVE  \E ask : /\ PlanLeaf(project, caller, authz, ask).why = ""
                              /\ leaf = PlanLeaf(project, caller, authz, ask).leaf
          <5>1. PICK i \in DOMAIN NextAsks : leaf = PlanLeaf(project, caller, authz, NextAsks[i]).leaf
            BY DEF LeavesOf, Range
          <5> QED
            BY <4>1, <5>1
        <4> QED
          BY <4>1, <4>2
      <3>2. ASSUME NEW leaf \in Range(leaves)
            PROVE  NamesJoined(leaf) /\ LeafScoped(project, caller, authz, leaf)
        <4>1. Listed(project.g)
          BY DEF ScopeInv
        <4>2. PICK ask : /\ PlanLeaf(project, caller, authz, ask).why = ""
                         /\ leaf = PlanLeaf(project, caller, authz, ask).leaf
          BY <3>1, Zenon
        <4> QED
          BY <4>1, <4>2, PlannedLeaf
      <3>3. IsSeq(planned) /\ Len(planned) \in Nat /\ DOMAIN planned = 1..Len(planned)
        BY SeqFacts DEF ScopeInv, PlannedInv
      <3>4. /\ IsSeq(planned') /\ DOMAIN planned' = 1..(Len(planned) + 1)
            /\ planned'[Len(planned) + 1] = leaves
            /\ \A i \in 1..Len(planned) : planned'[i] = planned[i]
        <4> DEFINE longer == Append(planned, leaves)
        <4>1. /\ IsSeq(longer) /\ DOMAIN longer = 1..(Len(planned) + 1)
              /\ longer[Len(planned) + 1] = leaves
              /\ \A i \in 1..Len(planned) : longer[i] = planned[i]
          BY <3>3, AppendFacts
        <4>2. planned' = longer
          BY <3>1
        <4> HIDE DEF longer
        <4> QED
          BY <4>1, <4>2
      <3>5. ASSUME NEW k \in DOMAIN planned', NEW leaf \in Range(planned'[k])
            PROVE  NamesJoined(leaf) /\ LeafScoped(project, caller, authz, leaf)
        <4>1. CASE k = Len(planned) + 1
          BY <3>2, <3>4, <3>5, <4>1
        <4>2. CASE k # Len(planned) + 1
          <5>1. k \in DOMAIN planned /\ planned'[k] = planned[k]
            BY <3>3, <3>4, <4>2
          <5> QED
            BY <3>5, <5>1 DEF ScopeInv, PlannedInv
        <4> QED
          BY <4>1, <4>2
      <3>6. PlannedInv'
        BY <2>1, <3>4, <3>5 DEF PlannedInv
      <3> QED
        BY <1>4, <2>1, <3>6
    <2> QED
      BY <2>2, <2>3
  <1>9. CASE RestrictSource
    <2>1. stage = "restrict" /\ UNCHANGED <<project, caller, authz>>
      BY <1>9, Zenon DEF RestrictSource
    <2>2. planned' = <<>> \/ UNCHANGED planned
      BY <1>9, Zenon DEF RestrictSource, Fail
    <2> QED
      BY <1>2, <1>3, <1>4, <2>1, <2>2
  <1>10. CASE Compose
    <2>1. stage = "compose" /\ UNCHANGED <<project, caller, authz, planned>>
      BY <1>10, Zenon DEF Compose
    <2> QED
      BY <1>3, <1>4, <2>1
  <1>11. CASE UNCHANGED vars
    <2>1. UNCHANGED <<project, caller, authz, planned, stage, answer>>
      BY <1>11 DEF vars
    <2> QED
      BY <1>1, <1>3, <2>1 DEF ScopeInv
  <1> QED
    BY <1>5, <1>6, <1>7, <1>8, <1>9, <1>10, <1>11 DEF Next

LEMMA ScopeHolds == ScopeInv => ScansAreScoped
  <1> SUFFICES ASSUME ScopeInv, Served PROVE ScansAreScoped
    BY DEF ScansAreScoped, NamesAreJoined, EveryScanIsScoped
  <1>1. Identified
    BY DEF ScopeInv, Served
  <1>2. ASSUME NEW leaf \in ServedLeaves
        PROVE  NamesJoined(leaf) /\ LeafScoped(project, caller, authz, leaf)
    BY DEF ServedLeaves, ScopeInv, PlannedInv
  <1>3. NamesAreJoined
    BY <1>2 DEF NamesAreJoined
  <1>4. ASSUME project.tenancy # NoPolicy, ~authz.unscoped,
               ~(caller.tenants = {} /\ project.tenancy.missing = "allow_unscoped"),
               NEW leaf \in ServedLeaves
        PROVE  /\ \A a \in leaf.scans : ScanScoped(project, caller, leaf.owner, leaf.preds, a)
               /\ \A b \in leaf.branches : DeclaredAlike(project, leaf, b) =>
                    \A a \in b.scans : ScanScoped(project, caller, b.owner, b.preds, a)
    <2>1. caller.tenants # {}
      BY <1>1, <1>4 DEF Identified
    <2> QED
      BY <1>2, <1>4, <2>1 DEF LeafScoped
  <1> QED
    BY <1>3, <1>4 DEF ScansAreScoped, EveryScanIsScoped

\* What compile() serves joins the aliases its grouping, user filters and tenant predicates
\* name, and every alias it scans is shared or carries the caller's tenant predicate, in
\* the leaves and in the finality branches of a realization declared like its owner: for
\* every set of accepted projects, queries and callers, however deep the joins and the
\* nesting of metrics (pipeline.py, leaf.py, joins.py, _helpers.py).
THEOREM ScansStayScoped == Spec => []ScansAreScoped
  BY ScopeInit, ScopeStep, ScopeHolds, PTL DEF Spec
-----------------------------------------------------------------------------
(* The rows of the leaves                                                   *)

\* The leaves planned for a binding
Kept(p, b, leaves) ==
    /\ [i \in DOMAIN leaves |-> PopulationsIn(leaves[i])] = Populations(p, b)
    /\ \A leaf \in Range(leaves) :
         CountsOnce(p, leaf) /\ BranchesFrom(p, leaf) /\ (leaf.fusable => NamedMeasure(p, leaf))

LEMMA PlansKept ==
    ASSUME NEW p, InShape(p), Accepted(p), NEW who, NEW policy, NEW q, NEW name, NEW b,
           b = ResolveMetric(p, name), b.is = "binding",
           NEW asks, asks = PlanMetric(p, q, NoEnclosing, b, name),
           \A i \in DOMAIN asks : PlanLeaf(p, who, policy, asks[i]).why = ""
    PROVE  IsSeq(LeavesOf(p, who, policy, asks)) /\ Kept(p, b, LeavesOf(p, who, policy, asks))
  <1> DEFINE leaves == LeavesOf(p, who, policy, asks)
  <1>1. AllAsked(p, asks)
    BY MetricAsks
  <1>2. Len(asks) \in Nat /\ DOMAIN asks = 1..Len(asks)
    BY <1>1, SeqFacts DEF AllAsked
  <1>3. ASSUME NEW i \in DOMAIN asks
        PROVE  /\ asks[i].why = "" /\ Asked(p, asks[i])
               /\ AnswersAsked(p, asks[i], PlanLeaf(p, who, policy, asks[i]).leaf)
    <2>1. Asked(p, asks[i])
      BY <1>1 DEF AllAsked, Range
    <2> QED
      BY <2>1, PlannedRows, ZenonT(60)
  <1>4. DOMAIN leaves = DOMAIN asks /\ \A i \in DOMAIN asks : leaves[i] = PlanLeaf(p, who, policy, asks[i]).leaf
    BY DEF LeavesOf
  <1>5. leaves = [i \in 1..Len(asks) |-> leaves[i]]
    BY <1>2 DEF LeavesOf
  <1>6. ASSUME NEW ask \in Range(asks) PROVE ask.why = ""
    <2>1. PICK i \in DOMAIN asks : ask = asks[i]
      BY Zenon DEF Range
    <2>2. asks[i].why = ""
      BY <1>3, Zenon
    <2> QED
      BY <2>1, <2>2, Zenon
  <1>7. Populations(p, b) = [i \in DOMAIN asks |-> AskPops(asks[i])]
    <2>1. AskedUnder(p, b, asks)
      BY <1>6, MetricPopulations
    <2> QED
      BY <2>1 DEF AskedUnder
  <1> HIDE DEF leaves
  <1>8. [i \in DOMAIN leaves |-> PopulationsIn(leaves[i])] = Populations(p, b)
    BY <1>3, <1>4, <1>7, ZenonT(60) DEF AnswersAsked
  <1>9. ASSUME NEW leaf \in Range(leaves)
        PROVE  CountsOnce(p, leaf) /\ BranchesFrom(p, leaf) /\ (leaf.fusable => NamedMeasure(p, leaf))
    <2>1. PICK i \in DOMAIN asks : leaf = PlanLeaf(p, who, policy, asks[i]).leaf
      BY <1>4, ZenonT(60) DEF Range
    <2>2. Answers(p, asks[i].spec, leaf) /\ (asks[i].spec.fusable => NamedMeasure(p, asks[i].spec))
      BY <1>3, <2>1 DEF Asked, AnswersAsked
    <2> QED
      BY <2>2 DEF Answers, NamedMeasure
  <1>10. IsSeq(leaves)
    BY <1>2, <1>5, SeqOver
  <1> QED
    BY <1>8, <1>9, <1>10 DEF Kept, leaves

\* What is compiled: an accepted project, and a list of metrics
AskedFor ==
    /\ Accepted(project) /\ InShape(project)
    /\ Len(query.metrics) \in Nat /\ query.metrics = [k \in 1..Len(query.metrics) |-> query.metrics[k]]

\* Every queried name is resolved
AllBound ==
    /\ IsSeq(bound) /\ DOMAIN bound = DOMAIN query.metrics
    /\ \A k \in DOMAIN bound : bound[k] = ResolveMetric(project, query.metrics[k]) /\ bound[k].is = "binding"

PlannedKept ==
    /\ IsSeqs(planned)
    /\ \A k \in DOMAIN planned : Kept(project, bound[k], planned[k])

\* The inductive invariant
RowsInv ==
    /\ AskedFor
    /\ PlannedKept
    /\ stage \in {"principal", "resolve", "enforce"} => planned = <<>>
    /\ stage \in {"enforce", "plan", "restrict", "compose"} => AllBound
    /\ stage = "enforce" => Len(bound) > 0
    /\ stage = "plan" => Len(planned) < Len(bound)
    /\ stage = "done" => answer.selects = Fuse(FlattenSeq(planned))

LEMMA NothingPlanned == planned = <<>> => PlannedKept
  BY EmptyFacts DEF PlannedKept, IsSeqs

LEMMA RowsInit == Init => RowsInv
  <1> SUFFICES ASSUME Init PROVE RowsInv
    OBVIOUS
  <1>1. PICK r \in Requests : Accepted(r[1]) /\ project = r[1] /\ query \in r[2]
    BY Zenon DEF Init
  <1>2. AskedFor
    BY <1>1, RequestAssumption, Zenon DEF AskedFor
  <1>3. planned = <<>> /\ stage = "principal"
    BY DEF Init
  <1> QED
    BY <1>2, <1>3, NothingPlanned DEF RowsInv

\* A refusal drops the plan
Dropped == planned' = <<>> /\ stage' = "done" /\ answer'.selects = <<>>

LEMMA DroppedKept ==
    ASSUME RowsInv, UNCHANGED <<project, query>>, Dropped
    PROVE  RowsInv'
  <1>1. AskedFor'
    BY DEF RowsInv, AskedFor
  <1>2. PlannedKept'
    BY EmptyFacts DEF PlannedKept, IsSeqs, Dropped
  <1>3. (answer.selects = Fuse(FlattenSeq(planned)))'
    BY FuseNothing DEF Dropped
  <1> QED
    BY <1>1, <1>2, <1>3 DEF RowsInv, Dropped

LEMMA FailDrops ==
    ASSUME NEW CONSTANT why, Fail(why)
    PROVE  Dropped
  BY DEF Fail, NoAnswer, Dropped

\* ResolveMetrics binds every queried name, or refuses.
LEMMA ResolvesAll ==
    ASSUME AskedFor, ResolveMetrics
    PROVE  /\ stage = "resolve" /\ UNCHANGED <<project, query>>
           /\ Dropped \/ (stage' = "enforce" /\ UNCHANGED <<planned, answer>> /\ AllBound' /\ Len(bound') > 0)
  <1> DEFINE names == query.metrics
             result == [k \in DOMAIN names |->
                          IF Allowed(authz.metrics, names[k]) THEN ResolveMetric(project, names[k])
                          ELSE Unresolved(names[k])]
             every(is) == \A k \in DOMAIN names : result[k].is # is
  <1>1. stage = "resolve" /\ UNCHANGED <<project, query>>
    BY Zenon DEF ResolveMetrics
  <1>2. \/ Fail("unresolved") \/ Fail("ambiguous") \/ Fail("unreachable")
        \/ /\ names # <<>> /\ every("unresolved") /\ every("ambiguous")
           /\ stage' = "enforce" /\ bound' = result /\ UNCHANGED <<planned, answer>>
    BY Zenon DEF ResolveMetrics
  <1>3. CASE Fail("unresolved") \/ Fail("ambiguous") \/ Fail("unreachable")
    BY <1>1, <1>3, FailDrops
  <1>4. CASE /\ names # <<>> /\ every("unresolved") /\ every("ambiguous")
             /\ stage' = "enforce" /\ bound' = result /\ UNCHANGED <<planned, answer>>
    <2>1. Len(names) \in Nat /\ names = [k \in 1..Len(names) |-> names[k]]
      BY DEF AskedFor
    <2>2. IsSeq(names)
      BY <2>1, SeqOver
    <2>3. DOMAIN names = 1..Len(names)
      BY <2>2, SeqFacts
    <2>4. Len(names) > 0
      <3>1. Len(names) = 0 => names = <<>>
        BY <2>2 DEF IsSeq
      <3> QED
        BY <1>4, <2>1, <3>1
    <2>5. ASSUME NEW k \in DOMAIN names
          PROVE  result[k] = ResolveMetric(project, names[k]) /\ result[k].is = "binding"
      <3>1. result[k].is # "unresolved" /\ result[k].is # "ambiguous"
        BY <1>4
      <3>2. result[k] = IF Allowed(authz.metrics, names[k]) THEN ResolveMetric(project, names[k])
                        ELSE Unresolved(names[k])
        OBVIOUS
      <3>3. Unresolved(names[k]).is = "unresolved"
        BY DEF Unresolved
      <3>4. ResolveMetric(project, names[k]).is \in Outcomes
        BY ResolveEnds DEF AskedFor
      <3> HIDE DEF result
      <3> QED
        BY <3>1, <3>2, <3>3, <3>4 DEF Outcomes
    <2>6. DOMAIN result = DOMAIN names /\ result = [k \in 1..Len(names) |-> result[k]]
      BY <2>3
    <2> HIDE DEF result
    <2>7. IsSeq(result) /\ Len(result) = Len(names)
      BY <2>1, <2>6, SeqOver
    <2>8. AllBound'
      <3>1. bound' = result /\ query' = query /\ project' = project
        BY <1>1, <1>4
      <3> QED
        BY <2>5, <2>6, <2>7, <3>1 DEF AllBound
    <2> QED
      BY <1>1, <1>4, <2>4, <2>7, <2>8
  <1> QED
    BY <1>2, <1>3, <1>4
\* A step that leaves the plan alone
LEMMA SamePlan ==
    ASSUME RowsInv, UNCHANGED <<project, query, bound, planned>>,
           stage' \in {"restrict", "compose"}, stage \in {"restrict", "compose"}
    PROVE  RowsInv'
  <1>1. AskedFor' /\ PlannedKept'
    BY DEF RowsInv, AskedFor, PlannedKept
  <1>2. AllBound'
    BY DEF RowsInv, AllBound
  <1> QED
    BY <1>1, <1>2 DEF RowsInv

LEMMA RowsStep == RowsInv /\ [Next]_vars => RowsInv'
  <1> SUFFICES ASSUME RowsInv, [Next]_vars PROVE RowsInv'
    OBVIOUS
  <1>1. CASE BindPrincipal
    <2>1. /\ stage = "principal" /\ UNCHANGED <<project, query, bound>>
          /\ Fail("tenant_unresolved") \/ (stage' = "resolve" /\ UNCHANGED <<planned, answer>>)
      BY <1>1, Zenon DEF BindPrincipal
    <2>2. CASE Fail("tenant_unresolved")
      BY <2>1, <2>2, FailDrops, DroppedKept
    <2>3. CASE stage' = "resolve" /\ UNCHANGED <<planned, answer>>
      <3>1. AskedFor' /\ PlannedKept'
        BY <2>1, <2>3 DEF RowsInv, AskedFor, PlannedKept
      <3>2. planned' = <<>>
        BY <2>1, <2>3 DEF RowsInv
      <3> QED
        BY <2>3, <3>1, <3>2 DEF RowsInv
    <2> QED
      BY <2>1, <2>2, <2>3
  <1>2. CASE ResolveMetrics
    <2>1. AskedFor
      BY DEF RowsInv
    <2>2. /\ stage = "resolve" /\ UNCHANGED <<project, query>>
          /\ Dropped \/ (stage' = "enforce" /\ UNCHANGED <<planned, answer>> /\ AllBound' /\ Len(bound') > 0)
      BY <1>2, <2>1, ResolvesAll
    <2>3. CASE Dropped
      BY <2>2, <2>3, DroppedKept
    <2>4. CASE stage' = "enforce" /\ UNCHANGED <<planned, answer>> /\ AllBound' /\ Len(bound') > 0
      <3>1. planned' = <<>>
        BY <2>2, <2>4 DEF RowsInv
      <3>2. AskedFor'
        BY <2>1, <2>2 DEF AskedFor
      <3>3. PlannedKept'
        BY <3>1, EmptyFacts DEF PlannedKept, IsSeqs
      <3> QED
        BY <2>4, <3>1, <3>2, <3>3 DEF RowsInv
    <2> QED
      BY <2>2, <2>3, <2>4
  <1>3. CASE Enforce
    <2>1. /\ stage = "enforce" /\ UNCHANGED <<project, query, bound>>
          /\ Fail("blocked") \/ Fail("ambiguous") \/ (stage' = "plan" /\ UNCHANGED <<planned, answer>>)
      BY <1>3, Zenon DEF Enforce
    <2>2. CASE Fail("blocked") \/ Fail("ambiguous")
      BY <2>1, <2>2, FailDrops, DroppedKept
    <2>3. CASE stage' = "plan" /\ UNCHANGED <<planned, answer>>
      <3>1. AskedFor' /\ PlannedKept' /\ AllBound'
        BY <2>1, <2>3 DEF RowsInv, AskedFor, PlannedKept, AllBound
      <3>2. planned' = <<>> /\ bound' = bound /\ Len(bound) > 0 /\ IsSeq(bound)
        BY <2>1, <2>3 DEF RowsInv, AllBound
      <3>3. Len(planned') < Len(bound')
        BY <3>2, EmptyFacts, SeqFacts
      <3> QED
        BY <2>3, <3>1, <3>3 DEF RowsInv
    <2> QED
      BY <2>1, <2>2, <2>3
  <1>4. CASE PlanNext
    <2>1. stage = "plan" /\ UNCHANGED <<project, query, caller, authz, bound>>
      BY <1>4, Zenon DEF PlanNext
    <2> DEFINE asks == NextAsks
               leaves == LeavesOf(project, caller, authz, asks)
               next == Len(planned) + 1
    <2>2. \/ Dropped
          \/ /\ \A i \in DOMAIN asks : PlanLeaf(project, caller, authz, asks[i]).why = ""
             /\ planned' = Append(planned, leaves)
             /\ stage' = (IF Len(planned') = Len(bound) THEN "restrict" ELSE "plan")
      BY <1>4, PlansOne DEF Dropped
    <2>3. CASE Dropped
      BY <2>1, <2>3, DroppedKept
    <2>4. CASE /\ \A i \in DOMAIN asks : PlanLeaf(project, caller, authz, asks[i]).why = ""
               /\ planned' = Append(planned, leaves)
               /\ stage' = (IF Len(planned') = Len(bound) THEN "restrict" ELSE "plan")
      <3>1. /\ AllBound /\ AskedFor /\ Len(planned) < Len(bound)
            /\ IsSeqs(planned) /\ \A k \in DOMAIN planned : Kept(project, bound[k], planned[k])
        BY <2>1 DEF RowsInv, PlannedKept
      <3>2. /\ Len(planned) \in Nat /\ DOMAIN planned = 1..Len(planned) /\ IsSeq(planned)
            /\ Len(bound) \in Nat /\ DOMAIN bound = 1..Len(bound)
        BY <3>1, SeqFacts DEF IsSeqs, AllBound
      <3>3. next \in DOMAIN bound
        BY <3>1, <3>2
      <3>4. bound[next] = ResolveMetric(project, query.metrics[next]) /\ bound[next].is = "binding"
        BY <3>1, <3>3 DEF AllBound
      <3>5. asks = PlanMetric(project, query, NoEnclosing, bound[next], query.metrics[next])
        BY DEF NextAsks, Asks
      <3>6. InShape(project) /\ Accepted(project)
        BY <3>1 DEF AskedFor
      <3> HIDE DEF asks, next
      <3>7. IsSeq(leaves) /\ Kept(project, bound[next], leaves)
        BY <2>4, <3>4, <3>5, <3>6, PlansKept
      <3> HIDE DEF leaves
      <3>8. /\ IsSeq(planned') /\ Len(planned') = next /\ DOMAIN planned' = 1..next
            /\ planned'[next] = leaves /\ \A k \in 1..Len(planned) : planned'[k] = planned[k]
        <4> DEFINE longer == Append(planned, leaves)
        <4>1. /\ IsSeq(longer) /\ Len(longer) = next /\ DOMAIN longer = 1..next
              /\ longer[next] = leaves /\ \A k \in 1..Len(planned) : longer[k] = planned[k]
          BY <3>2, AppendFacts DEF next
        <4>2. planned' = longer
          BY <2>4
        <4> HIDE DEF longer
        <4> QED
          BY <4>1, <4>2
      <3>9. ASSUME NEW k \in DOMAIN planned' PROVE IsSeq(planned'[k]) /\ Kept(project, bound[k], planned'[k])
        <4>1. CASE k = next
          BY <3>7, <3>8, <4>1
        <4>2. CASE k # next
          <5>1. k \in DOMAIN planned /\ planned'[k] = planned[k]
            BY <3>2, <3>8, <4>2 DEF next
          <5> QED
            BY <3>1, <5>1 DEF IsSeqs
        <4> QED
          BY <4>1, <4>2
      <3>10. PlannedKept'
        <4>1. project' = project /\ bound' = bound
          BY <2>1
        <4>2. IsSeqs(planned')
          BY <3>8, <3>9 DEF IsSeqs
        <4>3. \A k \in DOMAIN planned' : Kept(project', bound'[k], planned'[k])
          BY <3>9, <4>1
        <4> QED
          BY <4>2, <4>3 DEF PlannedKept
      <3>11. AskedFor' /\ AllBound'
        BY <2>1, <3>1 DEF AskedFor, AllBound
      <3>12. Len(planned') <= Len(bound') /\ Len(planned') \in Nat /\ Len(bound') \in Nat
        BY <2>1, <3>1, <3>2, <3>8 DEF next
      <3>13. stage' \in {"restrict", "plan"} /\ (stage' = "plan" => Len(planned') # Len(bound'))
        BY <2>1, <2>4
      <3> QED
        BY <3>10, <3>11, <3>12, <3>13 DEF RowsInv
    <2> QED
      BY <2>2, <2>3, <2>4
  <1>5. CASE RestrictSource
    <2>1. /\ stage = "restrict" /\ UNCHANGED <<project, query, bound>>
          /\ Fail("blocked") \/ (stage' = "compose" /\ UNCHANGED <<planned, answer>>)
      BY <1>5, Zenon DEF RestrictSource
    <2>2. CASE Fail("blocked")
      BY <2>1, <2>2, FailDrops, DroppedKept
    <2>3. CASE stage' = "compose" /\ UNCHANGED <<planned, answer>>
      BY <2>1, <2>3, SamePlan
    <2> QED
      BY <2>1, <2>2, <2>3
  <1>6. CASE Compose
    <2>1. stage' = "done" /\ UNCHANGED <<project, query, bound, planned>>
      BY <1>6, Zenon DEF Compose
    <2>2. answer' = [why |-> "", selects |-> Fuse(FlattenSeq(planned)),
                     probes |-> Probes(project, query, FlattenSeq(planned))]
      BY <1>6, Zenon DEF Compose
    <2>3. answer'.selects = Fuse(FlattenSeq(planned))
      BY <2>2
    <2>4. AskedFor' /\ PlannedKept'
      BY <2>1 DEF RowsInv, AskedFor, PlannedKept
    <2>5. answer'.selects = Fuse(FlattenSeq(planned'))
      BY <2>1, <2>3
    <2> QED
      BY <2>1, <2>4, <2>5 DEF RowsInv
  <1>7. CASE UNCHANGED vars
    <2>1. UNCHANGED <<project, query, stage, bound, planned, answer>>
      BY <1>7 DEF vars
    <2> QED
      BY <2>1 DEF RowsInv, AskedFor, PlannedKept, AllBound
  <1> QED
    BY <1>1, <1>2, <1>3, <1>4, <1>5, <1>6, <1>7 DEF Next

LEMMA RowsHold == RowsInv => LeavesKeepTheirRows
  <1> SUFFICES ASSUME RowsInv, Served PROVE LeavesKeepTheirRows
    BY DEF LeavesKeepTheirRows, PopulationsReachTheirLeaves, FusionKeepsEachLeaf, NothingCountedTwice
  <1> DEFINE flat == FlattenSeq(planned)
  <1>1. /\ Accepted(project) /\ IsSeqs(planned) /\ answer.selects = Fuse(flat)
        /\ \A k \in DOMAIN planned : Kept(project, bound[k], planned[k])
    BY DEF RowsInv, Served, AskedFor, PlannedKept
  <1>2. PopulationsReachTheirLeaves
    BY <1>1 DEF PopulationsReachTheirLeaves, Kept
  <1>3. ASSUME NEW leaf \in ServedLeaves
        PROVE  /\ CountsOnce(project, leaf) /\ BranchesFrom(project, leaf)
               /\ leaf.fusable => NamedMeasure(project, leaf)
    BY <1>1 DEF ServedLeaves, Kept
  <1>4. NothingCountedTwice
    BY <1>3, Zenon DEF NothingCountedTwice, CountsOnce, Fans, AdditiveOn
  <1>5. IsSeq(flat) /\ Range(flat) = ServedLeaves
    BY <1>1, FlattenFacts DEF ServedLeaves
  <1>6. FusionKeepsEachLeaf
    <2> HIDE DEF flat
    <2>1. ASSUME NEW i \in DOMAIN flat
          PROVE  /\ answer.selects[i].measure = flat[i].measure /\ Alike(answer.selects[i].select, flat[i])
                 /\ RulesTellApart(project) => answer.selects[i].select.branches = flat[i].branches
      BY <1>1, <1>3, <1>5, FusedKeeps
    <2> QED
      BY <2>1 DEF FusionKeepsEachLeaf, Alike, flat
  <1> QED
    BY <1>2, <1>4, <1>6 DEF LeavesKeepTheirRows

\* What compile() serves aggregates the rows its metrics mean: every leaf is narrowed by
\* the populations of the metrics around it and by no other, can be read off the select it
\* shares (its finality branches too, where the key tells the rules apart), and aggregates
\* no row twice over a fanning join, its own or a branch's, unless it is opaque and only
\* looks rows up: for every set of accepted projects, queries and callers, however deep
\* the metrics are nested (pipeline.py, leaf.py, compose.py).
THEOREM LeavesStayKept == Spec => []LeavesKeepTheirRows
  BY RowsInit, RowsStep, RowsHold, PTL DEF Spec
==============================================================================
