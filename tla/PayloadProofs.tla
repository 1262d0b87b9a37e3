--------------------------- MODULE PayloadProofs ---------------------------
(***************************************************************************)
(* Theorems about Payload, for any keys, expressions and bounds. What the  *)
(* code finds out field by field and map by map is shown to depend on the  *)
(* leaves below a path alone (SomewhereBelow), and a field that no other   *)
(* clashes with to be in whatever viper reads (AloneIsRead).               *)
(***************************************************************************)
EXTENDS Payload, TLAPS, WellFoundedInduction

-----------------------------------------------------------------------------
(* Paths.                                                                  *)

Below(q, p) == Len(p) <= Len(q) /\ SubSeq(q, 1, Len(p)) = p

LEMMA PathsAreSequences ==
  ASSUME NEW p \in Paths
  PROVE  p \in Seq(Keys) /\ Len(p) \in 1..Depth /\ p # <<>>
<1>1. PICK n \in 1..Depth : p \in [1..n -> Keys]
  BY DEF Paths
<1>2. n \in Nat
  BY <1>1, DepthAssumption
<1>3. p \in Seq(Keys) /\ Len(p) = n
  BY <1>1, <1>2
<1>4. QED
  BY <1>1, <1>3

LEMMA SequencesArePaths ==
  ASSUME NEW p \in Seq(Keys), Len(p) \in 1..Depth
  PROVE  p \in Paths
BY DEF Paths

LEMMA BelowSelf == ASSUME NEW p \in Seq(Keys) PROVE Below(p, p)
BY DEF Below

LEMMA BelowTop == ASSUME NEW p \in Seq(Keys) PROVE Below(p, <<>>)
BY DEF Below

LEMMA BelowTransitive ==
  ASSUME NEW p \in Seq(Keys), NEW q \in Seq(Keys), NEW r \in Seq(Keys), Below(q, p), Below(r, q)
  PROVE  Below(r, p)
BY DEF Below

LEMMA BelowField ==
  ASSUME NEW p \in Seq(Keys), NEW k \in Keys PROVE Below(Append(p, k), p)
BY DEF Below

(* Whatever lies strictly below a path lies below one of its fields.       *)
LEMMA StrictlyBelow ==
  ASSUME NEW p \in Seq(Keys), NEW q \in Seq(Keys), Below(q, p), q # p
  PROVE  /\ Len(p) < Len(q)
         /\ q[Len(p) + 1] \in Keys
         /\ Append(p, q[Len(p) + 1]) = SubSeq(q, 1, Len(p) + 1)
         /\ Below(q, Append(p, q[Len(p) + 1]))
<1>1. Len(p) < Len(q)
  BY DEF Below
<1>2. q[Len(p) + 1] \in Keys
  BY <1>1
<1>3. Append(p, q[Len(p) + 1]) = SubSeq(q, 1, Len(p) + 1)
  BY <1>1, <1>2 DEF Below
<1>4. QED
  BY <1>1, <1>2, <1>3 DEF Below
-----------------------------------------------------------------------------
(* The traversal.                                                          *)

Hit(t, hits, p) == \E q \in Leaves(t) \cap hits : Below(q, p)

LEMMA TreePaths ==
  ASSUME NEW t, NEW leaves, IsTree(t, leaves), NEW p \in DOMAIN t
  PROVE  p \in Seq(Keys) /\ p \in Paths /\ Len(p) \in 1..Depth /\ p # <<>>
BY PathsAreSequences DEF IsTree

(* Only maps have something below them.                                    *)
LEMMA LeafIsLast ==
  ASSUME NEW t, NEW leaves, IsTree(t, leaves), NEW p \in DOMAIN t, NEW q \in DOMAIN t,
         Below(q, p), q # p
  PROVE  t[p] = Map
<1>1. p \in Seq(Keys) /\ q \in Seq(Keys) /\ Len(p) \in 1..Depth /\ Len(q) \in 1..Depth
  BY TreePaths
<1>2. Len(p) < Len(q)
  BY <1>1, StrictlyBelow
<1>3. Len(p) \in 1..(Len(q) - 1) /\ p = SubSeq(q, 1, Len(p))
  BY <1>1, <1>2, DepthAssumption DEF Below
<1>4. QED
  BY <1>3 DEF IsTree, Above

LEMMA HitIsMet ==
  ASSUME NEW t, NEW leaves, IsTree(t, leaves), NEW hits,
         NEW p \in DOMAIN t \cup {<<>>}
  PROVE  Hit(t, hits, p) <=>
           IF p = <<>> \/ p \notin Leaves(t)
           THEN \E k \in Keys : Append(p, k) \in DOMAIN t /\ Hit(t, hits, Append(p, k))
           ELSE p \in hits
<1>1. p \in Seq(Keys)
  <2>1. CASE p \in DOMAIN t
    BY <2>1, TreePaths
  <2>2. CASE p = <<>>
    BY <2>2
  <2>3. QED
    BY <2>1, <2>2
<1>2. CASE p = <<>> \/ p \notin Leaves(t)
  <2>1. ASSUME NEW q \in Leaves(t) \cap hits, Below(q, p)
        PROVE  \E k \in Keys : Append(p, k) \in DOMAIN t /\ Hit(t, hits, Append(p, k))
    <3>1. q \in DOMAIN t /\ q \in Seq(Keys) /\ Len(q) \in 1..Depth /\ q # <<>> /\ q # p
      BY <1>2, <2>1, TreePaths DEF Leaves
    <3> DEFINE k == q[Len(p) + 1]
    <3>2. /\ Len(p) < Len(q) /\ k \in Keys
          /\ Append(p, k) = SubSeq(q, 1, Len(p) + 1) /\ Below(q, Append(p, k))
      BY <1>1, <2>1, <3>1, StrictlyBelow
    <3>3. Append(p, k) \in DOMAIN t
      <4>1. Len(p) \in Nat /\ Len(q) \in Nat
        BY <1>1, <3>1
      <4>2. CASE Len(p) + 1 = Len(q)
        <5>1. SubSeq(q, 1, Len(q)) = q
          BY <3>1
        <5>2. QED
          BY <3>1, <3>2, <4>2, <5>1
      <4>3. CASE Len(p) + 1 # Len(q)
        <5>1. Len(p) + 1 \in 1..(Len(q) - 1)
          BY <3>2, <4>1, <4>3
        <5>2. QED
          BY <3>1, <3>2, <5>1 DEF IsTree, Above
      <4>4. QED
        BY <4>2, <4>3
    <3>4. QED
      BY <3>2, <3>3 DEF Hit
  <2>2. ASSUME NEW k \in Keys, Append(p, k) \in DOMAIN t, Hit(t, hits, Append(p, k))
        PROVE  Hit(t, hits, p)
    <3>1. PICK q \in Leaves(t) \cap hits : Below(q, Append(p, k))
      BY <2>2 DEF Hit
    <3>2. q \in Seq(Keys)
      BY TreePaths DEF Leaves
    <3>3. Append(p, k) \in Seq(Keys)
      BY <1>1
    <3>4. Below(q, p)
      BY <1>1, <3>1, <3>2, <3>3, BelowField, BelowTransitive
    <3>5. QED
      BY <3>1, <3>4 DEF Hit
  <2>3. QED
    BY <1>2, <2>1, <2>2 DEF Hit
<1>3. CASE ~(p = <<>> \/ p \notin Leaves(t))
  <2>1. p \in DOMAIN t /\ p \in Leaves(t)
    BY <1>3
  <2>2. ASSUME NEW q \in Leaves(t) \cap hits, Below(q, p) PROVE q = p
    BY <2>1, <2>2, LeafIsLast DEF Leaves
  <2>3. Below(p, p)
    BY <1>1, BelowSelf
  <2>4. QED
    BY <1>3, <2>1, <2>2, <2>3 DEF Hit
<1>4. QED
  BY <1>2, <1>3

(* Hence the recursion is well defined ...                                 *)
LEMMA SomewhereDescends ==
  ASSUME NEW t, NEW leaves, IsTree(t, leaves), NEW hits
  PROVE  Somewhere(t, hits) =
           [p \in DOMAIN t \cup {<<>>} |->
              IF p = <<>> \/ p \notin Leaves(t)
              THEN \E k \in Keys : Append(p, k) \in DOMAIN t /\ Somewhere(t, hits)[Append(p, k)]
              ELSE p \in hits]
<1> DEFINE at == [p \in DOMAIN t \cup {<<>>} |-> Hit(t, hits, p)]
<1>1. at = [p \in DOMAIN t \cup {<<>>} |->
              IF p = <<>> \/ p \notin Leaves(t)
              THEN \E k \in Keys : Append(p, k) \in DOMAIN t /\ at[Append(p, k)]
              ELSE p \in hits]
  <2>1. ASSUME NEW p \in DOMAIN t \cup {<<>>}
        PROVE  Hit(t, hits, p) =
             (IF p = <<>> \/ p \notin Leaves(t)
              THEN \E k \in Keys : Append(p, k) \in DOMAIN t /\ Hit(t, hits, Append(p, k))
              ELSE p \in hits)
    <3> DEFINE met == IF p = <<>> \/ p \notin Leaves(t)
              THEN \E k \in Keys : Append(p, k) \in DOMAIN t /\ Hit(t, hits, Append(p, k))
              ELSE p \in hits
    <3>1. Hit(t, hits, p) \in BOOLEAN
      BY DEF Hit
    <3>2. met \in BOOLEAN
      <4>1. CASE p = <<>> \/ p \notin Leaves(t)
        BY <4>1
      <4>2. CASE ~(p = <<>> \/ p \notin Leaves(t))
        BY <4>2
      <4>3. QED
        BY <4>1, <4>2
    <3>3. Hit(t, hits, p) <=> met
      BY HitIsMet
    <3> HIDE DEF met
    <3>4. Hit(t, hits, p) = met
      BY <3>1, <3>2, <3>3
    <3>5. QED
      BY <3>4 DEF met
  <2>2. \A p \in DOMAIN t \cup {<<>>} :
           (\E k \in Keys : Append(p, k) \in DOMAIN t /\ at[Append(p, k)])
           = (\E k \in Keys : Append(p, k) \in DOMAIN t /\ Hit(t, hits, Append(p, k)))
    OBVIOUS
  <2>3. QED
    BY <2>1, <2>2
<1>2. QED
  <2> HIDE DEF at
  <2>1. QED
    BY <1>1 DEF Somewhere

(* ... and finds the leaves below: two paths that differ in what has been  *)
(* found would have a longest one among them.                              *)
LEMMA Longest ==
  ASSUME NEW S, S # {}, S \subseteq Seq(Keys), \A p \in S : Len(p) <= Depth
  PROVE  \E p \in S : \A q \in S : Len(q) <= Len(p)
<1> DEFINE R == OpToRel(<, Nat)
           U == {Depth - Len(p) : p \in S}
<1>1. U \subseteq Nat /\ U # {}
  BY DepthAssumption
<1>2. \E x \in U : \A y \in U : ~(<<y, x>> \in R)
  <2> HIDE DEF R, U
  <2>1. IsWellFoundedOn(R, Nat)
    BY NatLessThanWellFounded DEF R
  <2>2. QED
    BY <1>1, <2>1, WFMin
<1>3. \A x, y \in Nat : y < x => <<y, x>> \in R
  BY DEF OpToRel
<1>4. PICK p \in S : \A y \in U : ~(<<y, Depth - Len(p)>> \in R)
  BY <1>2
<1>5. ASSUME NEW q \in S, Len(q) > Len(p) PROVE FALSE
  <2>1. /\ Depth - Len(q) \in U /\ Depth - Len(q) \in Nat /\ Depth - Len(p) \in Nat
        /\ Depth - Len(q) < Depth - Len(p)
    BY <1>1, <1>5, DepthAssumption
  <2>2. QED
    BY <1>3, <1>4, <2>1
<1>6. \A q \in S : Len(q) \in Nat
  OBVIOUS
<1>7. \A q \in S : Len(q) <= Len(p)
  <2> HIDE DEF R, U
  <2>1. QED
    BY <1>5, <1>6
<1>8. QED
  BY <1>7

LEMMA SomewhereBelow ==
  ASSUME NEW t, NEW leaves, IsTree(t, leaves), NEW hits,
         NEW p \in DOMAIN t \cup {<<>>}
  PROVE  Somewhere(t, hits)[p] <=> Hit(t, hits, p)
<1> DEFINE D == DOMAIN t \cup {<<>>}
           at == Somewhere(t, hits)
           wrong == {x \in D : ~(at[x] <=> Hit(t, hits, x))}
<1>1. \A x \in D : x \in Seq(Keys) /\ Len(x) <= Depth
  <2>1. \A x \in DOMAIN t : x \in Seq(Keys) /\ Len(x) <= Depth
    BY TreePaths, DepthAssumption
  <2>2. <<>> \in Seq(Keys) /\ Len(<<>>) <= Depth
    BY DepthAssumption
  <2>3. QED
    BY <2>1, <2>2
<1>2. \A x \in D : at[x] = (IF x = <<>> \/ x \notin Leaves(t)
                            THEN \E k \in Keys : Append(x, k) \in DOMAIN t /\ at[Append(x, k)]
                            ELSE x \in hits)
  <2> HIDE DEF at
  <2>1. at = [x \in D |-> IF x = <<>> \/ x \notin Leaves(t)
                            THEN \E k \in Keys : Append(x, k) \in DOMAIN t /\ at[Append(x, k)]
                            ELSE x \in hits]
    BY SomewhereDescends DEF at
  <2>2. QED
    BY <2>1
<1>3. ASSUME wrong # {} PROVE FALSE
  <2>1. PICK x \in wrong : \A y \in wrong : Len(y) <= Len(x)
    BY <1>1, <1>3, Longest
  <2>2. \A k \in Keys : Len(Append(x, k)) > Len(x)
    BY <1>1, <2>1
  <2>3. \A k \in Keys : Append(x, k) \in DOMAIN t =>
          (at[Append(x, k)] <=> Hit(t, hits, Append(x, k)))
    <3> HIDE DEF at
    <3> SUFFICES ASSUME NEW k \in Keys, Append(x, k) \in DOMAIN t,
                        ~(at[Append(x, k)] <=> Hit(t, hits, Append(x, k)))
                 PROVE  FALSE
      OBVIOUS
    <3>1. Append(x, k) \in wrong
      OBVIOUS
    <3>2. Len(Append(x, k)) \in Nat /\ Len(x) \in Nat
      BY <1>1, <2>1
    <3>3. Len(Append(x, k)) <= Len(x)
      <4> HIDE DEF wrong
      <4>1. QED
        BY <2>1, <3>1
    <3>4. Len(Append(x, k)) > Len(x)
      BY <2>2
    <3>5. QED
      BY <3>2, <3>3, <3>4
  <2>4. Hit(t, hits, x) <=> IF x = <<>> \/ x \notin Leaves(t)
                            THEN \E k \in Keys : Append(x, k) \in DOMAIN t
                                                 /\ Hit(t, hits, Append(x, k))
                            ELSE x \in hits
    BY <2>1, HitIsMet
  <2>5. x \in D /\ ~(at[x] <=> Hit(t, hits, x))
    BY <2>1
  <2> HIDE DEF at, D, wrong
  <2>6. at[x] = (IF x = <<>> \/ x \notin Leaves(t)
                 THEN \E k \in Keys : Append(x, k) \in DOMAIN t /\ at[Append(x, k)]
                 ELSE x \in hits)
    BY <1>2, <2>5
  <2>7. QED
    BY <2>3, <2>4, <2>5, <2>6
<1>4. QED
  BY <1>3

LEMMA SomewhereAtAll ==
  ASSUME NEW t, NEW leaves, IsTree(t, leaves), NEW hits
  PROVE  Somewhere(t, hits)[<<>>] <=> Leaves(t) \cap hits # {}
<1>1. Somewhere(t, hits)[<<>>] <=> Hit(t, hits, <<>>)
  BY SomewhereBelow
<1>2. \A q \in Leaves(t) : Below(q, <<>>)
  BY TreePaths, BelowTop DEF Leaves
<1>3. QED
  BY <1>1, <1>2 DEF Hit

LEMMA SomewhereAtLeaf ==
  ASSUME NEW t, NEW leaves, IsTree(t, leaves), NEW hits, NEW p \in Leaves(t)
  PROVE  Somewhere(t, hits)[p] <=> p \in hits
<1>1. p \in DOMAIN t /\ p # <<>>
  BY TreePaths DEF Leaves
<1>2. QED
  BY <1>1, SomewhereBelow, HitIsMet

(* What is left of a tree when the maps without such a leaf are left out.  *)
LEMMA OnlyKeepsTree ==
  ASSUME NEW t, NEW leaves, IsTree(t, leaves), NEW hits, NEW some,
         \A p \in Leaves(t) \cap hits : t[p] \in some
  PROVE  LET only == Only(t, Somewhere(t, hits))
         IN /\ IsTree(only, some)
            /\ Leaves(only) = Leaves(t) \cap hits
            /\ \A p \in DOMAIN only : p \in DOMAIN t /\ only[p] = t[p]
            /\ \A p \in DOMAIN only : only[p] = Map => \E k \in Keys : Append(p, k) \in DOMAIN only
<1> DEFINE at == Somewhere(t, hits)
           only == Only(t, at)
<1>1. /\ DOMAIN only = {p \in DOMAIN t : at[p]}
      /\ only = [p \in DOMAIN only |-> t[p]]
  BY DEF Only
<1>2. \A p \in DOMAIN t : at[p] <=> Hit(t, hits, p)
  BY SomewhereBelow
<1>3. \A p \in Leaves(t) : at[p] <=> p \in hits
  BY SomewhereAtLeaf
<1> HIDE DEF at, only
<1>4. \A p \in DOMAIN only : p \in DOMAIN t /\ only[p] = t[p]
  BY <1>1
<1>5. Leaves(only) = Leaves(t) \cap hits
  BY <1>1, <1>3, <1>4 DEF Leaves
<1>6. IsTree(only, some)
  <2>1. ASSUME NEW p \in DOMAIN only PROVE only[p] \in some \cup {Map}
    BY <1>4, <1>5 DEF Leaves
  <2>2. DOMAIN only \subseteq Paths
    BY <1>4 DEF IsTree
  <2>3. ASSUME NEW p \in DOMAIN only, NEW n \in 1..(Len(p) - 1)
        PROVE  SubSeq(p, 1, n) \in DOMAIN only /\ only[SubSeq(p, 1, n)] = Map
    <3> DEFINE s == SubSeq(p, 1, n)
    <3>1. p \in DOMAIN t /\ p \in Seq(Keys) /\ Len(p) \in Nat
      <4>1. p \in DOMAIN t
        BY <1>4
      <4>2. p \in Seq(Keys)
        BY <4>1, TreePaths
      <4>3. QED
        BY <4>1, <4>2
    <3>2. s \in DOMAIN t /\ t[s] = Map
      BY <3>1 DEF IsTree, Above
    <3>3. s \in Seq(Keys) /\ Below(p, s)
      BY <3>1 DEF Below
    <3>4. PICK q \in Leaves(t) \cap hits : Below(q, p)
      BY <1>1, <1>2, <3>1 DEF Hit
    <3>5. q \in Seq(Keys)
      BY TreePaths DEF Leaves
    <3> HIDE DEF s
    <3>6. Hit(t, hits, s)
      BY <3>1, <3>3, <3>4, <3>5, BelowTransitive DEF Hit
    <3>7. s \in DOMAIN only
      BY <1>1, <1>2, <3>2, <3>6
    <3>8. QED
      BY <1>4, <3>2, <3>7 DEF s
  <2>4. \A p \in DOMAIN only : \A q \in Above(p) : q \in DOMAIN only /\ only[q] = Map
    BY <2>3 DEF Above
  <2>5. QED
    BY <1>1, <2>1, <2>2, <2>4 DEF IsTree
<1>7. ASSUME NEW p \in DOMAIN only, only[p] = Map
      PROVE  \E k \in Keys : Append(p, k) \in DOMAIN only
  <2>1. p \in DOMAIN t /\ p \notin Leaves(t) /\ Hit(t, hits, p)
    BY <1>1, <1>2, <1>4, <1>7 DEF Leaves
  <2>2. PICK k \in Keys : Append(p, k) \in DOMAIN t /\ Hit(t, hits, Append(p, k))
    BY <2>1, HitIsMet
  <2>3. QED
    BY <1>1, <1>2, <2>2
<1>8. QED
  BY <1>4, <1>5, <1>6, <1>7 DEF at, only

-----------------------------------------------------------------------------
(* What viper reads.                                                       *)

LEMMA LoweredPath ==
  ASSUME NEW p \in Seq(Keys)
  PROVE  /\ Lowered(p) \in Seq(Keys) /\ Len(Lowered(p)) = Len(p)
         /\ \A n \in 1..Len(p) : Lowered(SubSeq(p, 1, n)) = SubSeq(Lowered(p), 1, n)
<1> DEFINE low(k) == [k EXCEPT !.spelling = Lower]
<1>1. \A k \in Keys : low(k) \in Keys
  BY LowerAssumption DEF Keys
<1>2. Lowered(p) = [i \in 1..Len(p) |-> low(p[i])]
  BY DEF Lowered
<1>3. \A n \in 1..Len(p) : Lowered(SubSeq(p, 1, n)) = [i \in 1..n |-> low(SubSeq(p, 1, n)[i])]
  BY DEF Lowered
<1> HIDE DEF low
<1>4. Lowered(p) \in Seq(Keys) /\ Len(Lowered(p)) = Len(p)
  BY <1>1, <1>2
<1>5. ASSUME NEW n \in 1..Len(p) PROVE Lowered(SubSeq(p, 1, n)) = SubSeq(Lowered(p), 1, n)
  <2>1. Lowered(SubSeq(p, 1, n)) = [i \in 1..n |-> low(p[i])]
    BY <1>3
  <2>2. SubSeq(Lowered(p), 1, n) = [i \in 1..n |-> low(p[i])]
    BY <1>2, <1>4
  <2>3. QED
    BY <2>1, <2>2
<1>6. QED
  BY <1>4, <1>5

LEMMA ReadAt ==
  ASSUME NEW d, NEW S \in Survivors(d), NEW p \in S
  PROVE  p \in DOMAIN d /\ Lowered(p) \in DOMAIN Read(d, S) /\ Read(d, S)[Lowered(p)] = d[p]
<1> DEFINE c == CHOOSE q \in S : Lowered(q) = Lowered(p)
<1>1. c \in S /\ Lowered(c) = Lowered(p)
  OBVIOUS
<1>2. S \subseteq DOMAIN d /\ \A x, y \in S : Lowered(x) = Lowered(y) => x = y
  BY DEF Survivors
<1>3. c = p
  BY <1>1, <1>2
<1>4. Lowered(p) \in DOMAIN Read(d, S) /\ Read(d, S)[Lowered(p)] = d[c]
  BY DEF Read
<1>5. QED
  BY <1>2, <1>3, <1>4

LEMMA ReadFrom ==
  ASSUME NEW d, NEW S \in Survivors(d), NEW x \in DOMAIN Read(d, S)
  PROVE  \E p \in S : p \in DOMAIN d /\ Lowered(p) = x /\ Read(d, S)[x] = d[p]
<1>1. PICK p \in S : Lowered(p) = x
  BY DEF Read
<1>2. QED
  BY <1>1, ReadAt

(* It is a map of maps, whose leaves are leaves of the file.               *)
LEMMA ReadTree ==
  ASSUME NEW d, NEW leaves, IsTree(d, leaves), NEW S \in Survivors(d)
  PROVE  IsTree(Read(d, S), leaves)
<1> DEFINE raw == Read(d, S)
<1>1. raw = [x \in DOMAIN raw |-> raw[x]]
  BY DEF Read
<1>2. \A x \in DOMAIN raw : \E p \in S : p \in DOMAIN d /\ Lowered(p) = x /\ raw[x] = d[p]
  BY ReadFrom
<1>3. \A p \in S : Lowered(p) \in DOMAIN raw /\ raw[Lowered(p)] = d[p]
  BY ReadAt
<1> HIDE DEF raw
<1>4. ASSUME NEW x \in DOMAIN raw
      PROVE  /\ raw[x] \in leaves \cup {Map} /\ x \in Paths
             /\ \A y \in Above(x) : y \in DOMAIN raw /\ raw[y] = Map
  <2>1. PICK p \in S : p \in DOMAIN d /\ Lowered(p) = x /\ raw[x] = d[p]
    BY <1>2
  <2>2. p \in Seq(Keys) /\ Len(p) \in 1..Depth
    BY <2>1, TreePaths
  <2>3. raw[x] \in leaves \cup {Map}
    BY <2>1 DEF IsTree
  <2>4. x \in Seq(Keys) /\ Len(x) = Len(p)
    BY <2>1, <2>2, LoweredPath
  <2>5. x \in Paths
    BY <2>2, <2>4, SequencesArePaths
  <2>6. ASSUME NEW n \in 1..(Len(x) - 1)
        PROVE  SubSeq(x, 1, n) \in DOMAIN raw /\ raw[SubSeq(x, 1, n)] = Map
    <3>1. n \in 1..Len(p) /\ n \in 1..(Len(p) - 1)
      BY <2>2, <2>4, DepthAssumption
    <3>2. SubSeq(x, 1, n) = Lowered(SubSeq(p, 1, n))
      BY <2>1, <2>2, <3>1, LoweredPath
    <3>3. SubSeq(p, 1, n) \in Above(p)
      BY <3>1 DEF Above
    <3>4. SubSeq(p, 1, n) \in S /\ d[SubSeq(p, 1, n)] = Map
      BY <2>1, <3>3 DEF Survivors, IsTree
    <3>5. QED
      BY <1>3, <3>2, <3>4
  <2>7. QED
    BY <2>3, <2>5, <2>6 DEF Above
<1>5. QED
  BY <1>1, <1>4 DEF IsTree, raw

LEMMA Shortest ==
  ASSUME NEW T, T # {}, T \subseteq Seq(Keys)
  PROVE  \E p \in T : \A q \in T : ~(Len(q) < Len(p))
<1> DEFINE R == OpToRel(<, Nat)
           U == {Len(p) : p \in T}
<1>1. U \subseteq Nat /\ U # {}
  <2>1. \A p \in T : Len(p) \in Nat
    OBVIOUS
  <2>2. QED
    BY <2>1
<1>2. \E x \in U : \A y \in U : ~(<<y, x>> \in R)
  <2> HIDE DEF R, U
  <2>1. IsWellFoundedOn(R, Nat)
    BY NatLessThanWellFounded DEF R
  <2>2. QED
    BY <1>1, <2>1, WFMin
<1>3. \A x, y \in Nat : y < x => <<y, x>> \in R
  BY DEF OpToRel
<1>4. PICK p \in T : \A y \in U : ~(<<y, Len(p)>> \in R)
  BY <1>2
<1>5. ASSUME NEW q \in T, Len(q) < Len(p) PROVE FALSE
  <2>1. Len(q) \in U /\ Len(q) \in Nat /\ Len(p) \in Nat
    BY <1>1
  <2>2. QED
    BY <1>3, <1>4, <1>5, <2>1
<1>6. QED
  BY <1>5

(* What viper has read has the field, and all the maps around it: the      *)
(* first of these to be missing would have lost to another key.            *)
LEMMA AloneIsRead ==
  ASSUME IsTree(def, Leaf), NEW q \in DOMAIN def, Alone(q), NEW S \in Survivors(def)
  PROVE  q \in S
<1> DEFINE T == {p \in Above(q) \cup {q} : p \notin S}
<1>1. q \in Seq(Keys) /\ Len(q) \in Nat
  BY TreePaths
<1>2. ASSUME NEW p \in Above(q) \cup {q}
      PROVE  /\ p \in Seq(Keys) /\ p \in DOMAIN def
             /\ \A r \in Above(p) : r \in Above(q) /\ Len(r) < Len(p)
  <2>1. CASE p = q
    BY <1>1, <2>1 DEF Above
  <2>2. CASE p \in Above(q)
    <3>1. PICK n \in 1..(Len(q) - 1) : p = SubSeq(q, 1, n)
      BY <2>2 DEF Above
    <3>2. p \in Seq(Keys) /\ Len(p) = n /\ n \in Nat
      BY <1>1, <3>1
    <3>3. ASSUME NEW m \in 1..(n - 1)
          PROVE  SubSeq(p, 1, m) \in Above(q) /\ Len(SubSeq(p, 1, m)) < Len(p)
      <4>1. SubSeq(p, 1, m) = SubSeq(q, 1, m) /\ m \in 1..(Len(q) - 1)
        BY <1>1, <3>1, <3>2
      <4>2. Len(SubSeq(p, 1, m)) = m
        BY <3>2
      <4>3. QED
        BY <3>2, <4>1, <4>2 DEF Above
    <3>4. p \in DOMAIN def
      BY <2>2 DEF IsTree
    <3>5. QED
      BY <3>2, <3>3, <3>4 DEF Above
  <2>3. QED
    BY <2>1, <2>2
<1>3. ASSUME T # {} PROVE FALSE
  <2>1. T \subseteq Seq(Keys)
    BY <1>2
  <2>2. PICK p \in T : \A r \in T : ~(Len(r) < Len(p))
    <3> HIDE DEF T
    <3>1. QED
      BY <1>3, <2>1, Shortest
  <2>3. p \in Above(q) \cup {q} /\ p \notin S
    BY <2>2
  <2>4. Above(p) \subseteq S
    BY <1>2, <2>2, <2>3
  <2>5. PICK r \in S : Lowered(r) = Lowered(p)
    BY <1>2, <2>3, <2>4 DEF Survivors
  <2>6. r \in DOMAIN def
    BY DEF Survivors
  <2>7. QED
    BY <2>3, <2>5, <2>6 DEF Alone
<1>4. QED
  BY <1>3

-----------------------------------------------------------------------------
(* The steps from the file to the payload.                                 *)

LEMMA NoTree == ASSUME NEW leaves PROVE IsTree(<<>>, leaves) /\ DOMAIN <<>> = {}
BY DEF IsTree

LEMMA Validated ==
  ASSUME NEW d, IsTree(d, Leaf)
  PROVE  ValidateMessageDataLeaves(d) <=> OfKind(d, {"nil", "blank"}) = {}
<1>1. OfKind(d, {"nil", "blank"}) \subseteq Leaves(d)
  BY DEF OfKind, Leaves, Map
<1>2. QED
  BY <1>1, SomewhereAtAll DEF ValidateMessageDataLeaves

LEMMA Compilable ==
  ASSUME NEW d, IsTree(d, Leaf)
  PROVE  Refused(d) <=> OfKind(d, {"nil", "blank", "list", "uncompilable"}) # {}
<1>1. OfKind(d, {"nil", "blank", "list", "uncompilable"}) \subseteq Leaves(d)
  BY DEF OfKind, Leaves, Map
<1>2. QED
  BY <1>1, SomewhereAtAll DEF Refused

(* Unmarshalling loses no leaf of a definition without nil.                *)
LEMMA Unmarshalled ==
  ASSUME NEW d, IsTree(d, Leaf)
  PROVE  /\ IsTree(Unmarshal(d), Leaf)
         /\ Leaves(Unmarshal(d)) = Leaves(d) \ OfKind(d, {"nil"})
         /\ \A p \in DOMAIN Unmarshal(d) : p \in DOMAIN d /\ Unmarshal(d)[p] = d[p]
<1> DEFINE hits == Leaves(d) \ OfKind(d, {"nil"})
<1>1. \A p \in Leaves(d) \cap hits : d[p] \in Leaf
  BY DEF IsTree, Leaves
<1>2. Leaves(d) \cap hits = hits
  OBVIOUS
<1> HIDE DEF hits
<1>3. QED
  BY <1>1, <1>2, OnlyKeepsTree DEF Unmarshal, hits

LEMMA Compiled ==
  ASSUME NEW d, IsTree(d, Leaf), ~Refused(d)
  PROVE  /\ IsTree(CompileMap(d), Programs)
         /\ DOMAIN CompileMap(d) = DOMAIN d
         /\ Leaves(CompileMap(d)) = Leaves(d)
         /\ \A p \in Leaves(d) :
              \/ \E e \in Exprs : /\ d[p] = [kind |-> "expr", expr |-> e]
                                  /\ CompileMap(d)[p] = [kind |-> "program", expr |-> e]
              \/ d[p] = [kind |-> "number"] /\ CompileMap(d)[p] = [kind |-> "literal"]
<1> DEFINE c == CompileMap(d)
<1>1. DOMAIN c = DOMAIN d /\ \A p \in DOMAIN d : c[p] = CompileNode(d[p])
  BY DEF CompileMap
<1>2. \A p \in DOMAIN d : d[p].kind \notin {"nil", "blank", "list", "uncompilable"}
  BY Compilable DEF OfKind
<1>3. c = [p \in DOMAIN c |-> c[p]]
  BY DEF CompileMap
<1> HIDE DEF c
<1>4. ASSUME NEW p \in DOMAIN d, d[p] = Map PROVE c[p] = Map
  BY <1>1, <1>4 DEF CompileNode, Map
<1>5. ASSUME NEW p \in Leaves(d)
      PROVE  \/ \E e \in Exprs : /\ d[p] = [kind |-> "expr", expr |-> e]
                                 /\ c[p] = [kind |-> "program", expr |-> e]
             \/ d[p] = [kind |-> "number"] /\ c[p] = [kind |-> "literal"]
  <2>1. p \in DOMAIN d /\ d[p] \in Leaf
    BY DEF Leaves, IsTree
  <2>2. CASE \E e \in Exprs : d[p] = [kind |-> "expr", expr |-> e]
    <3>1. PICK e \in Exprs : d[p] = [kind |-> "expr", expr |-> e]
      BY <2>2
    <3>2. c[p] = [kind |-> "program", expr |-> e]
      BY <1>1, <2>1, <3>1 DEF CompileNode
    <3>3. QED
      BY <3>1, <3>2
  <2>3. CASE ~ \E e \in Exprs : d[p] = [kind |-> "expr", expr |-> e]
    <3>1. PICK k \in {"uncompilable", "blank", "nil", "number", "list"} : d[p] = [kind |-> k]
      BY <2>1, <2>3 DEF Leaf
    <3>2. k = "number"
      BY <1>2, <2>1, <3>1
    <3>3. c[p] = [kind |-> "literal"]
      BY <1>1, <2>1, <3>1, <3>2 DEF CompileNode
    <3>4. QED
      BY <3>1, <3>2, <3>3
  <2>4. QED
    BY <2>2, <2>3
<1>6. \A p \in DOMAIN d : c[p] = Map <=> d[p] = Map
  <2> SUFFICES ASSUME NEW p \in DOMAIN d, d[p] # Map PROVE c[p] # Map
    BY <1>4
  <2>1. c[p].kind # "map"
    <3>1. p \in Leaves(d)
      BY DEF Leaves
    <3>2. (\E e \in Exprs : c[p] = [kind |-> "program", expr |-> e]) \/ c[p] = [kind |-> "literal"]
      BY <1>5, <3>1
    <3>3. CASE c[p] = [kind |-> "literal"]
      BY <3>3
    <3>4. ASSUME NEW e \in Exprs, c[p] = [kind |-> "program", expr |-> e] PROVE c[p].kind = "program"
      BY <3>4
    <3>5. QED
      BY <3>2, <3>3, <3>4
  <2>2. QED
    BY <2>1 DEF Map
<1>7. \A p \in DOMAIN c : c[p] \in Programs \cup {Map}
  BY <1>1, <1>4, <1>5 DEF Leaves, Programs
<1>8. IsTree(c, Programs)
  BY <1>1, <1>3, <1>4, <1>7 DEF IsTree
<1>9. QED
  BY <1>1, <1>5, <1>6, <1>8 DEF c, Leaves

(* A compiled field and what it comes to.                                  *)
ComesTo(node, v, r) ==
  \/ \E e \in Exprs : /\ node = [kind |-> "program", expr |-> e]
                      /\ v = Omitted <=> r[e] = "error"
                      /\ r[e] = "value" => v = Json(e)
  \/ node = [kind |-> "literal"] /\ v # Omitted /\ v = Json("number")

LEMMA Evaluated ==
  ASSUME NEW t, IsTree(t, Programs), NEW r \in [Exprs -> Results]
  PROVE  LET val == [p \in DOMAIN t |-> EvalCompiledNode(t[p], r)]
         IN /\ IsTree(val, Values \cup {Omitted})
            /\ DOMAIN val = DOMAIN t
            /\ Leaves(val) = Leaves(t)
            /\ \A p \in Leaves(t) : ComesTo(t[p], val[p], r)
<1> DEFINE val == [p \in DOMAIN t |-> EvalCompiledNode(t[p], r)]
<1>1. DOMAIN val = DOMAIN t /\ \A p \in DOMAIN t : val[p] = EvalCompiledNode(t[p], r)
  OBVIOUS
<1>2. val = [p \in DOMAIN val |-> val[p]]
  OBVIOUS
<1> HIDE DEF val
<1>3. \A p \in DOMAIN t : t[p] = Map => val[p] = Map
  BY <1>1 DEF EvalCompiledNode, Map
<1>4. ASSUME NEW e \in Exprs
      PROVE  /\ EvalProgram(e, r) \in Values \cup {Omitted} /\ EvalProgram(e, r).kind # "map"
             /\ EvalProgram(e, r) = Omitted <=> r[e] = "error"
             /\ r[e] = "value" => EvalProgram(e, r) = Json(e)
  <2>1. r[e] \in {"value", "error", "null", "celmap"}
    BY DEF Results
  <2>2. CASE r[e] = "value"
    <3>1. EvalProgram(e, r) = Json(e) /\ Json(e).kind = "json" /\ Json(e) \in Values
      BY <2>2 DEF EvalProgram, Json, Values
    <3>2. QED
      BY <2>2, <3>1 DEF Omitted
  <2>3. CASE r[e] = "error"
    <3>1. EvalProgram(e, r) = Omitted
      BY <2>3 DEF EvalProgram
    <3>2. QED
      BY <2>3, <3>1 DEF Omitted
  <2>4. CASE r[e] = "null"
    <3>1. EvalProgram(e, r) = Json("0") /\ Json("0").kind = "json" /\ Json("0") \in Values
      BY <2>4 DEF EvalProgram, Json, Values
    <3>2. QED
      BY <2>4, <3>1 DEF Omitted
  <2>5. CASE r[e] = "celmap"
    <3>1. EvalProgram(e, r) = [kind |-> "celmap"] /\ [kind |-> "celmap"] \in Values
      BY <2>5 DEF EvalProgram, Values
    <3>2. QED
      BY <2>5, <3>1 DEF Omitted
  <2>6. QED
    BY <2>1, <2>2, <2>3, <2>4, <2>5
<1>5. ASSUME NEW p \in Leaves(t)
      PROVE  val[p] \in Values \cup {Omitted} /\ val[p] # Map /\ ComesTo(t[p], val[p], r)
  <2>1. p \in DOMAIN t /\ t[p] \in Programs
    BY DEF Leaves, IsTree
  <2>2. CASE t[p] = [kind |-> "literal"]
    <3>1. Json("number").kind = "json" /\ Json("number") \in Values
      BY DEF Json, Values
    <3> DEFINE node == t[p]
    <3>2. node.kind = "literal" /\ val[p] = EvalCompiledNode(node, r)
      BY <1>1, <2>1, <2>2
    <3> HIDE DEF node
    <3>3. val[p] = Json("number")
      BY <3>2 DEF EvalCompiledNode
    <3>4. QED
      BY <2>2, <3>1, <3>3 DEF Omitted, Map, ComesTo
  <2>3. ASSUME NEW e \in Exprs, t[p] = [kind |-> "program", expr |-> e]
        PROVE  val[p] = EvalProgram(e, r)
    BY <1>1, <2>1, <2>3 DEF EvalCompiledNode
  <2>4. CASE \E e \in Exprs : t[p] = [kind |-> "program", expr |-> e]
    <3>1. PICK e \in Exprs : t[p] = [kind |-> "program", expr |-> e]
      BY <2>4
    <3>2. val[p] = EvalProgram(e, r)
      BY <2>3, <3>1
    <3>3. val[p].kind # "map" /\ val[p] \in Values \cup {Omitted}
      BY <1>4, <3>2
    <3>4. val[p] # Map
      BY <3>3 DEF Map
    <3>5. val[p] = Omitted <=> r[e] = "error"
      BY <1>4, <3>2
    <3>6. r[e] = "value" => val[p] = Json(e)
      BY <1>4, <3>2
    <3>7. ComesTo(t[p], val[p], r)
      BY <3>1, <3>5, <3>6 DEF ComesTo
    <3>8. QED
      BY <3>3, <3>4, <3>7
  <2>5. QED
    BY <2>1, <2>2, <2>4 DEF Programs
<1>6. Leaves(val) = Leaves(t)
  BY <1>1, <1>3, <1>5 DEF Leaves
<1>7. IsTree(val, Values \cup {Omitted})
  <2>1. \A p \in DOMAIN val : val[p] \in (Values \cup {Omitted}) \cup {Map}
    BY <1>1, <1>3, <1>5 DEF Leaves
  <2>2. QED
    BY <1>1, <1>2, <1>3, <2>1 DEF IsTree
<1>8. QED
  BY <1>1, <1>5, <1>6, <1>7 DEF val

(* What a compiled definition is turned into.                              *)
LEMMA Published ==
  ASSUME NEW t, IsTree(t, Programs), NEW r \in [Exprs -> Results]
  PROVE  LET built == BuildPayload(t, r)
         IN /\ IsTree(built, Values)
            /\ Leaves(built) \subseteq Leaves(t)
            /\ \A p \in Leaves(t) :
                 \/ \E e \in Exprs : /\ t[p] = [kind |-> "program", expr |-> e]
                                     /\ p \in Leaves(built) <=> r[e] # "error"
                                     /\ r[e] = "value" => built[p] = Json(e)
                 \/ /\ t[p] = [kind |-> "literal"]
                    /\ p \in Leaves(built) /\ built[p] = Json("number")
            /\ \A p \in DOMAIN built :
                 built[p] = Map => \E k \in Keys : Append(p, k) \in DOMAIN built
<1> DEFINE val   == [p \in DOMAIN t |-> EvalCompiledNode(t[p], r)]
           hits  == {p \in DOMAIN val : val[p] # Omitted}
           built == Only(val, Somewhere(val, hits))
<1>1. /\ IsTree(val, Values \cup {Omitted}) /\ DOMAIN val = DOMAIN t /\ Leaves(val) = Leaves(t)
      /\ \A p \in Leaves(t) : ComesTo(t[p], val[p], r)
  <2> HIDE DEF val
  <2>1. QED
    BY Evaluated DEF val
<1>2. BuildPayload(t, r) = built
  BY DEF BuildPayload, Kept
<1> HIDE DEF val
<1>3. hits = {p \in DOMAIN val : val[p] # Omitted}
  OBVIOUS
<1> HIDE DEF hits
<1>4. \A p \in Leaves(val) \cap hits : val[p] \in Values
  BY <1>1, <1>3 DEF IsTree, Leaves
<1>5. /\ IsTree(built, Values)
      /\ Leaves(built) = Leaves(val) \cap hits
      /\ \A p \in DOMAIN built : p \in DOMAIN val /\ built[p] = val[p]
      /\ \A p \in DOMAIN built : built[p] = Map => \E k \in Keys : Append(p, k) \in DOMAIN built
  <2> HIDE DEF built
  <2>1. QED
    BY <1>1, <1>4, OnlyKeepsTree DEF built
<1> HIDE DEF built
<1>6. \A p \in Leaves(t) : p \in Leaves(built) <=> val[p] # Omitted
  <2>1. Leaves(t) = Leaves(val) /\ Leaves(val) \subseteq DOMAIN val
    BY <1>1 DEF Leaves
  <2>2. Leaves(built) = Leaves(val) \cap hits
    BY <1>5
  <2>3. QED
    BY <1>3, <2>1, <2>2
<1>7. \A p \in Leaves(built) : built[p] = val[p]
  BY <1>5 DEF Leaves
<1>8. ASSUME NEW p \in Leaves(t)
      PROVE  \/ \E e \in Exprs : /\ t[p] = [kind |-> "program", expr |-> e]
                                 /\ p \in Leaves(built) <=> r[e] # "error"
                                 /\ r[e] = "value" => built[p] = Json(e)
             \/ /\ t[p] = [kind |-> "literal"]
                /\ p \in Leaves(built) /\ built[p] = Json("number")
  <2>1. CASE t[p] = [kind |-> "literal"] /\ val[p] # Omitted /\ val[p] = Json("number")
    BY <1>6, <1>7, <2>1
  <2>2. CASE \E e \in Exprs : /\ t[p] = [kind |-> "program", expr |-> e]
                              /\ val[p] = Omitted <=> r[e] = "error"
                              /\ r[e] = "value" => val[p] = Json(e)
    <3>1. PICK e \in Exprs : /\ t[p] = [kind |-> "program", expr |-> e]
                             /\ val[p] = Omitted <=> r[e] = "error"
                             /\ r[e] = "value" => val[p] = Json(e)
      BY <2>2
    <3>2. p \in Leaves(built) <=> r[e] # "error"
      BY <1>6, <3>1
    <3>3. r[e] = "value" => built[p] = Json(e)
      BY <1>7, <3>1, <3>2
    <3>4. QED
      BY <3>1, <3>2, <3>3
  <2>3. QED
    BY <1>1, <2>1, <2>2 DEF ComesTo
<1>9. QED
  BY <1>1, <1>2, <1>5, <1>8

-----------------------------------------------------------------------------
(* The inductive invariant: what was loaded has all the leaves of what     *)
(* viper read, what was compiled all of those, and what was built is made  *)
(* of it.                                                                  *)

Bad == {"nil", "blank"}

LoadedFrom(raw) ==
  /\ OfKind(raw, Bad) = {}
  /\ Leaves(loaded) = Leaves(raw) /\ \A p \in Leaves(loaded) : loaded[p] = raw[p]

Loaded == stage \in {"start", "running"} =>
  DOMAIN loaded # {} /\ \E S \in Survivors(def) : LoadedFrom(Read(def, S))

CompiledOK == stage = "running" => ~Refused(loaded) /\ tree = CompileMap(loaded)

BuiltOK == Built => stage = "running" /\ payload = BuildPayload(tree, result)

Inv == TypeOK /\ Loaded /\ CompiledOK /\ BuiltOK

LEMMA InitInv == Init => Inv
<1> SUFFICES ASSUME Init PROVE Inv
  OBVIOUS
<1>1. IsTree(def, Leaf)
  BY DEF Init, Definitions
<1>2. IsTree(<<>>, Leaf) /\ IsTree(<<>>, Programs) /\ IsTree(<<>>, Values)
  BY NoTree
<1>3. TypeOK
  BY <1>1, <1>2 DEF Init, TypeOK, Results
<1>4. QED
  BY <1>3 DEF Init, Inv, Loaded, CompiledOK, BuiltOK, Built

LEMMA LoadInv == Inv /\ Load => Inv'
<1> SUFFICES ASSUME Inv, Load PROVE Inv'
  OBVIOUS
<1>1. PICK S \in Survivors(def) :
        /\ loaded' = Unmarshal(Read(def, S))
        /\ stage' \in {"start", "exited"}
        /\ stage' = "start" => ValidateMessageDataLeaves(Read(def, S)) /\ DOMAIN loaded' # {}
  BY DEF Load
<1> DEFINE raw == Read(def, S)
<1>2. /\ stage = "load" /\ sent = "none"
      /\ UNCHANGED <<def, tree, result, payload, sent>>
  BY DEF Inv, BuiltOK, Built, Load
<1>3. TypeOK /\ IsTree(raw, Leaf)
  BY ReadTree DEF Inv, TypeOK
<1> HIDE DEF raw
<1>4. /\ IsTree(loaded', Leaf)
      /\ Leaves(loaded') = Leaves(raw) \ OfKind(raw, {"nil"})
      /\ \A p \in DOMAIN loaded' : loaded'[p] = raw[p]
  BY <1>1, <1>3, Unmarshalled DEF raw
<1>5. TypeOK'
  BY <1>1, <1>2, <1>3, <1>4 DEF TypeOK
<1>6. ASSUME stage' = "start"
      PROVE  /\ OfKind(raw, Bad) = {} /\ DOMAIN loaded' # {}
             /\ Leaves(loaded') = Leaves(raw) /\ \A p \in Leaves(loaded') : loaded'[p] = raw[p]
  <2>1. OfKind(raw, Bad) = {} /\ DOMAIN loaded' # {}
    BY <1>1, <1>3, <1>6, Validated DEF Bad, raw
  <2>2. OfKind(raw, {"nil"}) = {}
    BY <2>1 DEF OfKind, Bad
  <2>3. Leaves(loaded') = Leaves(raw)
    BY <1>4, <2>2
  <2>4. QED
    BY <1>4, <2>1, <2>3 DEF Leaves
<1>7. Loaded'
  BY <1>1, <1>2, <1>6 DEF Loaded, LoadedFrom, raw, Bad, OfKind, Leaves
<1>8. QED
  BY <1>1, <1>2, <1>5, <1>7 DEF Inv, CompiledOK, BuiltOK, Built

LEMMA NewBuilderInv == Inv /\ NewBuilder => Inv'
<1> SUFFICES ASSUME Inv, NewBuilder PROVE Inv'
  OBVIOUS
<1>1. /\ stage = "start" /\ sent = "none"
      /\ UNCHANGED <<def, loaded, result, payload, sent>>
  BY DEF Inv, BuiltOK, Built, NewBuilder
<1>2. TypeOK /\ Loaded
  BY DEF Inv
<1>3. CASE Refused(loaded)
  <2>1. stage' = "exited" /\ tree' = tree
    BY <1>3 DEF NewBuilder
  <2>2. QED
    BY <1>1, <1>2, <2>1 DEF Inv, TypeOK, Loaded, LoadedFrom, CompiledOK, BuiltOK, Built
<1>4. CASE ~Refused(loaded)
  <2>1. stage' = "running" /\ tree' = CompileMap(loaded)
    BY <1>4 DEF NewBuilder
  <2>2. IsTree(tree', Programs) /\ DOMAIN tree' = DOMAIN loaded
    BY <1>2, <1>4, <2>1, Compiled DEF TypeOK
  <2>3. Loaded'
    BY <1>1, <1>2, <2>1 DEF Loaded, LoadedFrom
  <2>4. TypeOK'
    BY <1>1, <1>2, <2>1, <2>2 DEF TypeOK, Loaded
  <2>5. QED
    BY <1>1, <1>4, <2>1, <2>3, <2>4 DEF Inv, CompiledOK, BuiltOK, Built
<1>5. QED
  BY <1>3, <1>4

LEMMA BuildInv == Inv /\ Build => Inv'
<1> SUFFICES ASSUME Inv, Build PROVE Inv'
  OBVIOUS
<1>1. /\ stage = "running" /\ result' \in [Exprs -> Results]
      /\ payload' = BuildPayload(tree, result') /\ sent' \in {"yes", "no"}
      /\ UNCHANGED <<stage, def, loaded, tree>>
  BY DEF Build
<1>2. TypeOK /\ Loaded /\ CompiledOK
  BY DEF Inv
<1>3. IsTree(payload', Values)
  BY <1>1, <1>2, Published DEF TypeOK
<1>4. TypeOK'
  BY <1>1, <1>2, <1>3 DEF TypeOK
<1>5. QED
  BY <1>1, <1>2, <1>4 DEF Inv, Loaded, LoadedFrom, CompiledOK, BuiltOK

LEMMA NextInv == Inv /\ [Next]_vars => Inv'
<1>1. Inv /\ UNCHANGED vars => Inv'
  BY DEF Inv, TypeOK, Loaded, LoadedFrom, CompiledOK, BuiltOK, Built, vars
<1>2. QED
  BY <1>1, LoadInv, NewBuilderInv, BuildInv DEF Next, Exited

THEOREM Invariant == Spec => []Inv
BY InitInv, NextInv, PTL DEF Spec

(* Whatever is loaded, compiled and built are maps of maps of what belongs *)
(* there, with a map above every field, at any depth; a sentinel that runs *)
(* has fields to publish (internal/payload/builder.go).                    *)
THEOREM TypeCorrect == Spec => []TypeOK
<1>1. Inv => TypeOK
  BY DEF Inv
<1>2. QED
  BY <1>1, Invariant, PTL

(* internal/config/config.go's promise: a sentinel starts without a blank  *)
(* field of the file only if another key has taken its place.              *)
THEOREM NoBlankStarts == Spec => []NoBlankLeafBeyondLoad
<1>1. ASSUME Inv, stage \in {"start", "running"}, NEW q \in OfKind(def, {"nil", "blank"}), Alone(q)
      PROVE  FALSE
  <2>1. PICK S \in Survivors(def) : OfKind(Read(def, S), Bad) = {}
    BY <1>1 DEF Inv, Loaded, LoadedFrom
  <2>2. q \in DOMAIN def /\ def[q].kind \in Bad
    BY DEF OfKind, Bad
  <2>3. q \in S
    BY <1>1, <2>2, AloneIsRead DEF Inv, TypeOK
  <2>4. Lowered(q) \in OfKind(Read(def, S), Bad)
    BY <2>2, <2>3, ReadAt DEF OfKind
  <2>5. QED
    BY <2>1, <2>4
<1>2. Inv => NoBlankLeafBeyondLoad
  BY <1>1 DEF NoBlankLeafBeyondLoad
<1>3. QED
  BY <1>2, Invariant, PTL

(* From a leaf that was loaded to what is published for it.                *)
LEMMA LeafIsPublished ==
  ASSUME Inv, Built, NEW p \in Leaves(loaded)
  PROVE  /\ p \in Leaves(payload) <=> ~Fails(loaded[p])
         /\ Yields(loaded[p]) => p \in Leaves(payload) /\ payload[p] = Value(loaded[p])
<1>1. ~Refused(loaded) /\ tree = CompileMap(loaded) /\ payload = BuildPayload(tree, result)
  BY DEF Inv, BuiltOK, CompiledOK
<1>2. IsTree(loaded, Leaf) /\ IsTree(tree, Programs) /\ result \in [Exprs -> Results]
  BY DEF Inv, TypeOK
<1>3. /\ p \in Leaves(tree)
      /\ \/ \E e \in Exprs : /\ loaded[p] = [kind |-> "expr", expr |-> e]
                              /\ tree[p] = [kind |-> "program", expr |-> e]
         \/ loaded[p] = [kind |-> "number"] /\ tree[p] = [kind |-> "literal"]
  BY <1>1, <1>2, Compiled
<1>4. \A x \in Leaves(tree) :
        \/ \E e \in Exprs : /\ tree[x] = [kind |-> "program", expr |-> e]
                            /\ x \in Leaves(payload) <=> result[e] # "error"
                            /\ result[e] = "value" => payload[x] = Json(e)
        \/ /\ tree[x] = [kind |-> "literal"]
           /\ x \in Leaves(payload) /\ payload[x] = Json("number")
  BY <1>1, <1>2, Published
<1>5. CASE \E e \in Exprs : /\ loaded[p] = [kind |-> "expr", expr |-> e]
                            /\ tree[p] = [kind |-> "program", expr |-> e]
  <2>1. PICK e \in Exprs : /\ loaded[p] = [kind |-> "expr", expr |-> e]
                           /\ tree[p] = [kind |-> "program", expr |-> e]
    BY <1>5
  <2>2. loaded[p].kind = "expr" /\ loaded[p].expr = e
    BY <2>1
  <2>3. tree[p] # [kind |-> "literal"]
    BY <2>1
  <2>4. PICK f \in Exprs : /\ tree[p] = [kind |-> "program", expr |-> f]
                           /\ p \in Leaves(payload) <=> result[f] # "error"
                           /\ result[f] = "value" => payload[p] = Json(f)
    BY <1>3, <1>4, <2>3
  <2>5. f = e
    BY <2>1, <2>4
  <2>6. QED
    BY <2>2, <2>4, <2>5 DEF Fails, Yields, Value
<1>6. CASE loaded[p] = [kind |-> "number"] /\ tree[p] = [kind |-> "literal"]
  <2>1. loaded[p].kind = "number" /\ \A e \in Exprs : tree[p] # [kind |-> "program", expr |-> e]
    BY <1>6
  <2>2. p \in Leaves(payload) /\ payload[p] = Json("number")
    BY <1>3, <1>4, <2>1
  <2>3. QED
    BY <2>1, <2>2 DEF Fails, Value
<1>7. QED
  BY <1>3, <1>5, <1>6

(* Whatever viper makes of the file's keys, a field that no other clashes  *)
(* with is published with its value, and nothing is published that no      *)
(* field of the file has come to.                                          *)
THEOREM FieldsKept == Spec => []FieldsInPlace
<1>1. ASSUME Inv, Built PROVE FieldsInPlace
  <2>1. stage = "running" /\ IsTree(def, Leaf) /\ IsTree(tree, Programs)
        /\ result \in [Exprs -> Results] /\ payload = BuildPayload(tree, result)
        /\ IsTree(loaded, Leaf) /\ ~Refused(loaded) /\ tree = CompileMap(loaded)
    BY <1>1 DEF Inv, TypeOK, BuiltOK, CompiledOK
  <2>2. PICK S \in Survivors(def) :
          /\ Leaves(loaded) = Leaves(Read(def, S))
          /\ \A p \in Leaves(loaded) : loaded[p] = Read(def, S)[p]
    BY <1>1, <2>1 DEF Inv, Loaded, LoadedFrom
  <2>3. ASSUME NEW q \in Leaves(def), Alone(q), Yields(def[q])
        PROVE  Lowered(q) \in Leaves(payload) /\ payload[Lowered(q)] = Value(def[q])
    <3>1. q \in DOMAIN def /\ def[q] # Map
      BY DEF Leaves
    <3>2. q \in S
      BY <2>1, <2>3, <3>1, AloneIsRead
    <3>3. Lowered(q) \in DOMAIN Read(def, S) /\ Read(def, S)[Lowered(q)] = def[q]
      BY <3>2, ReadAt
    <3>4. Lowered(q) \in Leaves(loaded) /\ loaded[Lowered(q)] = def[q]
      BY <2>2, <3>1, <3>3 DEF Leaves
    <3>5. QED
      BY <1>1, <2>3, <3>4, LeafIsPublished
  <2>4. ASSUME NEW p \in Leaves(payload)
        PROVE  \E q \in Leaves(def) : /\ Lowered(q) = p /\ ~Fails(def[q])
                                      /\ Yields(def[q]) => payload[p] = Value(def[q])
    <3>1. p \in Leaves(loaded)
      <4>1. Leaves(payload) \subseteq Leaves(tree)
        BY <2>1, Published
      <4>2. Leaves(tree) = Leaves(loaded)
        BY <2>1, Compiled
      <4>3. QED
        BY <4>1, <4>2
    <3>2. PICK q \in S : q \in DOMAIN def /\ Lowered(q) = p /\ Read(def, S)[p] = def[q]
      BY <2>2, <3>1, ReadFrom DEF Leaves
    <3>3. loaded[p] = def[q] /\ q \in Leaves(def)
      BY <2>2, <3>1, <3>2 DEF Leaves
    <3>4. ~Fails(loaded[p]) /\ (Yields(loaded[p]) => payload[p] = Value(loaded[p]))
      BY <1>1, <3>1, LeafIsPublished
    <3>5. QED
      BY <3>2, <3>3, <3>4
  <2>5. QED
    BY <2>3, <2>4 DEF FieldsInPlace
<1>2. Inv => FieldsInPlace
  BY <1>1 DEF FieldsInPlace
<1>3. QED
  BY <1>2, Invariant, PTL

(* At any depth, evalCompiledMap leaves no empty object behind.            *)
THEOREM NoObjectEmpty == Spec => []NoEmptyObject
<1>1. ASSUME Inv, Built PROVE NoEmptyObject
  <2>1. payload = BuildPayload(tree, result) /\ IsTree(tree, Programs)
        /\ result \in [Exprs -> Results]
    BY <1>1 DEF Inv, TypeOK, BuiltOK
  <2>2. QED
    BY <2>1, Published DEF NoEmptyObject
<1>2. Inv => NoEmptyObject
  BY <1>1 DEF NoEmptyObject
<1>3. QED
  BY <1>2, Invariant, PTL
=============================================================================
