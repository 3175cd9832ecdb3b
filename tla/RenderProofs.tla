---------------------------- MODULE RenderProofs ----------------------------
(***************************************************************************)
(* The render of a song, scrolling or paged.                               *)
(*                                                                         *)
(* The canvas of a scrolling song has no row that nothing was written to,  *)
(* and is the score unless the report says so; its ink is printed once and *)
(* in order, on sheets that are full: for any number of frames, any        *)
(* motions, and every size of the region, its template, the bands and the  *)
(* paper.                                                                  *)
(*                                                                         *)
(* Every page of a paged song that is well played is printed, once and in  *)
(* order, and its last page is not cut: for any number of pages, frames    *)
(* and columns, and every distance that makes a wrap.                      *)
(***************************************************************************)
EXTENDS Pages, Scroll, FiniteSetTheorems, SequenceTheorems, TLAPS

(* Least and greatest members, and the height of a sheet *)

LEMMA LeastMember ==
  ASSUME NEW T, T \subseteq Nat, T # {}
  PROVE  \E x \in T : \A y \in T : x <= y
<1>1. IsWellFoundedOn(OpToRel(<, Nat), Nat)
  BY NatLessThanWellFounded
<1>2. PICK x \in T : \A y \in T : ~ (<<y, x>> \in OpToRel(<, Nat))
  BY <1>1, WFMin
<1>3. \A y \in T : ~ (y < x)
  BY <1>2 DEF OpToRel
<1> QED BY <1>3

LEMMA GreatestMember ==
  ASSUME NEW n \in Nat, NEW S \in SUBSET (0 .. n), S # {}
  PROVE  \E x \in S : \A y \in S : y <= x
<1> DEFINE Back == {n - x : x \in S}
<1>0. \A x \in S : x \in 0 .. n /\ n - x \in Nat
  OBVIOUS
<1>1. Back \subseteq Nat /\ Back # {}
  BY <1>0
<1>2. PICK m \in Back : \A k \in Back : m <= k
  <2> HIDE DEF Back
  <2> QED BY <1>1, LeastMember
<1>3. PICK x \in S : m = n - x
  OBVIOUS
<1>4. ASSUME NEW y \in S PROVE y <= x
  <2>1. n - y \in Back
    OBVIOUS
  <2>2. n - x <= n - y
    BY <1>2, <1>3, <2>1
  <2>3. x \in Int /\ y \in Int
    BY <1>0
  <2> HIDE DEF Back
  <2> QED BY <2>2, <2>3
<1> QED BY <1>4

LEMMA MaxIs ==
  ASSUME NEW n \in Nat, NEW S \in SUBSET (1 .. n), S # {}
  PROVE  Max(S) \in S /\ \A x \in S : x <= Max(S)
<1>0. S \in SUBSET (0 .. n) /\ \A x \in S : x \in Int
  OBVIOUS
<1>1. PICK x \in S : \A y \in S : y <= x
  BY <1>0, GreatestMember
<1>2. \A y \in S : x >= y
  BY <1>0, <1>1
<1>3. Max(S) \in S /\ \A y \in S : Max(S) >= y
  BY <1>2 DEF Max
<1> QED BY <1>0, <1>3

LEMMA LastOf ==
  ASSUME NEW n \in Nat
  PROVE  /\ 1 .. n + 1 \in SUBSET (1 .. n + 1) /\ 1 .. n + 1 # {}
         /\ (1 .. n + 1) \ {n + 1} = 1 .. n /\ Max(1 .. n + 1) = n + 1
<1> DEFINE m == n + 1
           S == 1 .. m
<1>1. m \in Nat /\ m \in S
  OBVIOUS
<1>2. S \in SUBSET (1 .. m) /\ S # {}
  BY <1>1
<1>3. Max(S) \in S /\ m <= Max(S)
  <2> HIDE DEF m
  <2> QED BY <1>1, <1>2, MaxIs
<1>4. Max(S) = m
  <2> HIDE DEF m
  <2> QED BY <1>1, <1>3
<1>5. (1 .. n + 1) \ {n + 1} = 1 .. n
  OBVIOUS
<1> QED BY <1>2, <1>4, <1>5

(* How the heights of bands add up: f is what the members of a set of them  *)
(* come to, on top of base.                                                 *)
Sums(f, s, base, n) ==
  f = [S \in SUBSET (1 .. n) |-> IF S = {} THEN base ELSE f[S \ {Max(S)}] + s[Max(S)].height]

LEMMA SumsExist ==
  ASSUME NEW s, NEW base, NEW n \in Nat
  PROVE  \E f : Sums(f, s, base, n)
<1> DEFINE Bad == {k \in Nat : ~ \E f : Sums(f, s, base, k)}
<1> SUFFICES ASSUME Bad # {} PROVE FALSE
  OBVIOUS
<1>1. PICK k \in Bad : \A m \in Bad : k <= m
  <2>1. Bad \subseteq Nat
    OBVIOUS
  <2> HIDE DEF Bad
  <2> QED BY <2>1, LeastMember
<1>2. CASE k = 0
  <2> DEFINE f == [S \in SUBSET (1 .. 0) |-> base]
  <2>1. \A S \in SUBSET (1 .. 0) : S = {}
    OBVIOUS
  <2>2. f = [S \in SUBSET (1 .. 0) |-> IF S = {} THEN base ELSE f[S \ {Max(S)}] + s[Max(S)].height]
    BY <2>1
  <2>3. Sums(f, s, base, 0)
    BY <2>2 DEF Sums
  <2> QED BY <1>2, <2>3
<1>3. CASE k # 0
  <2>1. k \in Nat /\ k - 1 \in Nat /\ k - 1 < k /\ k - 1 \notin Bad
    BY <1>1, <1>3
  <2>2. PICK g : Sums(g, s, base, k - 1)
    BY <2>1
  <2>3. \A S \in SUBSET (1 .. k - 1) :
          g[S] = IF S = {} THEN base ELSE g[S \ {Max(S)}] + s[Max(S)].height
    BY <2>2 DEF Sums
  <2> DEFINE f == [S \in SUBSET (1 .. k) |->
                     IF k \in S THEN g[S \ {k}] + s[k].height ELSE g[S]]
             h == [S \in SUBSET (1 .. k) |->
                     IF S = {} THEN base ELSE f[S \ {Max(S)}] + s[Max(S)].height]
  <2>4. ASSUME NEW S \in SUBSET (1 .. k) PROVE f[S] = h[S]
    <3>1. S \ {k} \in SUBSET (1 .. k - 1) /\ S \ {k} \in SUBSET (1 .. k) /\ k \notin S \ {k}
      BY <2>1
    <3>2. CASE k \in S
      <4>1. Max(S) = k
        <5>1. Max(S) \in 1 .. k /\ k <= Max(S)
          BY <2>1, <3>2, MaxIs
        <5> HIDE DEF f, h
        <5> QED BY <2>1, <5>1
      <4>2. f[S \ {k}] = g[S \ {k}]
        BY <3>1
      <4>3. f[S] = g[S \ {k}] + s[k].height
        BY <3>2
      <4>4. h[S] = f[S \ {Max(S)}] + s[Max(S)].height
        <5> HIDE DEF f
        <5> QED BY <3>2
      <4> QED BY <4>1, <4>2, <4>3, <4>4
    <3>3. CASE k \notin S
      <4>1. S \in SUBSET (1 .. k - 1)
        BY <2>1, <3>3
      <4>2. S \ {Max(S)} \in SUBSET (1 .. k) /\ k \notin S \ {Max(S)}
        BY <3>3
      <4>3. f[S \ {Max(S)}] = g[S \ {Max(S)}] /\ f[S] = g[S]
        BY <3>3, <4>2
      <4>4. h[S] = IF S = {} THEN base ELSE f[S \ {Max(S)}] + s[Max(S)].height
        OBVIOUS
      <4> HIDE DEF f, h
      <4> QED BY <2>3, <4>1, <4>3, <4>4
    <3> QED BY <3>2, <3>3
  <2>5. f = h
    <3>1. /\ f = [S \in SUBSET (1 .. k) |-> f[S]]
          /\ h = [S \in SUBSET (1 .. k) |-> h[S]]
      OBVIOUS
    <3> HIDE DEF f, h
    <3> QED BY <2>4, <3>1
  <2>6. Sums(f, s, base, k)
    <3> HIDE DEF f
    <3> QED BY <2>5 DEF Sums
  <2> QED BY <2>6
<1> QED BY <1>2, <1>3

SameUpTo(s, t, n) == \A i \in 1 .. n : s[i] = t[i] /\ s[i].height \in Int
Ahead(f, g, n, d) == \A k \in 0 .. n : f[1 .. k] \in Int /\ g[1 .. k] = f[1 .. k] + d

(* The first k bands come to the same however many there are after them. *)
LEMMA SumsAgree ==
  ASSUME NEW s, NEW t, NEW base \in Int, NEW d \in Int, NEW n \in Nat, NEW m \in Nat,
         NEW f, NEW g, Sums(f, s, base, n), NEW c, Sums(g, t, c, m), c = base + d, n <= m,
         SameUpTo(s, t, n)
  PROVE  Ahead(f, g, n, d)
<1> DEFINE Bad == {k \in 0 .. n : ~(f[1 .. k] \in Int /\ g[1 .. k] = f[1 .. k] + d)}
<1> SUFFICES ASSUME Bad # {} PROVE FALSE
  BY DEF Ahead
<1>1. PICK k \in Bad : \A j \in Bad : k <= j
  <2>1. Bad \subseteq Nat
    OBVIOUS
  <2> HIDE DEF Bad
  <2> QED BY <2>1, LeastMember
<1>2. k \in 0 .. n /\ 1 .. k \in SUBSET (1 .. n) /\ 1 .. k \in SUBSET (1 .. m)
  OBVIOUS
<1>3. /\ f[1 .. k] = IF 1 .. k = {} THEN base
                     ELSE f[(1 .. k) \ {Max(1 .. k)}] + s[Max(1 .. k)].height
      /\ g[1 .. k] = IF 1 .. k = {} THEN base + d
                     ELSE g[(1 .. k) \ {Max(1 .. k)}] + t[Max(1 .. k)].height
  <2>1. \A S \in SUBSET (1 .. n) :
           f[S] = IF S = {} THEN base ELSE f[S \ {Max(S)}] + s[Max(S)].height
    BY DEF Sums
  <2>2. \A S \in SUBSET (1 .. m) :
           g[S] = IF S = {} THEN base + d ELSE g[S \ {Max(S)}] + t[Max(S)].height
    BY DEF Sums
  <2> QED BY <1>2, <2>1, <2>2
<1>4. CASE k = 0
  <2>1. 1 .. k = {}
    BY <1>4
  <2> QED BY <1>3, <2>1
<1>5. CASE k # 0
  <2>1. k \in 1 .. n /\ 1 .. k # {} /\ k \in 1 .. k /\ k - 1 \in 0 .. n /\ k - 1 < k
    <3>1. k \in Nat /\ k # 0 /\ k <= n
      BY <1>2, <1>5
    <3>2. k \in 1 .. n /\ k \in 1 .. k /\ k - 1 \in 0 .. n /\ k - 1 < k
      BY <3>1
    <3> QED BY <3>2
  <2>2. Max(1 .. k) = k
    <3>1. Max(1 .. k) \in 1 .. k /\ k <= Max(1 .. k)
      BY <1>2, <2>1, MaxIs
    <3> QED BY <2>1, <3>1
  <2>3. (1 .. k) \ {k} = 1 .. k - 1
    BY <2>1
  <2>4. f[1 .. k - 1] \in Int /\ g[1 .. k - 1] = f[1 .. k - 1] + d
    BY <1>1, <2>1
  <2>5. s[k] = t[k] /\ s[k].height \in Int
    BY <2>1 DEF SameUpTo
  <2>6. f[1 .. k] = f[1 .. k - 1] + s[k].height /\ g[1 .. k] = g[1 .. k - 1] + s[k].height
    BY <1>3, <2>1, <2>2, <2>3, <2>5
  <2> DEFINE u == f[1 .. k - 1]
             v == s[k].height
  <2>8. /\ u \in Int /\ v \in Int /\ d \in Int
        /\ f[1 .. k] = u + v /\ g[1 .. k] = (u + d) + v
    BY <2>4, <2>5, <2>6
  <2> HIDE DEF u, v
  <2>7. f[1 .. k] \in Int /\ g[1 .. k] = f[1 .. k] + d
    BY <2>8
  <2> QED BY <2>7
<1> QED BY <1>4, <1>5

LEMMA HeightIs ==
  ASSUME NEW B, NEW s \in Seq(B)
  PROVE  \E f : Sums(f, s, BandGap * (Len(s) - 1), Len(s)) /\ Height(s) = f[1 .. Len(s)]
<1>1. Len(s) \in Nat /\ DOMAIN s = 1 .. Len(s)
  OBVIOUS
<1> DEFINE base == BandGap * (Len(s) - 1)
           F == CHOOSE f : Sums(f, s, base, Len(s))
<1>2. Height(s) = (CHOOSE f : f = [S \in SUBSET DOMAIN s |->
        IF S = {} THEN BandGap * (Len(s) - 1) ELSE f[S \ {Max(S)}] + s[Max(S)].height])[DOMAIN s]
  BY DEF Height, FoldLeft, MapThenFoldSet
<1>3. Height(s) = F[1 .. Len(s)]
  BY <1>1, <1>2 DEF Sums
<1>4. Sums(F, s, base, Len(s))
  BY <1>1, SumsExist
<1> QED BY <1>3, <1>4

LEMMA HeightAppend ==
  ASSUME NEW B, \A b \in B : b.height \in Nat, NEW s \in Seq(B), NEW b \in B
  PROVE  /\ Height(s) \in Int
         /\ Height(Append(s, b)) = Height(s) + BandGap + b.height
         /\ s = <<>> => Height(Append(s, b)) = b.height
<1> DEFINE n == Len(s)
           t == Append(s, b)
<1>1. /\ n \in Nat /\ t \in Seq(B) /\ Len(t) = n + 1 /\ BandGap \in Nat
      /\ \A i \in 1 .. n : s[i] \in B /\ t[i] = s[i]
      /\ t[n + 1] = b
  BY LayoutAssumption
<1>2. PICK f : Sums(f, s, BandGap * (n - 1), n) /\ Height(s) = f[1 .. n]
  BY HeightIs
<1>3. PICK g : Sums(g, t, BandGap * (Len(t) - 1), Len(t)) /\ Height(t) = g[1 .. Len(t)]
  BY <1>1, HeightIs
<1> HIDE DEF n, t
<1>4. /\ Sums(g, t, BandGap * (n - 1) + BandGap, n + 1) /\ Height(t) = g[1 .. n + 1]
      /\ BandGap * (n - 1) \in Int
  <2>1. BandGap * (Len(t) - 1) = BandGap * (n - 1) + BandGap /\ BandGap * (n - 1) \in Int
    <3>1. BandGap * ((n + 1) - 1) = BandGap * (n - 1) + BandGap /\ BandGap * (n - 1) \in Int
      BY <1>1, Z3
    <3> QED BY <1>1, <3>1
  <2> QED BY <1>1, <1>3, <2>1
<1>5. SameUpTo(s, t, n)
  BY <1>1 DEF SameUpTo
<1>6. Ahead(f, g, n, BandGap)
  <2> DEFINE base == BandGap * (n - 1)
             m == n + 1
             c == base + BandGap
  <2>1. m \in Nat /\ n <= m /\ BandGap \in Int /\ n \in Nat /\ base \in Int
    BY <1>1, <1>4
  <2>2. Sums(f, s, base, n) /\ Sums(g, t, c, m) /\ c = base + BandGap
    BY <1>2, <1>4
  <2> HIDE DEF base, m, c
  <2>3. BandGap \in Int /\ base \in Int /\ n \in Nat /\ m \in Nat /\ n <= m
    BY <2>1
  <2> QED BY <1>5, <2>2, <2>3, SumsAgree
<1>7. f[1 .. n] \in Int /\ g[1 .. n] = f[1 .. n] + BandGap
  BY <1>1, <1>6 DEF Ahead
<1>8. g[1 .. n + 1] = g[1 .. n] + b.height
  <2>1. /\ 1 .. n + 1 \in SUBSET (1 .. n + 1) /\ 1 .. n + 1 # {}
        /\ (1 .. n + 1) \ {n + 1} = 1 .. n /\ Max(1 .. n + 1) = n + 1
    BY <1>1, LastOf
  <2>3. g[1 .. n + 1] = g[(1 .. n + 1) \ {Max(1 .. n + 1)}] + t[Max(1 .. n + 1)].height
    BY <1>4, <2>1 DEF Sums
  <2> QED BY <1>1, <2>1, <2>3
<1>9. Height(t) = Height(s) + BandGap + b.height /\ Height(s) \in Int
  BY <1>2, <1>4, <1>7, <1>8, <1>1
<1>10. s = <<>> => Height(s) = -BandGap
  <2> SUFFICES ASSUME s = <<>> PROVE Height(s) = -BandGap
    OBVIOUS
  <2>1. n = 0 /\ 1 .. n = {} /\ {} \in SUBSET (1 .. n)
    BY DEF n
  <2>2. f[{}] = BandGap * (n - 1)
    BY <1>2, <2>1 DEF Sums
  <2>3. BandGap * (n - 1) = -BandGap
    BY <1>1, <2>1
  <2> QED BY <1>2, <2>1, <2>2, <2>3
<1> QED BY <1>1, <1>9, <1>10 DEF t

-----------------------------------------------------------------------------
(* The bands of the sheets, one after the other *)

Chain(f, s, n) == f = [i \in 1 .. n |-> IF i = 1 THEN s[i] ELSE f[i - 1] \o s[i]]

LEMMA ChainExists ==
  ASSUME NEW s, NEW n \in Nat
  PROVE  \E f : Chain(f, s, n)
<1> DEFINE Bad == {k \in Nat : ~ \E f : Chain(f, s, k)}
<1> SUFFICES ASSUME Bad # {} PROVE FALSE
  OBVIOUS
<1>1. PICK k \in Bad : \A m \in Bad : k <= m
  <2>1. Bad \subseteq Nat
    OBVIOUS
  <2> HIDE DEF Bad
  <2> QED BY <2>1, LeastMember
<1>2. CASE k = 0
  <2> DEFINE f == [i \in 1 .. 0 |-> s[i]]
  <2>1. f = [i \in 1 .. 0 |-> IF i = 1 THEN s[i] ELSE f[i - 1] \o s[i]]
    OBVIOUS
  <2>2. Chain(f, s, 0)
    BY <2>1 DEF Chain
  <2> QED BY <1>2, <2>2
<1>3. CASE k # 0
  <2>1. k \in Nat /\ k - 1 \in Nat /\ k - 1 < k /\ k - 1 \notin Bad
    BY <1>1, <1>3
  <2>2. PICK g : Chain(g, s, k - 1)
    BY <2>1
  <2>3. \A i \in 1 .. k - 1 : g[i] = IF i = 1 THEN s[i] ELSE g[i - 1] \o s[i]
    BY <2>2 DEF Chain
  <2> DEFINE f == [i \in 1 .. k |-> IF i < k THEN g[i]
                                    ELSE IF i = 1 THEN s[i] ELSE g[i - 1] \o s[i]]
             h == [i \in 1 .. k |-> IF i = 1 THEN s[i] ELSE f[i - 1] \o s[i]]
  <2>4. ASSUME NEW i \in 1 .. k PROVE f[i] = h[i]
    <3>1. i # 1 => i - 1 \in 1 .. k /\ i - 1 < k /\ f[i - 1] = g[i - 1]
      BY <2>1
    <3>2. h[i] = IF i = 1 THEN s[i] ELSE f[i - 1] \o s[i]
      OBVIOUS
    <3>3. f[i] = IF i < k THEN g[i] ELSE IF i = 1 THEN s[i] ELSE g[i - 1] \o s[i]
      OBVIOUS
    <3>4. i < k => i \in 1 .. k - 1
      BY <2>1
    <3> HIDE DEF f, h
    <3> QED BY <2>3, <3>1, <3>2, <3>3, <3>4
  <2>5. f = h
    <3>1. f = [i \in 1 .. k |-> f[i]] /\ h = [i \in 1 .. k |-> h[i]]
      OBVIOUS
    <3> HIDE DEF f, h
    <3> QED BY <2>4, <3>1
  <2>6. Chain(f, s, k)
    <3> HIDE DEF f
    <3> QED BY <2>5 DEF Chain
  <2> QED BY <2>6
<1> QED BY <1>2, <1>3

ChainSame(f, g, n, B) == \A k \in 1 .. n : f[k] \in Seq(B) /\ g[k] = f[k]

LEMMA ChainsAgree ==
  ASSUME NEW B, NEW s, NEW t, NEW n \in Nat, NEW m \in Nat, n <= m,
         NEW f, NEW g, Chain(f, s, n), Chain(g, t, m),
         \A i \in 1 .. n : s[i] \in Seq(B) /\ t[i] = s[i]
  PROVE  ChainSame(f, g, n, B)
<1> DEFINE Bad == {k \in 1 .. n : ~(f[k] \in Seq(B) /\ g[k] = f[k])}
<1> SUFFICES ASSUME Bad # {} PROVE FALSE
  BY DEF ChainSame
<1>1. PICK k \in Bad : \A j \in Bad : k <= j
  <2>1. Bad \subseteq Nat
    OBVIOUS
  <2> HIDE DEF Bad
  <2> QED BY <2>1, LeastMember
<1>2. k \in 1 .. n /\ k \in 1 .. m /\ k \in Nat
  OBVIOUS
<1>3. /\ f[k] = IF k = 1 THEN s[k] ELSE f[k - 1] \o s[k]
      /\ g[k] = IF k = 1 THEN t[k] ELSE g[k - 1] \o t[k]
  <2>1. \A i \in 1 .. n : f[i] = IF i = 1 THEN s[i] ELSE f[i - 1] \o s[i]
    BY DEF Chain
  <2>2. \A i \in 1 .. m : g[i] = IF i = 1 THEN t[i] ELSE g[i - 1] \o t[i]
    BY DEF Chain
  <2> QED BY <1>2, <2>1, <2>2
<1>4. k # 1 => f[k - 1] \in Seq(B) /\ g[k - 1] = f[k - 1]
  <2> SUFFICES ASSUME k # 1 PROVE f[k - 1] \in Seq(B) /\ g[k - 1] = f[k - 1]
    OBVIOUS
  <2>1. k - 1 \in 1 .. n /\ ~(k <= k - 1)
    BY <1>2
  <2> QED BY <1>1, <2>1
<1>5. s[k] \in Seq(B) /\ t[k] = s[k]
  BY <1>2
<1>6. f[k] \in Seq(B)
  <2> HIDE DEF Bad
  <2> QED BY <1>3, <1>4, <1>5, ConcatProperties
<1>7. g[k] = f[k]
  <2> HIDE DEF Bad
  <2> QED BY <1>3, <1>4, <1>5
<1> QED BY <1>6, <1>7

LEMMA FlattenAppend ==
  ASSUME NEW B, NEW s \in Seq(Seq(B)), NEW r \in Seq(B)
  PROVE  FlattenSeq(s) \in Seq(B) /\ FlattenSeq(Append(s, r)) = FlattenSeq(s) \o r
<1> DEFINE n == Len(s)
           t == Append(s, r)
           F == CHOOSE f : Chain(f, s, Len(s))
           G == CHOOSE f : Chain(f, t, Len(t))
<1>1. /\ n \in Nat /\ Len(t) = n + 1 /\ t[n + 1] = r
      /\ \A i \in 1 .. n : s[i] \in Seq(B) /\ t[i] = s[i]
  OBVIOUS
<1>2. FlattenSeq(s) = IF n = 0 THEN s ELSE F[n]
  BY DEF FlattenSeq, Chain
<1>3. FlattenSeq(t) = IF n + 1 = 0 THEN t ELSE G[n + 1]
  <2>1. FlattenSeq(t) = IF Len(t) = 0 THEN t ELSE G[Len(t)]
    BY DEF FlattenSeq, Chain
  <2> HIDE DEF t, G
  <2> QED BY <1>1, <2>1
<1>4. Chain(F, s, n) /\ Chain(G, t, n + 1)
  <2>1. \E f : Chain(f, s, n)
    BY <1>1, ChainExists
  <2>2. Len(t) \in Nat
    BY <1>1
  <2>3. \E f : Chain(f, t, Len(t))
    <3> HIDE DEF t
    <3> QED BY <2>2, ChainExists
  <2>4. Chain(F, s, n)
    BY <2>1
  <2>5. Chain(G, t, Len(t))
    <3> HIDE DEF t
    <3> QED BY <2>3
  <2>6. Chain(G, t, n + 1)
    BY <1>1, <2>5
  <2> QED BY <2>4, <2>6
<1> HIDE DEF n, t, F, G
<1>5. ChainSame(F, G, n, B)
  <2>1. n + 1 \in Nat /\ n <= n + 1
    BY <1>1
  <2> QED BY <1>1, <1>4, <2>1, ChainsAgree
<1>6. G[n + 1] = IF n + 1 = 1 THEN r ELSE G[n] \o r
  <2>1. n + 1 \in 1 .. n + 1 /\ (n + 1) - 1 = n
    BY <1>1
  <2>2. G[n + 1] = IF n + 1 = 1 THEN t[n + 1] ELSE G[(n + 1) - 1] \o t[n + 1]
    BY <1>4, <2>1 DEF Chain
  <2> QED BY <1>1, <2>1, <2>2
<1>7. CASE n = 0
  <2>1. s = <<>> /\ FlattenSeq(s) = <<>> /\ FlattenSeq(t) = r
    BY <1>2, <1>3, <1>6, <1>7, EmptySeq DEF n
  <2>2. <<>> \o r = r
    BY ConcatEmptySeq
  <2> QED BY <2>1, <2>2, EmptySeq DEF t
<1>8. CASE n # 0
  <2>1. n \in 1 .. n /\ n + 1 # 1 /\ n + 1 # 0
    BY <1>1, <1>8
  <2>2. F[n] \in Seq(B) /\ G[n] = F[n]
    BY <1>5, <2>1 DEF ChainSame
  <2> QED BY <1>2, <1>3, <1>6, <1>8, <2>1, <2>2 DEF t
<1> QED BY <1>7, <1>8

-----------------------------------------------------------------------------
(* The sheets, whatever the bands are *)

\* What is on the sheets are bands of a kind, and how much of the one at hand
\* they take.
Placed(B) == /\ todo \in Seq(B) /\ rows \in Seq(B) /\ sheets \in Seq(Seq(B))
             /\ rows = <<>> => used = 0 /\ (sheets = <<>> \/ todo = <<>>)
             /\ rows # <<>> => used = Height(rows) /\ (used <= ContentH \/ Len(rows) = 1)

Sized(B) == \A b \in B : b.height \in Nat

\* What SheetsFull says of a sheet and the one after it.
Full(sheet, next) ==
    /\ Height(sheet) <= ContentH \/ Len(sheet) = 1
    /\ Height(sheet) <= SheetH
    /\ next # <<>> => Height(sheet) + BandGap + next[1].height > ContentH

Following(i) == IF i < Len(sheets) THEN sheets[i + 1] ELSE rows

LEMMA FullIs == SheetsFull <=> \A i \in DOMAIN sheets : Full(sheets[i], Following(i))
BY DEF SheetsFull, Full, Following

\* The first band that is left, and the sheet at hand with it.
LEMMA NextBand ==
  ASSUME NEW B, Sized(B), Placed(B), todo # <<>>
  PROVE  /\ Head(todo) \in B /\ Head(todo).height \in Nat /\ Tail(todo) \in Seq(B)
         /\ todo = <<Head(todo)>> \o Tail(todo)
         /\ Append(rows, Head(todo)) \in Seq(B)
         /\ <<Head(todo)>> \in Seq(B) /\ <<Head(todo)>> # <<>>
         /\ Len(<<Head(todo)>>) = 1 /\ <<Head(todo)>>[1] = Head(todo)
<1>1. todo \in Seq(B) /\ rows \in Seq(B)
  BY DEF Placed
<1>2. Head(todo) \in B /\ Tail(todo) \in Seq(B)
  BY <1>1
<1>3. todo = <<Head(todo)>> \o Tail(todo)
  <2>1. /\ Len(todo) \in Nat \ {0} /\ Tail(todo) \in Seq(B) /\ Len(Tail(todo)) = Len(todo) - 1
        /\ \A i \in 1 .. Len(Tail(todo)) : Tail(todo)[i] = todo[i + 1]
        /\ Head(todo) = todo[1]
    BY <1>1, HeadTailProperties
  <2>2. <<Head(todo)>> \in Seq(B) /\ Len(<<Head(todo)>>) = 1
    BY <1>2
  <2> DEFINE t == <<Head(todo)>> \o Tail(todo)
  <2>3. /\ t \in Seq(B) /\ Len(t) = 1 + Len(Tail(todo))
        /\ \A i \in 1 .. Len(t) :
             t[i] = IF i <= 1 THEN <<Head(todo)>>[i] ELSE Tail(todo)[i - 1]
    BY <1>2, <2>2, ConcatProperties
  <2>4. Len(t) = Len(todo)
    <3> HIDE DEF t
    <3> QED BY <2>1, <2>3
  <2>5. ASSUME NEW i \in 1 .. Len(t) PROVE t[i] = todo[i]
    <3>1. CASE i = 1
      BY <2>1, <2>3, <3>1
    <3>2. CASE i # 1
      <4>1. i - 1 \in 1 .. Len(Tail(todo)) /\ (i - 1) + 1 = i /\ ~(i <= 1)
        <5> HIDE DEF t
        <5> QED BY <2>1, <2>4, <3>2
      <4>2. t[i] = Tail(todo)[i - 1]
        <5> HIDE DEF t
        <5> QED BY <2>3, <4>1
      <4> HIDE DEF t
      <4> QED BY <2>1, <4>1, <4>2
    <3> QED BY <3>1, <3>2
  <2> HIDE DEF t
  <2>6. t = todo
    BY <1>1, <2>3, <2>4, <2>5, SeqEqual
  <2> QED BY <2>6 DEF t
<1>4. Head(todo).height \in Nat
  BY <1>2 DEF Sized
<1> QED BY <1>1, <1>2, <1>3, <1>4

\* How tall the sheet at hand becomes.
LEMMA NextHeight ==
  ASSUME NEW B, Sized(B), Placed(B), todo # <<>>
  PROVE  LET b == Head(todo)
         IN  /\ Height(rows) \in Int
             /\ Height(Append(rows, b)) = Height(rows) + BandGap + b.height
             /\ rows = <<>> => Height(Append(rows, b)) = b.height
             /\ Height(<<b>>) = b.height
<1> DEFINE b == Head(todo)
<1>1. b \in B /\ rows \in Seq(B) /\ <<>> \in Seq(B) /\ Append(<<>>, b) = <<b>>
  BY NextBand, EmptySeq DEF Placed
<1>2. \A c \in B : c.height \in Nat
  BY DEF Sized
<1> HIDE DEF b
<1>3. /\ Height(rows) \in Int
      /\ Height(Append(rows, b)) = Height(rows) + BandGap + b.height
      /\ rows = <<>> => Height(Append(rows, b)) = b.height
  BY <1>1, <1>2, HeightAppend
<1>4. Height(Append(<<>>, b)) = b.height
  BY <1>1, <1>2, HeightAppend
<1> QED BY <1>1, <1>3, <1>4 DEF b

\* A sheet is complete.
LEMMA SheetAdded ==
  ASSUME NEW B, Sized(B), Placed(B), SheetsFull, sheets' = Append(sheets, rows), Full(rows, rows')
  PROVE  SheetsFull'
<1> DEFINE n == Len(sheets)
<1>1. /\ n \in Nat /\ DOMAIN sheets = 1 .. n /\ DOMAIN sheets' = 1 .. n + 1 /\ Len(sheets') = n + 1
      /\ sheets'[n + 1] = rows /\ \A i \in 1 .. n : sheets'[i] = sheets[i]
  BY DEF Placed
<1> HIDE DEF n
<1>2. \A i \in 1 .. n : Full(sheets[i], Following(i))
  BY <1>1, FullIs
<1>3. ASSUME NEW i \in 1 .. n + 1
      PROVE  /\ i \in 1 .. n => sheets'[i] = sheets[i] /\ Following(i)' = Following(i)
             /\ i \notin 1 .. n => sheets'[i] = rows /\ Following(i)' = rows'
  <2>1. CASE i < n
    <3>1. i + 1 \in 1 .. n /\ i \in 1 .. n /\ i < n + 1
      BY <1>1, <2>1
    <3> QED BY <1>1, <2>1, <3>1 DEF Following, n
  <2>2. CASE i = n
    <3>1. i \in 1 .. n /\ i < n + 1 /\ ~(i < n)
      BY <1>1, <2>2
    <3> QED BY <1>1, <2>2, <3>1 DEF Following, n
  <2>3. CASE i = n + 1
    <3>1. i \notin 1 .. n /\ ~(i < n + 1)
      BY <1>1, <2>3
    <3> QED BY <1>1, <2>3, <3>1 DEF Following
  <2> QED BY <1>1, <2>1, <2>2, <2>3
<1>4. \A i \in 1 .. n + 1 : Full(sheets'[i], Following(i)')
  BY <1>2, <1>3
<1>5. \A i \in DOMAIN sheets' : Full(sheets[i], Following(i))'
  BY <1>1, <1>4 DEF Full
<1>6. (\A i \in DOMAIN sheets : Full(sheets[i], Following(i)))'
  BY <1>5
<1>7. (SheetsFull <=> \A i \in DOMAIN sheets : Full(sheets[i], Following(i)))'
  BY FullIs, PTL
<1> QED BY <1>6, <1>7

\* The bands that are printed, in terms of those that are placed.
LEMMA PrintedKept ==
  ASSUME NEW B, Sized(B), Placed(B), Place \/ NewSheet \/ LastSheet
  PROVE  Printed' = Printed
<1> DEFINE F == FlattenSeq(sheets)
           h == Head(todo)
           t == Tail(todo)
<1>1. todo \in Seq(B) /\ rows \in Seq(B) /\ sheets \in Seq(Seq(B))
  BY DEF Placed
<1>2. F \in Seq(B) /\ FlattenSeq(Append(sheets, rows)) = F \o rows
  BY <1>1, FlattenAppend
<1>3. F \o rows \in Seq(B)
  <2> HIDE DEF F
  <2> QED BY <1>1, <1>2, ConcatProperties
<1>4. ASSUME todo # <<>>
      PROVE  /\ t \in Seq(B) /\ <<h>> \in Seq(B) /\ todo = <<h>> \o t
             /\ ((F \o rows) \o <<h>>) \o t = (F \o rows) \o todo
             /\ F \o Append(rows, h) = (F \o rows) \o <<h>>
  <2>1. t \in Seq(B) /\ h \in B /\ <<h>> \in Seq(B) /\ todo = <<h>> \o t
    BY <1>4, NextBand
  <2> HIDE DEF F, h, t
  <2>2. ((F \o rows) \o <<h>>) \o t = (F \o rows) \o (<<h>> \o t)
    BY <1>3, <2>1, ConcatAssociative
  <2>3. Append(rows, h) = rows \o <<h>>
    BY <1>1, <2>1, AppendIsConcat
  <2>4. (F \o rows) \o <<h>> = F \o (rows \o <<h>>)
    BY <1>1, <1>2, <2>1, ConcatAssociative
  <2> QED BY <2>1, <2>2, <2>3, <2>4
<1>5. CASE Place
  <2>1. todo # <<>> /\ rows' = Append(rows, h) /\ todo' = t /\ sheets' = sheets
    BY <1>5 DEF Place
  <2>2. Printed' = (F \o Append(rows, h)) \o t
    BY <2>1 DEF Printed
  <2> HIDE DEF F, h, t
  <2> QED BY <1>4, <2>1, <2>2 DEF Printed, F
<1>6. CASE NewSheet
  <2>1. todo # <<>> /\ rows' = <<h>> /\ todo' = t /\ sheets' = Append(sheets, rows)
    BY <1>6 DEF NewSheet
  <2>2. Printed' = ((F \o rows) \o <<h>>) \o t
    BY <1>2, <2>1 DEF Printed
  <2> HIDE DEF F, h, t
  <2> QED BY <1>4, <2>1, <2>2 DEF Printed, F
<1>7. CASE LastSheet
  <2>1. todo' = todo /\ rows' = <<>> /\ sheets' = Append(sheets, rows)
    BY <1>7 DEF LastSheet
  <2>2. Printed' = ((F \o rows) \o <<>>) \o todo
    BY <1>2, <2>1 DEF Printed
  <2>3. (F \o rows) \o <<>> = F \o rows
    <3> HIDE DEF F
    <3> QED BY <1>3, ConcatEmptySeq
  <2> QED BY <2>2, <2>3 DEF Printed
<1> QED BY <1>5, <1>6, <1>7

\* A band is placed, a sheet is begun or the last one is finished.
LEMMA SheetsStep ==
  ASSUME NEW B, Sized(B), Placed(B), SheetsFull, Place \/ NewSheet \/ LastSheet
  PROVE  Placed(B)' /\ SheetsFull' /\ Printed' = Printed
<1> DEFINE h == Head(todo)
<1>0. Placed(B) /\ SheetsFull
  OBVIOUS
<1>2. Printed' = Printed
  BY PrintedKept
<1>4. /\ rows \in Seq(B) /\ sheets \in Seq(Seq(B)) /\ todo \in Seq(B)
      /\ rows = <<>> => used = 0 /\ (sheets = <<>> \/ todo = <<>>)
      /\ rows # <<>> => used = Height(rows) /\ (used <= ContentH \/ Len(rows) = 1)
  BY <1>0 DEF Placed
<1>5. BandGap \in Nat /\ ContentH \in Nat
  BY LayoutAssumption
<1>6. CASE Place
  <2>1. /\ todo # <<>> /\ (rows = <<>> \/ used + BandGap + h.height <= ContentH)
        /\ rows' = Append(rows, h)
        /\ used' = used + h.height + IF rows = <<>> THEN 0 ELSE BandGap
        /\ todo' = Tail(todo) /\ sheets' = sheets
    BY <1>6 DEF Place, Fits
  <2>2. /\ h.height \in Nat /\ todo' \in Seq(B) /\ rows' \in Seq(B) /\ rows' # <<>>
        /\ Len(rows') = Len(rows) + 1 /\ (rows # <<>> => rows'[1] = rows[1])
    <3>1. h \in B /\ h.height \in Nat /\ Tail(todo) \in Seq(B)
      BY <1>0, <2>1, NextBand
    <3> HIDE DEF h
    <3>2. /\ Append(rows, h) \in Seq(B) /\ Append(rows, h) # <<>>
          /\ Len(Append(rows, h)) = Len(rows) + 1
          /\ \A i \in 1 .. Len(rows) : Append(rows, h)[i] = rows[i]
      BY <1>4, <3>1, AppendProperties
    <3>3. rows # <<>> => 1 \in 1 .. Len(rows)
      BY <1>4
    <3> QED BY <2>1, <3>1, <3>2, <3>3
  <2>3. /\ Height(rows) \in Int /\ Height(rows') = Height(rows) + BandGap + h.height
        /\ rows = <<>> => Height(rows') = h.height
    BY <1>0, <2>1, NextHeight
  <2>4. used' = Height(rows') /\ (used' <= ContentH \/ Len(rows') = 1)
    <3> HIDE DEF h
    <3>1. CASE rows = <<>>
      BY <1>4, <2>1, <2>2, <2>3, <3>1
    <3>2. CASE rows # <<>>
      BY <1>4, <1>5, <2>1, <2>2, <2>3, <3>2
    <3> QED BY <3>1, <3>2
  <2>5. Placed(B)'
    BY <1>0, <1>4, <2>1, <2>2, <2>4 DEF Placed
  <2>6. SheetsFull'
    <3>1. CASE rows = <<>>
      <4>1. sheets' = <<>>
        BY <1>4, <2>1, <3>1
      <4> QED BY <4>1 DEF SheetsFull
    <3>2. CASE rows # <<>>
      <4>1. \A i \in DOMAIN sheets : Full(sheets[i], Following(i))
        BY <1>0, FullIs
      <4>2. \A i \in DOMAIN sheets : Full(sheets[i], Following(i)')
        BY <2>1, <2>2, <3>2, <4>1 DEF Full, Following
      <4>3. (\A i \in DOMAIN sheets : Full(sheets[i], Following(i)))'
        BY <2>1, <4>2 DEF Full
      <4>4. (SheetsFull <=> \A i \in DOMAIN sheets : Full(sheets[i], Following(i)))'
        BY FullIs, PTL
      <4> QED BY <4>3, <4>4
    <3> QED BY <3>1, <3>2
  <2> QED BY <1>2, <2>5, <2>6
<1>7. CASE NewSheet
  <2>1. /\ todo # <<>> /\ rows # <<>> /\ ~(used + BandGap + h.height <= ContentH)
        /\ used <= SheetH /\ sheets' = Append(sheets, rows) /\ rows' = <<h>>
        /\ used' = h.height /\ todo' = Tail(todo)
    BY <1>7 DEF NewSheet, Fits, Drawable
  <2>2. /\ h.height \in Nat /\ todo' \in Seq(B) /\ rows' \in Seq(B) /\ rows' # <<>>
        /\ Len(rows') = 1 /\ rows'[1] = h
    BY <1>0, <2>1, NextBand
  <2>3. Height(rows) \in Int /\ Height(rows') = h.height
    BY <1>0, <2>1, NextHeight
  <2>4. sheets' \in Seq(Seq(B))
    BY <1>4, <2>1
  <2>5. Placed(B)'
    BY <1>0, <2>1, <2>2, <2>3, <2>4 DEF Placed
  <2>6. Full(rows, rows')
    <3> HIDE DEF h
    <3>1. used = Height(rows) /\ (used <= ContentH \/ Len(rows) = 1)
      BY <1>4, <2>1
    <3>2. Height(rows) + BandGap + h.height > ContentH
      BY <1>5, <2>1, <2>2, <2>3, <3>1
    <3> QED BY <2>1, <2>2, <3>1, <3>2 DEF Full
  <2>7. SheetsFull'
    BY <1>0, <2>1, <2>6, SheetAdded
  <2> QED BY <1>2, <2>5, <2>7
<1>8. CASE LastSheet
  <2>1. /\ todo = <<>> /\ todo' = <<>> /\ rows # <<>> /\ used <= SheetH
        /\ sheets' = Append(sheets, rows) /\ rows' = <<>> /\ used' = 0
    BY <1>8 DEF LastSheet, Drawable
  <2>2. sheets' \in Seq(Seq(B)) /\ rows' \in Seq(B) /\ todo' \in Seq(B)
    BY <1>4, <2>1, EmptySeq
  <2>3. Placed(B)'
    BY <1>0, <2>1, <2>2 DEF Placed
  <2>4. Full(rows, rows')
    BY <1>4, <2>1 DEF Full
  <2>5. SheetsFull'
    BY <1>0, <2>1, <2>4, SheetAdded
  <2> QED BY <1>2, <2>3, <2>5
<1> QED BY <1>2, <1>6, <1>7, <1>8

-----------------------------------------------------------------------------
(* The canvas of a scrolling song *)

\* The frames and where they were measured to be.
Track == /\ at \in Seq(Nat) /\ offsets \in Seq(Nat)
         /\ Len(offsets) = Len(at) /\ 1 <= Len(at)
         /\ unresolved \subseteq 1 .. Len(at) - 1

\* Frame i has row y of the canvas.
Covers(i, y) == offsets[i] <= y /\ y < offsets[i] + L

Reached == \A y \in 0 .. Total - 1 : \E i \in 1 .. N : Covers(i, y)

\* No motion leaves the region; then what is measured is right.
Gentle == \A i \in 1 .. N - 1 : at[i + 1] - at[i] < L
Right  == Gentle /\ unresolved = {} => offsets = at

Lit      == \A k \in DOMAIN canvas : canvas[k] # Black
Faithful == Gentle /\ unresolved = {} /\ few = {} => \A k \in DOMAIN canvas : canvas[k] = k - 1

\* How far the canvas is at each stage.
Stage == /\ canvas \in Seq(Int)
         /\ pc = "film" => canvas = <<>>
         /\ pc \in {"layout", "done"} => Len(canvas) = Total

Inv == Track /\ Reached /\ Right /\ Stage /\ Lit /\ Faithful

LEMMA Sizes == /\ L \in Nat /\ 0 < L /\ BandRows \in Nat /\ 0 < BandRows /\ Half \in Nat
               /\ MinContributors \in Nat /\ 0 < MinContributors /\ Base \in 0 .. L - 1
               /\ MaxMotion \in Nat
BY ScrollAssumption, LayoutAssumption DEF Base

\* What a measurement may be: smaller than the region, and right for a motion
\* that does not leave it.
LEMMA MeasuredIs ==
  ASSUME NEW m \in Nat
  PROVE  Measured(m) \subseteq 0 .. L - 1 /\ (m < L => Measured(m) = {m})
BY Sizes DEF Measured, Matched, Correlated

LEMMA LastFrame == Track => /\ N \in Nat /\ 1 <= N /\ at[N] \in Nat /\ offsets[N] \in Nat
                            /\ Total \in Nat
                            /\ \A i \in 1 .. N : at[i] \in Nat /\ offsets[i] \in Nat
<1> SUFFICES ASSUME Track
             PROVE  /\ N \in Nat /\ 1 <= N /\ at[N] \in Nat /\ offsets[N] \in Nat
                    /\ Total \in Nat
                    /\ \A i \in 1 .. N : at[i] \in Nat /\ offsets[i] \in Nat
  OBVIOUS
<1>1. at \in Seq(Nat) /\ offsets \in Seq(Nat) /\ Len(at) = N /\ Len(offsets) = N /\ 1 <= N
  BY DEF Track, N
<1> HIDE DEF N
<1>2. N \in Nat /\ N \in 1 .. N
  BY <1>1
<1>3. \A i \in 1 .. N : at[i] \in Nat /\ offsets[i] \in Nat
  BY <1>1, <1>2
<1>4. Total \in Nat
  BY <1>2, <1>3, Sizes DEF Total
<1> QED BY <1>1, <1>2, <1>3, <1>4

\* A function on 1 .. n is a sequence.
LEMMA FunIsSeq ==
  ASSUME NEW n \in Nat, NEW f \in [1 .. n -> Int]
  PROVE  f \in Seq(Int) /\ Len(f) = n
OBVIOUS

-----------------------------------------------------------------------------
(* What a row of the canvas may show *)

LEMMA RowIsNotBlack ==
  ASSUME Track, NEW i \in 1 .. N, NEW y \in Nat
  PROVE  RowOf(i, y) \in Int /\ RowOf(i, y) # Black
BY LastFrame, Sizes DEF RowOf, White, Black

LEMMA LightestIsNotBlack ==
  ASSUME Track, NEW g \in SUBSET (1 .. N), g # {}, NEW y \in Nat
  PROVE  LightestRow(g, y) \in Int /\ LightestRow(g, y) # Black
<1> DEFINE all == {RowOf(i, y) : i \in g}
<1>1. all # {} /\ \A r \in all : r \in Int /\ r # Black
  BY RowIsNotBlack
<1>2. (CHOOSE r \in all : TRUE) \in all
  BY <1>1
<1>3. LightestRow(g, y) \in {White, Mixed} \cup all
  BY <1>1, <1>2 DEF LightestRow
<1> HIDE DEF all
<1> QED BY <1>1, <1>3 DEF White, Mixed, Black

LEMMA MedianIsNotBlack ==
  ASSUME Track, NEW g \in SUBSET (1 .. N), NEW y \in Nat
  PROVE  MedianRow(g, y) \in Int /\ MedianRow(g, y) # Black
<1> DEFINE all  == {RowOf(i, y) : i \in g}
           most == {r \in all : 2 * Cardinality({i \in g : RowOf(i, y) = r}) > Cardinality(g)}
<1>1. \A r \in most : r \in Int /\ r # Black
  BY RowIsNotBlack
<1>2. most # {} => (CHOOSE r \in most : TRUE) \in most
  OBVIOUS
<1>3. MedianRow(g, y) \in {Mixed} \cup most
  BY <1>2 DEF MedianRow
<1> HIDE DEF most
<1> QED BY <1>1, <1>3 DEF Mixed, Black

\* Frames that are where they were measured to be agree on every row they have.
LEMMA MedianIsRight ==
  ASSUME Track, offsets = at, NEW g \in SUBSET (1 .. N), NEW y \in Nat,
         Cardinality(g) >= MinContributors, \A i \in g : Covers(i, y)
  PROVE  MedianRow(g, y) = y
<1> DEFINE Same(r) == {i \in g : RowOf(i, y) = r}
           most == {r \in {RowOf(i, y) : i \in g} : 2 * Cardinality(Same(r)) > Cardinality(g)}
<1>1. \A i \in g : RowOf(i, y) = y
  BY LastFrame DEF RowOf, Covers
<1>2. IsFiniteSet(g) /\ Cardinality(g) \in Nat
  <2>1. IsFiniteSet(1 .. N)
    BY LastFrame, FS_Interval
  <2> QED BY <2>1, FS_Subset, FS_CardinalityType
<1>3. Cardinality(g) > 0 /\ g # {}
  BY <1>2, Sizes, FS_EmptySet
<1>4. Same(y) = g
  BY <1>1
<1>5. most = {y}
  <2>1. {RowOf(i, y) : i \in g} = {y}
    BY <1>1, <1>3
  <2>2. 2 * Cardinality(Same(y)) > Cardinality(g)
    BY <1>2, <1>3, <1>4
  <2> QED BY <2>1, <2>2
<1>6. MedianRow(g, y) = IF most = {} THEN Mixed ELSE CHOOSE r \in most : TRUE
  BY DEF MedianRow
<1> HIDE DEF most
<1> QED BY <1>5, <1>6

-----------------------------------------------------------------------------
LEMMA InitInv == Init => Inv
<1> SUFFICES ASSUME Init PROVE Inv
  OBVIOUS
<1>1. at = <<0>> /\ offsets = <<0>> /\ unresolved = {} /\ canvas = <<>> /\ pc = "film"
  BY DEF Init
<1>2. Track /\ Total = L /\ N = 1
  BY <1>1, Sizes DEF Track, Total, N
<1>3. Reached
  BY <1>1, <1>2, Sizes DEF Reached, Covers
<1> QED BY <1>1, <1>2, <1>3 DEF Inv, Right, Stage, Lit, Faithful

\* The canvas and the track, and so all that is said of them, stay.
LEMMA SameInv ==
  ASSUME Inv, UNCHANGED <<at, offsets, unresolved, canvas, few>>,
         pc' = "film" => canvas = <<>>,
         pc' \in {"layout", "done"} => Len(canvas) = Total
  PROVE  Inv'
BY DEF Inv, Track, Reached, Covers, Right, Gentle, Stage, Lit, Faithful, N, Total

\* The next frame begins within the one before it, or where it was put when
\* nothing was measured.
LEMMA FilmInv == ASSUME Inv, Film PROVE Inv'
<1>0. Track /\ Reached /\ Right /\ Stage /\ pc = "film" /\ canvas = <<>>
  BY DEF Inv, Stage, Film
<1>1. PICK m \in 0 .. MaxMotion, d \in 0 .. L - 1 :
        /\ at' = Append(at, at[N] + m)
        /\ offsets' = Append(offsets, offsets[N] + d)
        /\ \/ d \in Measured(m) /\ unresolved' = unresolved
           \/ unresolved' = unresolved \cup {N}
  <2>1. PICK m \in 0 .. MaxMotion :
        /\ at' = Append(at, at[N] + m)
        /\ \/ /\ \E d \in Measured(m) : offsets' = Append(offsets, offsets[N] + d)
              /\ unresolved' = unresolved
           \/ /\ offsets' = Append(offsets, offsets[N])
              /\ unresolved' = unresolved \cup {N}
    BY DEF Film, Unmeasured
  <2>2. CASE (\E d \in Measured(m) : offsets' = Append(offsets, offsets[N] + d))
             /\ unresolved' = unresolved
    BY <2>1, <2>2, Sizes, MeasuredIs
  <2>3. CASE offsets' = Append(offsets, offsets[N]) /\ unresolved' = unresolved \cup {N}
    <3>1. offsets[N] = offsets[N] + 0 /\ 0 \in 0 .. L - 1
      BY <1>0, LastFrame, Sizes
    <3> QED BY <2>1, <2>3, <3>1
  <2> QED BY <2>1, <2>2, <2>3
<1>2. UNCHANGED <<canvas, few, pc>>
  BY DEF Film
<1>3. /\ N \in Nat /\ 1 <= N /\ at[N] \in Nat /\ offsets[N] \in Nat
      /\ at[N] + m \in Nat /\ offsets[N] + d \in Nat /\ m \in Nat
  BY <1>0, LastFrame, Sizes
<1>4. /\ at' \in Seq(Nat) /\ offsets' \in Seq(Nat) /\ N' = N + 1 /\ Len(offsets') = N + 1
      /\ \A i \in 1 .. N : at'[i] = at[i] /\ offsets'[i] = offsets[i]
      /\ at'[N + 1] = at[N] + m /\ offsets'[N + 1] = offsets[N] + d
  <2>1. /\ at \in Seq(Nat) /\ offsets \in Seq(Nat) /\ Len(at) = N /\ Len(offsets) = N
    BY <1>0 DEF Track, N
  <2>2. /\ at' \in Seq(Nat) /\ Len(at') = N + 1 /\ at'[N + 1] = at[N] + m
        /\ \A i \in 1 .. N : at'[i] = at[i]
    BY <1>1, <1>3, <2>1
  <2>3. /\ offsets' \in Seq(Nat) /\ Len(offsets') = N + 1 /\ offsets'[N + 1] = offsets[N] + d
        /\ \A i \in 1 .. N : offsets'[i] = offsets[i]
    BY <1>1, <1>3, <2>1
  <2>4. N' = N + 1
    BY <2>2 DEF N
  <2> QED BY <2>2, <2>3, <2>4
<1>5. Track'
  <2>1. unresolved \subseteq 1 .. N - 1 /\ unresolved' \subseteq unresolved \cup {N}
    BY <1>0, <1>1 DEF Track, N
  <2>2. unresolved' \subseteq 1 .. N' - 1
    <3>1. N' - 1 = N /\ N \in 1 .. N
      BY <1>3, <1>4
    <3> HIDE DEF N
    <3> QED BY <1>3, <2>1, <3>1
  <2>3. N' = Len(at')
    BY DEF N
  <2> HIDE DEF N
  <2> QED BY <1>3, <1>4, <2>2, <2>3 DEF Track
<1>6. Total' = Total + d
  BY <1>3, <1>4, Sizes DEF Total
<1>7. Reached'
  <2> SUFFICES ASSUME NEW y \in 0 .. Total' - 1 PROVE \E i \in 1 .. N' : Covers(i, y)'
    BY DEF Reached
  <2>1. CASE y \in 0 .. Total - 1
    <3>1. PICK i \in 1 .. N : Covers(i, y)
      BY <1>0, <2>1 DEF Reached
    <3>2. Covers(i, y)' /\ i \in 1 .. N'
      BY <1>3, <1>4, <3>1 DEF Covers
    <3> QED BY <3>2
  <2>2. CASE y \notin 0 .. Total - 1
    <3>1. y \in Int /\ Total <= y /\ y < Total + d /\ Total = offsets[N] + L /\ Total \in Nat
      BY <1>0, <1>6, <2>2, LastFrame DEF Total
    <3>2. offsets'[N'] = offsets[N] + d /\ N' \in 1 .. N'
      BY <1>3, <1>4
    <3>3. offsets'[N'] <= y /\ y < offsets'[N'] + L
      BY <1>3, <3>1, <3>2, Sizes
    <3> QED BY <3>2, <3>3 DEF Covers
  <2> QED BY <2>1, <2>2
<1>8. Right'
  <2> SUFFICES ASSUME Gentle', unresolved' = {} PROVE offsets' = at'
    BY DEF Right
  <2>1. d \in Measured(m) /\ unresolved = {}
    BY <1>1
  <2>2. Gentle
    BY <1>3, <1>4 DEF Gentle
  <2>3. m < L
    <3>1. N \in 1 .. N' - 1
      BY <1>3, <1>4
    <3>2. at'[N + 1] - at'[N] < L
      BY <3>1 DEF Gentle
    <3>3. at'[N] = at[N] /\ at'[N + 1] = at[N] + m
      BY <1>3, <1>4
    <3> QED BY <1>3, <3>2, <3>3, Sizes
  <2>4. d = m /\ offsets = at
    BY <1>0, <1>3, <2>1, <2>2, <2>3, MeasuredIs DEF Right
  <2> QED BY <1>1, <2>4
<1>9. Stage' /\ Lit' /\ Faithful'
  BY <1>0, <1>2 DEF Stage, Lit, Faithful
<1> QED BY <1>5, <1>7, <1>8, <1>9 DEF Inv

\* The rows that are added are those of frames that reach them.
LEMMA ComposeInv == ASSUME Inv, ComposeBand PROVE Inv'
<1> DEFINE y0 == Len(canvas)
           y1 == Smaller(y0 + BandRows, Total)
           whole == Whole(y0, y1)
           scarce == Cardinality(whole) < MinContributors
           R(y) == IF scarce THEN LightestRow(Part(y0, y1), y) ELSE MedianRow(whole, y)
           band == [k \in 1 .. y1 - y0 |-> R(y0 + k - 1)]
<1>0. Track /\ Reached /\ Right /\ Stage /\ Lit /\ Faithful
  BY DEF Inv
<1>1. /\ pc = "compose" /\ y0 < Total
      /\ canvas' = canvas \o band
      /\ few' = IF scarce THEN few \cup {y0} ELSE few
      /\ UNCHANGED <<at, offsets, unresolved, pc>>
  BY DEF ComposeBand
<1>2. /\ y0 \in Nat /\ Total \in Nat /\ y1 \in Nat /\ y0 < y1 /\ y1 <= Total
      /\ canvas \in Seq(Int)
  BY <1>0, <1>1, LastFrame, Sizes DEF Stage, Smaller
<1>3. whole \in SUBSET (1 .. N) /\ Part(y0, y1) \in SUBSET (1 .. N)
  BY DEF Whole, Part
<1>4. ASSUME NEW y \in y0 .. y1 - 1 PROVE R(y) \in Int /\ R(y) # Black
  <2>1. y \in Nat /\ y \in 0 .. Total - 1
    BY <1>2
  <2>2. PICK i \in 1 .. N : Covers(i, y)
    BY <1>0, <2>1 DEF Reached
  <2>3. i \in Part(y0, y1)
    BY <1>0, <1>2, <2>1, <2>2, LastFrame, Sizes DEF Part, Covers
  <2>4. LightestRow(Part(y0, y1), y) \in Int /\ LightestRow(Part(y0, y1), y) # Black
    BY <1>0, <1>3, <2>1, <2>3, LightestIsNotBlack
  <2>5. MedianRow(whole, y) \in Int /\ MedianRow(whole, y) # Black
    BY <1>0, <1>3, <2>1, MedianIsNotBlack
  <2> QED BY <2>4, <2>5
<1>5. ASSUME Gentle, unresolved = {}, ~scarce, NEW y \in y0 .. y1 - 1 PROVE R(y) = y
  <2>1. offsets = at /\ y \in Nat
    BY <1>0, <1>2, <1>5 DEF Right
  <2>2. \A i \in whole : Covers(i, y)
    BY <1>0, <1>2, LastFrame, Sizes DEF Whole, Covers
  <2>3. Cardinality(whole) >= MinContributors
    <3>1. IsFiniteSet(whole)
      <4>1. IsFiniteSet(1 .. N)
        BY <1>0, LastFrame, FS_Interval
      <4> QED BY <1>3, <4>1, FS_Subset
    <3>2. Cardinality(whole) \in Nat
      BY <3>1, FS_CardinalityType
    <3> QED BY <1>5, <3>2, Sizes
  <2> QED BY <1>0, <1>3, <1>5, <2>1, <2>2, <2>3, MedianIsRight
<1> HIDE DEF R
<1>6. /\ \A k \in 1 .. y1 - y0 : y0 + k - 1 \in y0 .. y1 - 1 /\ band[k] = R(y0 + k - 1)
      /\ band \in Seq(Int) /\ Len(band) = y1 - y0
  <2>1. \A k \in 1 .. y1 - y0 : y0 + k - 1 \in y0 .. y1 - 1
    BY <1>2
  <2>2. band \in [1 .. y1 - y0 -> Int]
    BY <1>4, <2>1
  <2>3. y1 - y0 \in Nat
    BY <1>2
  <2>4. band \in Seq(Int) /\ Len(band) = y1 - y0
    <3> HIDE DEF band
    <3> QED BY <2>2, <2>3, FunIsSeq
  <2> QED BY <2>1, <2>4
<1> HIDE DEF band, y1
<1>7. /\ canvas' \in Seq(Int) /\ DOMAIN canvas' = 1 .. y0 + Len(band)
      /\ \A k \in DOMAIN canvas' :
           canvas'[k] = IF k <= y0 THEN canvas[k] ELSE band[k - y0]
  BY <1>1, <1>2, <1>6
<1>8. \A k \in DOMAIN canvas' : \/ k \in DOMAIN canvas /\ canvas'[k] = canvas[k]
                                \/ k - 1 \in y0 .. y1 - 1 /\ canvas'[k] = R(k - 1)
  <2> SUFFICES ASSUME NEW k \in DOMAIN canvas'
               PROVE  \/ k \in DOMAIN canvas /\ canvas'[k] = canvas[k]
                      \/ k - 1 \in y0 .. y1 - 1 /\ canvas'[k] = R(k - 1)
    OBVIOUS
  <2>1. k \in 1 .. y1
    BY <1>2, <1>6, <1>7
  <2>2. CASE k <= y0
    BY <1>2, <1>7, <2>1, <2>2
  <2>3. CASE k > y0
    <3>1. k - y0 \in 1 .. y1 - y0 /\ y0 + (k - y0) - 1 = k - 1
      BY <1>2, <2>1, <2>3
    <3>2. band[k - y0] = R(y0 + (k - y0) - 1) /\ y0 + (k - y0) - 1 \in y0 .. y1 - 1
      BY <1>6, <3>1
    <3>3. canvas'[k] = band[k - y0]
      BY <1>2, <1>7, <2>1, <2>3
    <3> QED BY <3>1, <3>2, <3>3
  <2> QED BY <1>2, <2>1, <2>2, <2>3
<1>9. Track' /\ Reached' /\ Right'
  BY <1>0, <1>1 DEF Track, Reached, Covers, Right, Gentle, N, Total
<1>10. Stage'
  BY <1>1, <1>7 DEF Stage
<1>11. Lit'
  BY <1>0, <1>4, <1>8 DEF Lit
<1>12. Faithful'
  <2> SUFFICES ASSUME Gentle, unresolved = {}, few' = {}, NEW k \in DOMAIN canvas'
               PROVE  canvas'[k] = k - 1
    BY <1>1 DEF Faithful, Gentle, N
  <2>1. ~scarce /\ few = {}
    BY <1>1
  <2> HIDE DEF scarce
  <2> QED BY <1>0, <1>5, <1>8, <2>1 DEF Faithful
<1> QED BY <1>9, <1>10, <1>11, <1>12 DEF Inv

LEMMA StepInv == Inv /\ [Next]_vars => Inv'
<1> SUFFICES ASSUME Inv, [Next]_vars PROVE Inv'
  OBVIOUS
<1>1. CASE Filmed
  BY <1>1, SameInv DEF Filmed
<1>2. CASE Cut
  BY <1>2, SameInv DEF Cut
<1>3. CASE LayOut /\ UNCHANGED scrollVars
  BY <1>3, SameInv DEF LayOut, scrollVars, Inv, Stage
<1>4. CASE Save /\ UNCHANGED scrollVars
  BY <1>4, SameInv DEF Save, scrollVars, layoutVars, Inv, Stage
<1>5. CASE UNCHANGED vars
  BY <1>5, SameInv DEF vars, scrollVars, Inv, Stage
<1> QED BY <1>1, <1>2, <1>3, <1>4, <1>5, FilmInv, ComposeInv DEF Next

LEMMA AlwaysInv == Spec => []Inv
BY InitInv, StepInv, PTL DEF Spec

-----------------------------------------------------------------------------
(* Whatever the motions of the video and however they were measured, every   *)
(* row of the canvas is in reach of a frame, and none stays black: what is   *)
(* accepted as a displacement is smaller than the region (compose.py:126,    *)
(* 130), so that each frame begins where the one before it has not ended,    *)
(* and the rows of a band are in reach of one of its frames (178, 197-212).  *)
THEOREM CanvasIsCovered == Spec => []CanvasCovered
<1>1. Inv => CanvasCovered
  BY DEF Inv, Reached, Covers, Lit, CanvasCovered
<1> QED BY <1>1, AlwaysInv, PTL

(* When no motion leaves the region, every pair was measured and every band  *)
(* has enough frames, the canvas is the score, row by row: measurements are  *)
(* right, they add up to the places of the frames, and frames that are where *)
(* they are taken to be agree on each row (compose.py:121-144, 197-212).     *)
THEOREM ScoreIsKept == Spec => []ScoreOrReport
<1>1. Inv => ScoreOrReport
  <2> SUFFICES ASSUME Inv, pc \in {"layout", "done"}, few = {}, Gentle, OverlapOk
               PROVE  canvas = [k \in 1 .. at[N] + L |-> k - 1]
    BY DEF ScoreOrReport, Gentle
  <2>1. unresolved = {}
    BY LastFrame DEF Inv, Track, OverlapOk, N
  <2>2. Len(canvas) = at[N] + L /\ canvas \in Seq(Int)
    BY <2>1 DEF Inv, Right, Stage, Total
  <2>3. \A k \in 1 .. at[N] + L : canvas[k] = k - 1
    BY <2>1, <2>2 DEF Inv, Faithful
  <2> QED BY <2>2, <2>3
<1> QED BY <1>1, AlwaysInv, PTL

-----------------------------------------------------------------------------
(* What a cut canvas prints *)

\* A block lies on the canvas, below the ones before it, and begins at the top
\* or on a row without ink; and whatever ink there is lies in one of them.
Separate(S) == \A p, q \in S : p[1] < q[1] => p[2] <= q[1]
Clean(S)    == \A p \in S : p[1] = 0 \/ Blank(p[1])
Holds(S)    == \A a \in Rows, b \in 1 .. Len(canvas) :
                  b - a > MinInk /\ Ink(a, b) = a .. b - 1
                  => \E p \in S : p[1] <= a /\ b <= p[2]
Spans       == {p \in (0 .. Len(canvas)) \X (0 .. Len(canvas)) : p[1] < p[2]}

LEMMA CentreIsBlank ==
  ASSUME canvas \in Seq(Int), NEW g \in Gaps
  PROVE  Centre(g) \in 0 .. Len(canvas) - 1 /\ Blank(Centre(g))
<1>1. /\ g[1] \in 0 .. Len(canvas) - 1 /\ g[2] \in 1 .. Len(canvas) /\ g[1] < g[2]
      /\ Ink(g[1], g[2]) = {} /\ Len(canvas) \in Nat
  BY DEF Gaps, Rows
<1>2. Centre(g) \in Int /\ g[1] <= Centre(g) /\ Centre(g) < g[2]
  <2> DEFINE x == g[1]
             y == g[2]
  <2>1. x \in Nat /\ y \in Nat /\ x < y
    BY <1>1
  <2>2. Centre(g) = ((x + y) \div 2)
    BY DEF Centre
  <2> HIDE DEF x, y
  <2>3. ((x + y) \div 2) \in Int /\ x <= ((x + y) \div 2) /\ ((x + y) \div 2) < y
    BY <2>1
  <2>4. Centre(g) \in Int /\ x <= Centre(g) /\ Centre(g) < y
    BY <2>2, <2>3
  <2> QED BY <2>4 DEF x, y
<1>3. Centre(g) \in g[1] .. g[2] - 1
  BY <1>1, <1>2
<1>4. Blank(Centre(g))
  BY <1>1, <1>3 DEF Ink
<1> QED BY <1>1, <1>2, <1>4

\* Two ends of a set of cuts with ink between them are those of a block.
LEMMA InkInBlock ==
  ASSUME canvas \in Seq(Int), NEW cuts \in SUBSET (0 .. Len(canvas)),
         0 \in cuts, Len(canvas) \in cuts,
         \A c \in cuts : c \in {0, Len(canvas)} \/ Blank(c),
         NEW a \in Rows, NEW b \in 1 .. Len(canvas),
         b - a > MinInk, Ink(a, b) = a .. b - 1
  PROVE  \E p \in cuts \X cuts :
            /\ p[1] <= a /\ b <= p[2]
            /\ \A c \in cuts : c <= p[1] \/ p[2] <= c
            /\ Cardinality(Ink(p[1], p[2])) > MinInk
<1> DEFINE n == Len(canvas)
<1>1. n \in Nat /\ MinInk \in Nat /\ a \in 0 .. n - 1 /\ b \in 1 .. n /\ a < b
  BY ScrollAssumption DEF Rows
<1>2. ASSUME NEW c \in cuts PROVE c \in 0 .. n /\ (c <= a \/ b <= c)
  <2>1. SUFFICES ASSUME a < c, c < b PROVE FALSE
    BY <1>1
  <2>2. c \in a .. b - 1 /\ c # 0 /\ c # n
    BY <1>1, <2>1
  <2>3. Blank(c) /\ c \in Ink(a, b)
    BY <2>2
  <2> QED BY <2>3 DEF Ink
<1>3. PICK lo \in cuts : lo <= a /\ \A c \in cuts : c <= a => c <= lo
  <2> DEFINE below == {c \in cuts : c <= a}
  <2>1. below \in SUBSET (0 .. n) /\ below # {}
    <3>1. 0 \in below
      BY <1>1
    <3> QED BY <3>1
  <2>2. PICK x \in below : \A y \in below : y <= x
    <3> HIDE DEF below
    <3> QED BY <1>1, <2>1, GreatestMember
  <2> QED BY <2>2
<1>4. PICK hi \in cuts : b <= hi /\ \A c \in cuts : b <= c => hi <= c
  <2> DEFINE above == {c \in cuts : b <= c}
  <2>1. above \subseteq Nat
    <3>1. \A c \in cuts : c \in Nat
      BY <1>2
    <3> QED BY <3>1
  <2>2. n \in above
    BY <1>1
  <2>3. PICK x \in above : \A y \in above : x <= y
    <3> HIDE DEF above
    <3> QED BY <2>1, <2>2, LeastMember
  <2> QED BY <2>3
<1>5. \A c \in cuts : c <= lo \/ hi <= c
  BY <1>2, <1>3, <1>4
<1>6. a .. b - 1 \subseteq Ink(lo, hi)
  <2> SUFFICES ASSUME NEW y \in a .. b - 1 PROVE y \in Ink(lo, hi)
    OBVIOUS
  <2>1. y \in Ink(a, b) /\ y \in lo .. hi - 1
    BY <1>1, <1>2, <1>3, <1>4
  <2> QED BY <2>1 DEF Ink
<1>7. Cardinality(Ink(lo, hi)) > MinInk
  <2>1. lo \in Int /\ hi - 1 \in Int /\ a \in Int /\ b - 1 \in Int
    BY <1>1, <1>2
  <2>2. IsFiniteSet(lo .. hi - 1) /\ Cardinality(a .. b - 1) = b - a
    <3>1. IsFiniteSet(lo .. hi - 1)
      BY <2>1, FS_Interval
    <3>2. Cardinality(a .. b - 1) = IF a > b - 1 THEN 0 ELSE (b - 1) - a + 1
      BY <2>1, FS_Interval
    <3> QED BY <1>1, <3>1, <3>2
  <2>3. IsFiniteSet(Ink(lo, hi))
    <3>1. Ink(lo, hi) \subseteq lo .. hi - 1
      BY DEF Ink
    <3> QED BY <2>2, <3>1, FS_Subset
  <2>4. Cardinality(a .. b - 1) <= Cardinality(Ink(lo, hi)) /\ Cardinality(Ink(lo, hi)) \in Nat
    BY <1>6, <2>3, FS_Subset, FS_CardinalityType
  <2> QED BY <1>1, <2>2, <2>4
<1> DEFINE p == <<lo, hi>>
<1>8. p \in cuts \X cuts /\ p[1] = lo /\ p[2] = hi
  OBVIOUS
<1> QED BY <1>3, <1>4, <1>5, <1>7, <1>8

LEMMA BlocksAre ==
  ASSUME canvas \in Seq(Int), Len(canvas) > 0, NEW gaps \in SUBSET Gaps
  PROVE  /\ Blocks(gaps) \subseteq Spans
         /\ Separate(Blocks(gaps)) /\ Clean(Blocks(gaps)) /\ Holds(Blocks(gaps))
<1> DEFINE n == Len(canvas)
           cuts == {0, n} \cup {Centre(g) : g \in gaps}
           pairs == {p \in cuts \X cuts :
                       p[1] < p[2] /\ \A c \in cuts : c <= p[1] \/ p[2] <= c}
           inked == {p \in pairs : Cardinality(Ink(p[1], p[2])) > MinInk}
<1>1. n \in Nat /\ n > 0
  OBVIOUS
<1>2. Blocks(gaps) = IF inked = {} THEN {<<0, n>>} ELSE inked
  BY DEF Blocks
<1>3. \A c \in cuts : c \in 0 .. n /\ (c \in {0, n} \/ Blank(c))
  BY <1>1, CentreIsBlank
<1>4. 0 \in cuts /\ n \in cuts
  OBVIOUS
<1> HIDE DEF cuts
<1>5. \A p \in pairs : /\ p[1] \in cuts /\ p[2] \in cuts /\ p = <<p[1], p[2]>>
                       /\ p[1] < p[2] /\ \A c \in cuts : c <= p[1] \/ p[2] <= c
  OBVIOUS
<1>6. Holds(Blocks(gaps))
  <2> SUFFICES ASSUME NEW a \in Rows, NEW b \in 1 .. n,
                      b - a > MinInk, Ink(a, b) = a .. b - 1
               PROVE  \E p \in Blocks(gaps) : p[1] <= a /\ b <= p[2]
    BY DEF Holds
  <2>1. cuts \in SUBSET (0 .. n)
    BY <1>3
  <2>2. PICK p \in cuts \X cuts :
            /\ p[1] <= a /\ b <= p[2]
            /\ \A c \in cuts : c <= p[1] \/ p[2] <= c
            /\ Cardinality(Ink(p[1], p[2])) > MinInk
    BY <1>3, <1>4, <2>1, InkInBlock
  <2>3. a < b /\ a \in Int /\ b \in Int
    BY ScrollAssumption DEF Rows
  <2>4. p[1] \in cuts /\ p[2] \in cuts /\ p[1] \in 0 .. n /\ p[2] \in 0 .. n
    BY <1>3, <2>2
  <2>5. p[1] < p[2]
    BY <2>2, <2>3, <2>4
  <2>6. p \in inked
    BY <2>2, <2>5
  <2> HIDE DEF inked
  <2> QED BY <1>2, <2>2, <2>6
<1>7. CASE inked = {}
  <2>1. Blocks(gaps) = {<<0, n>>}
    BY <1>2, <1>7
  <2> HIDE DEF inked
  <2> QED BY <1>1, <1>6, <2>1 DEF Spans, Separate, Clean
<1>8. CASE inked # {}
  <2>1. Blocks(gaps) = inked /\ inked \subseteq pairs
    BY <1>2, <1>8
  <2> HIDE DEF inked, pairs
  <2>2. \A p \in Blocks(gaps) :
            /\ p[1] \in cuts /\ p[2] \in cuts /\ p = <<p[1], p[2]>>
            /\ p[1] < p[2] /\ \A c \in cuts : c <= p[1] \/ p[2] <= c
    BY <1>5, <2>1
  <2>3. ASSUME NEW p \in Blocks(gaps) PROVE p \in Spans
    <3>1. p[1] \in 0 .. n /\ p[2] \in 0 .. n /\ p = <<p[1], p[2]>> /\ p[1] < p[2]
      BY <1>3, <2>2
    <3> QED BY <3>1 DEF Spans
  <2>4. Separate(Blocks(gaps))
    <3> SUFFICES ASSUME NEW p \in Blocks(gaps), NEW q \in Blocks(gaps), p[1] < q[1]
                 PROVE  p[2] <= q[1]
      BY DEF Separate
    <3>1. q[1] \in cuts /\ q[1] \in 0 .. n /\ p[1] \in 0 .. n
      BY <1>3, <2>2
    <3>2. q[1] <= p[1] \/ p[2] <= q[1]
      BY <2>2, <3>1
    <3> QED BY <3>1, <3>2
  <2>5. Clean(Blocks(gaps))
    <3> SUFFICES ASSUME NEW p \in Blocks(gaps) PROVE p[1] = 0 \/ Blank(p[1])
      BY DEF Clean
    <3>1. p[1] \in 0 .. n /\ p[2] \in 0 .. n /\ p[1] < p[2] /\ (p[1] \in {0, n} \/ Blank(p[1]))
      BY <1>3, <2>2
    <3> QED BY <3>1
  <2> QED BY <1>6, <2>3, <2>4, <2>5
<1> QED BY <1>7, <1>8

\* A sequence of blocks in order has them all.
LEMMA OrderHasAll ==
  ASSUME canvas \in Seq(Int), NEW S \in SUBSET Spans, NEW s \in InOrder(S)
  PROVE  /\ Cardinality(S) \in Nat
         /\ s \in [1 .. Cardinality(S) -> S]
         /\ \A j, k \in 1 .. Cardinality(S) : j < k => s[j][1] < s[k][1]
         /\ \A p \in S : \E k \in 1 .. Cardinality(S) : s[k] = p
<1> DEFINE m == Cardinality(S)
<1>1. IsFiniteSet(S) /\ m \in Nat
  <2> DEFINE I == 0 .. Len(canvas)
  <2>1. IsFiniteSet(I)
    <3>1. 0 \in Int /\ Len(canvas) \in Int
      OBVIOUS
    <3> QED BY <3>1, FS_Interval
  <2>2. IsFiniteSet(I \X I)
    <3> HIDE DEF I
    <3> QED BY <2>1, FS_Product
  <2>3. S \subseteq I \X I
    BY DEF Spans
  <2>4. IsFiniteSet(S)
    <3> HIDE DEF I
    <3> QED BY <2>2, <2>3, FS_Subset
  <2> QED BY <2>4, FS_CardinalityType
<1>2. s \in [1 .. m -> S] /\ \A j, k \in 1 .. m : j < k => s[j][1] < s[k][1]
  BY DEF InOrder
<1>3. \A p \in S : p[1] \in Int
  BY DEF Spans
<1> HIDE DEF m
<1>4. s \in Injection(1 .. m, S)
  <2>1. ASSUME NEW j \in 1 .. m, NEW k \in 1 .. m, s[j] = s[k] PROVE j = k
    <3>1. s[j] \in S /\ s[j][1] \in Int
      BY <1>2, <1>3
    <3>2. ~(j < k) /\ ~(k < j)
      BY <1>2, <2>1, <3>1
    <3> QED BY <1>1, <3>2
  <2> QED BY <1>2, <2>1 DEF Injection, IsInjective
<1>5. Cardinality(1 .. m) = m
  <2>1. 1 \in Int /\ m \in Int
    BY <1>1
  <2>2. Cardinality(1 .. m) = IF 1 > m THEN 0 ELSE m - 1 + 1
    BY <2>1, FS_Interval
  <2> QED BY <1>1, <2>2
<1>6. s \in Surjection(1 .. m, S)
  BY <1>1, <1>4, <1>5, FS_Injection DEF m
<1>7. \A p \in S : \E k \in 1 .. m : s[k] = p
  BY <1>6 DEF Surjection
<1> QED BY <1>1, <1>2, <1>7 DEF m

-----------------------------------------------------------------------------
(* The systems of the canvas on the sheets *)

\* What InkPrinted says of the bands in the order in which they are printed.
Shows(P) ==
    LET B == [k \in DOMAIN P |-> P[k].rows]
    IN  /\ \A a \in Rows, b \in 1 .. Len(canvas) :
              b - a > MinInk /\ Ink(a, b) = a .. b - 1
              => \E k \in DOMAIN B : B[k][1] <= a /\ b <= B[k][2]
        /\ \A k \in 1 .. Len(B) - 1 : B[k][2] <= B[k + 1][1]
        /\ \A k \in DOMAIN B : B[k][1] = 0 \/ Blank(B[k][1])

LEMMA ShowsIs == InkPrinted <=> (pc \in {"layout", "done"} => Shows(Printed))
BY DEF InkPrinted, Shows

LEMMA ShowsKept ==
  ASSUME NEW P, Shows(P), Printed' = P, canvas' = canvas
  PROVE  Shows(Printed)'
<1> DEFINE B == [k \in DOMAIN P |-> P[k].rows]
<1>1. /\ \A a \in Rows, b \in 1 .. Len(canvas) :
           b - a > MinInk /\ Ink(a, b) = a .. b - 1
           => \E k \in DOMAIN B : B[k][1] <= a /\ b <= B[k][2]
      /\ \A k \in 1 .. Len(B) - 1 : B[k][2] <= B[k + 1][1]
      /\ \A k \in DOMAIN B : B[k][1] = 0 \/ Blank(B[k][1])
  BY DEF Shows
<1>2. Rows' = Rows /\ \A y : Blank(y)' <=> Blank(y)
  BY DEF Rows, Blank
<1>3. \A a, b : Ink(a, b)' = Ink(a, b)
  BY <1>2 DEF Ink
<1> HIDE DEF B
<1>4. /\ \A a \in Rows', b \in 1 .. Len(canvas') :
           b - a > MinInk /\ Ink(a, b)' = a .. b - 1
           => \E k \in DOMAIN B : B[k][1] <= a /\ b <= B[k][2]
      /\ \A k \in 1 .. Len(B) - 1 : B[k][2] <= B[k + 1][1]
      /\ \A k \in DOMAIN B : B[k][1] = 0 \/ Blank(B[k][1])'
  BY <1>1, <1>2, <1>3
<1>5. [k \in DOMAIN Printed' |-> Printed'[k].rows] = B
  BY DEF B
<1> HIDE DEF Printed
<1> QED BY <1>4, <1>5 DEF Shows

\* What is on the sheets of a song, and what is printed.
Systems == [rows : Int \X Int, height : Nat]

Laid == /\ Placed(Systems) /\ SheetsFull /\ InkPrinted
        /\ pc \in {"film", "compose"} => LayoutInit

LEMMA SystemsSized == Sized(Systems)
BY DEF Sized, Systems

\* A band is placed, a sheet is begun or the last one is finished.
LEMMA LayOutLaid == ASSUME Laid, LayOut, UNCHANGED scrollVars PROVE Laid'
<1>0. Placed(Systems) /\ SheetsFull /\ InkPrinted /\ pc = "layout" /\ pc' = pc
  BY DEF Laid, LayOut
<1>1. canvas' = canvas /\ (Place \/ NewSheet \/ LastSheet)
  BY DEF LayOut, scrollVars
<1>2. Placed(Systems)' /\ SheetsFull' /\ Printed' = Printed
  BY <1>0, <1>1, SystemsSized, SheetsStep
<1>3. InkPrinted'
  <2>1. (InkPrinted <=> (pc \in {"layout", "done"} => Shows(Printed)))'
    BY ShowsIs, PTL
  <2>2. Shows(Printed)'
    <3>1. Shows(Printed)
      BY <1>0, ShowsIs
    <3> QED BY <1>1, <1>2, <3>1, ShowsKept
  <2> QED BY <2>1, <2>2
<1> QED BY <1>0, <1>2, <1>3 DEF Laid

\* The canvas is cut: nothing is on a sheet yet, and the blocks in their order
\* are what is printed.
LEMMA CutLaid == ASSUME Inv, Laid, Cut PROVE Laid'
<1>0. Placed(Systems) /\ LayoutInit /\ canvas \in Seq(Int) /\ Len(canvas) > 0
  <2>1. pc = "compose" /\ Len(canvas) = Total /\ Laid /\ Track
    BY DEF Cut, Laid, Inv
  <2>2. Total > 0
    <3>1. offsets[N] \in Nat
      BY <2>1, LastFrame
    <3> QED BY <3>1, Sizes DEF Total
  <2> QED BY <2>1, <2>2 DEF Laid, Inv, Stage
<1>a. PICK gaps \in SUBSET Gaps : \E s \in InOrder(Blocks(gaps)) :
        todo' = [k \in DOMAIN s |-> [rows |-> s[k], height |-> s[k][2] - s[k][1]]]
  BY DEF Cut
<1>1. PICK s \in InOrder(Blocks(gaps)) :
        todo' = [k \in DOMAIN s |-> [rows |-> s[k], height |-> s[k][2] - s[k][1]]]
  BY <1>a
<1>2. UNCHANGED <<canvas, rows, used, sheets>> /\ pc' = "layout"
  BY DEF Cut
<1> DEFINE S == Blocks(gaps)
           m == Cardinality(S)
<1>3. S \in SUBSET Spans /\ Separate(S) /\ Clean(S) /\ Holds(S)
  BY <1>0, BlocksAre
<1>4. /\ m \in Nat /\ s \in [1 .. m -> S]
      /\ \A j, k \in 1 .. m : j < k => s[j][1] < s[k][1]
      /\ \A p \in S : \E k \in 1 .. m : s[k] = p
  <2> HIDE DEF S
  <2> QED BY <1>0, <1>1, <1>3, OrderHasAll DEF S
<1> HIDE DEF m, S
<1>5. /\ DOMAIN todo' = 1 .. m /\ \A k \in 1 .. m : todo'[k].rows = s[k]
      /\ todo' = [k \in 1 .. m |-> [rows |-> s[k], height |-> s[k][2] - s[k][1]]]
  BY <1>1, <1>4
<1>6. todo' \in Seq(Systems) /\ Len(todo') = m
  <2>1. ASSUME NEW k \in 1 .. m
        PROVE  [rows |-> s[k], height |-> s[k][2] - s[k][1]] \in Systems
    <3>1. s[k] \in Int \X Int /\ s[k][1] \in Int /\ s[k][2] \in Int /\ s[k][1] < s[k][2]
      BY <1>3, <1>4 DEF Spans
    <3>2. s[k][2] - s[k][1] \in Nat
      BY <3>1
    <3> QED BY <3>1, <3>2 DEF Systems
  <2>2. todo' \in [1 .. m -> Systems]
    BY <1>5, <2>1
  <2> QED BY <1>4, <2>2
<1>7. Placed(Systems)' /\ SheetsFull'
  <2>1. rows' = <<>> /\ sheets' = <<>> /\ used' = 0
    BY <1>0, <1>2 DEF LayoutInit
  <2> QED BY <1>2, <1>6, <2>1, EmptySeq DEF Placed, SheetsFull
<1>8. Printed' = todo'
  <2>1. Printed' = (<<>> \o <<>>) \o todo'
    BY <1>0, <1>2 DEF Printed, LayoutInit, FlattenSeq
  <2> QED BY <1>6, <2>1, ConcatEmptySeq, EmptySeq
<1>9. Shows(todo')
  <2> DEFINE B == [k \in DOMAIN todo' |-> todo'[k].rows]
  <2>1. DOMAIN B = 1 .. m /\ Len(B) = m /\ \A k \in 1 .. m : B[k] = s[k] /\ s[k] \in S
    BY <1>4, <1>5
  <2> HIDE DEF B
  <2>2. \A a \in Rows, b \in 1 .. Len(canvas) :
          b - a > MinInk /\ Ink(a, b) = a .. b - 1
          => \E k \in DOMAIN B : B[k][1] <= a /\ b <= B[k][2]
    <3> SUFFICES ASSUME NEW a \in Rows, NEW b \in 1 .. Len(canvas),
                        b - a > MinInk, Ink(a, b) = a .. b - 1
                 PROVE  \E k \in DOMAIN B : B[k][1] <= a /\ b <= B[k][2]
      OBVIOUS
    <3>1. PICK p \in S : p[1] <= a /\ b <= p[2]
      BY <1>3 DEF Holds
    <3>2. PICK k \in 1 .. m : s[k] = p
      BY <1>4, <3>1
    <3>3. k \in DOMAIN B /\ B[k] = p
      BY <2>1, <3>2
    <3> QED BY <3>1, <3>3
  <2>3. ASSUME NEW k \in 1 .. Len(B) - 1 PROVE B[k][2] <= B[k + 1][1]
    <3>1. k \in 1 .. m /\ k + 1 \in 1 .. m /\ k < k + 1
      BY <1>4, <2>1
    <3>2. s[k][1] < s[k + 1][1]
      BY <1>4, <3>1
    <3> QED BY <1>3, <2>1, <3>1, <3>2 DEF Separate
  <2>4. \A k \in DOMAIN B : B[k][1] = 0 \/ Blank(B[k][1])
    BY <1>3, <2>1 DEF Clean
  <2> QED BY <2>2, <2>3, <2>4 DEF Shows, B
<1>10. InkPrinted'
  <2>1. (InkPrinted <=> (pc \in {"layout", "done"} => Shows(Printed)))'
    BY ShowsIs, PTL
  <2>2. Shows(Printed)'
    BY <1>2, <1>8, <1>9, ShowsKept
  <2> QED BY <2>1, <2>2
<1> QED BY <1>2, <1>7, <1>10 DEF Laid

LEMMA InitLaid == Init => Laid
BY EmptySeq DEF Init, LayoutInit, Laid, Placed, SheetsFull, InkPrinted

\* Nothing happens to the sheets, and the canvas stays once it is cut.
LEMMA SameLaid ==
  ASSUME Laid, UNCHANGED layoutVars,
         pc' \in {"film", "compose"} => pc \in {"film", "compose"},
         pc' \in {"layout", "done"} => canvas' = canvas /\ pc \in {"layout", "done"}
  PROVE  Laid'
<1>1. UNCHANGED <<todo, rows, used, sheets>>
  BY DEF layoutVars
<1>2. Placed(Systems)' /\ SheetsFull'
  BY <1>1 DEF Laid, Placed, SheetsFull
<1>3. Printed' = Printed
  BY <1>1 DEF Printed
<1>4. InkPrinted'
  <2>1. (InkPrinted <=> (pc \in {"layout", "done"} => Shows(Printed)))'
    BY ShowsIs, PTL
  <2>2. pc' \in {"layout", "done"} => Shows(Printed)'
    <3> SUFFICES ASSUME pc' \in {"layout", "done"} PROVE Shows(Printed)'
      OBVIOUS
    <3>1. Shows(Printed) /\ canvas' = canvas
      BY ShowsIs DEF Laid
    <3> QED BY <1>3, <3>1, ShowsKept
  <2> QED BY <2>1, <2>2
<1> QED BY <1>1, <1>2, <1>4 DEF Laid, LayoutInit

LEMMA StepLaid == Inv /\ Laid /\ [Next]_vars => Laid'
<1> SUFFICES ASSUME Inv, Laid, [Next]_vars PROVE Laid'
  OBVIOUS
<1>1. CASE Film
  BY <1>1, SameLaid DEF Film
<1>2. CASE Filmed
  BY <1>2, SameLaid DEF Filmed
<1>3. CASE ComposeBand
  BY <1>3, SameLaid DEF ComposeBand
<1>4. CASE Save /\ UNCHANGED scrollVars
  BY <1>4, SameLaid DEF Save, scrollVars
<1>5. CASE UNCHANGED vars
  BY <1>5, SameLaid DEF vars, scrollVars
<1> QED BY <1>1, <1>2, <1>3, <1>4, <1>5, CutLaid, LayOutLaid DEF Next

LEMMA AlwaysLaid == Spec => []Laid
BY InitLaid, StepLaid, AlwaysInv, PTL DEF Spec

(* Whatever bands a song is cut into, what lies on a sheet fits on it or is  *)
(* a single band, nothing is drawn beyond the paper, and no sheet is begun   *)
(* while the last one has room: used is the height of the sheet at hand,     *)
(* band by band, and the first band of a sheet is one that the sheet before  *)
(* it had no room for (layout.py:279-303).                                   *)
THEOREM SheetsAreFull == Spec => []SheetsFull
BY AlwaysLaid, PTL DEF Laid

(* However a canvas is divided, all ink that is more than next to nothing is *)
(* printed in one piece, the systems are printed in their order and none of  *)
(* them twice, and none begins on ink: the centre of a gap is a blank row,   *)
(* so that ink lies between two cuts that follow each other, and the sheets  *)
(* are filled with the blocks from top to bottom (layout.py:115-151,         *)
(* verify.py:296-313).                                                       *)
THEOREM InkIsPrinted == Spec => []InkPrinted
BY AlwaysLaid, PTL DEF Laid

-----------------------------------------------------------------------------
(* The frames of a paged song *)

\* What a later frame j has to do with an earlier one i: footage stays, pages
\* are turned forwards, and the cursor does not go back on a page.
Follows(i, j) ==
    /\ frames[i].shows = Footage => frames[j].shows = Footage
    /\ frames[i].shows > 0 /\ frames[j].shows > 0 => frames[i].shows <= frames[j].shows
    /\ frames[i].shows > 0 /\ frames[i].shows = frames[j].shows /\ i \in Seen /\ j \in Seen
          => frames[i].cursor <= frames[j].cursor

\* A blend follows a page that is turned: that page is not seen again.
Turned(b) ==
    frames[b].shows = Blend =>
        /\ b > 1 /\ frames[b - 1].shows > 0 /\ frames[b - 1].shows < Score
        /\ \A j \in b + 1 .. Count :
              frames[j].shows > 0 => frames[j].shows > frames[b - 1].shows

Played == /\ frames \in Seq(Frame)
          /\ Count > 0 => frames[1].shows = 1
          /\ \A i, j \in 1 .. Count : i < j => Follows(i, j)
          /\ \A b \in 1 .. Count : Turned(b)

LEMMA FrameMember ==
  ASSUME NEW f \in Frame
  PROVE  f.shows \in Int /\ f.shows <= Score /\ f.shows >= -1 /\ f.cursor \in Int
<1>1. f.shows \in {-1, 0} \cup 1 .. Score /\ f.cursor \in {-1} \cup Columns
  BY DEF Frame, Footage, Blend, Hidden
<1>2. Score \in Nat /\ Score > 0 /\ \A c \in Columns : c \in Int
  BY PagesAssumption
<1>3. f.cursor \in Int
  BY <1>1, <1>2
<1>4. f.shows \in Int /\ f.shows <= Score /\ f.shows >= -1
  <2>1. CASE f.shows \in 1 .. Score
    BY <1>2, <2>1
  <2>2. CASE f.shows = -1 \/ f.shows = 0
    BY <1>2, <2>2
  <2> QED BY <1>1, <2>1, <2>2
<1> QED BY <1>3, <1>4

LEMMA FrameIs ==
  ASSUME frames \in Seq(Frame)
  PROVE  /\ Count \in Nat
         /\ \A i \in 1 .. Count : /\ frames[i] \in Frame
                                  /\ frames[i].shows \in Int /\ frames[i].shows <= Score
                                  /\ frames[i].shows >= -1 /\ frames[i].cursor \in Int
         /\ \A i \in 1 .. Count : i \in Seen <=> frames[i].cursor # Hidden
         /\ Seen \subseteq 1 .. Count
<1>1. Count \in Nat /\ \A i \in 1 .. Count : frames[i] \in Frame
  BY DEF Count
<1>2. \A i \in 1 .. Count : i \in Seen <=> frames[i].cursor # Hidden
  BY DEF Seen
<1>3. Seen \subseteq 1 .. Count
  BY DEF Seen
<1> QED BY <1>1, <1>2, <1>3, FrameMember

\* Page is the page that was turned to last.
LEMMA PageIs ==
  ASSUME Played
  PROVE  /\ Page \in 1 .. Score
         /\ \A i \in 1 .. Count : frames[i].shows <= Page
         /\ Count > 0 => \E i \in 1 .. Count : frames[i].shows = Page
         /\ Count = 0 => Page = 1
<1>1. /\ Count \in Nat /\ Score \in Nat \ {0}
      /\ \A i \in 1 .. Count : /\ frames[i].shows \in Int /\ frames[i].shows <= Score
                               /\ frames[i].shows >= -1
  BY FrameIs, PagesAssumption DEF Played
<1>2. CASE Count = 0
  <2>1. Shown = {}
    BY <1>2 DEF Shown
  <2> QED BY <1>1, <1>2, <2>1 DEF Page
<1>3. CASE Count # 0
  <2>1. 1 \in 1 .. Count /\ frames[1].shows = 1
    BY <1>1, <1>3 DEF Played
  <2>2. 1 \in Shown
    <3>1. 1 \in {frames[i].shows : i \in 1 .. Count}
      BY <2>1
    <3> QED BY <3>1 DEF Shown, Footage, Blend
  <2>3. Shown \in SUBSET (0 .. Score) /\ \A p \in Shown : p # 0
    <3>1. ASSUME NEW p \in Shown PROVE p \in 0 .. Score /\ p # 0
      <4>1. PICK i \in 1 .. Count : p = frames[i].shows
        BY DEF Shown
      <4>2. p # -1 /\ p # 0
        BY DEF Shown, Footage, Blend
      <4> QED BY <1>1, <4>1, <4>2
    <3> QED BY <3>1
  <2>4. \E p \in Shown : \A q \in Shown : q <= p
    BY <1>1, <2>2, <2>3, GreatestMember
  <2>5. Page \in Shown /\ \A q \in Shown : q <= Page
    BY <2>2, <2>4 DEF Page
  <2>6. Page \in 1 .. Score
    BY <1>1, <2>3, <2>5
  <2>7. ASSUME NEW i \in 1 .. Count PROVE frames[i].shows <= Page
    <3>1. CASE frames[i].shows \in {-1, 0}
      BY <1>1, <2>6, <3>1
    <3>2. CASE frames[i].shows \notin {-1, 0}
      <4>1. frames[i].shows \in Shown
        BY <3>2 DEF Shown, Footage, Blend
      <4> QED BY <2>5, <4>1
    <3> QED BY <3>1, <3>2
  <2>8. \E i \in 1 .. Count : frames[i].shows = Page
    BY <2>5 DEF Shown
  <2> QED BY <1>3, <2>6, <2>7, <2>8
<1> QED BY <1>2, <1>3

\* A frame more.
LEMMA FilmPlayed == ASSUME Played, FilmPage PROVE Played'
<1> DEFINE n == Count
<1>1. PICK f \in Frame : Plays(f) /\ frames' = Append(frames, f)
  BY DEF FilmPage
<1>2. /\ n \in Nat /\ frames' \in Seq(Frame) /\ Count' = n + 1
      /\ \A i \in 1 .. n : frames'[i] = frames[i] /\ frames[i] \in Frame
      /\ frames'[n + 1] = f
  BY <1>1, AppendProperties DEF Played, Count
<1>3. /\ f.shows \in Int /\ f.shows <= Score /\ f.shows >= -1 /\ f.cursor \in Int
      /\ \A i \in 1 .. n : frames[i].shows \in Int /\ frames[i].shows <= Score
                           /\ frames[i].shows >= -1 /\ frames[i].cursor \in Int
  <2>1. /\ f.shows \in Int /\ f.shows <= Score /\ f.shows >= -1 /\ f.cursor \in Int
    BY FrameMember
  <2>2. frames \in Seq(Frame)
    BY DEF Played
  <2> QED BY <2>1, <2>2, FrameIs
<1>4. /\ \A i \in 1 .. n : i \in Seen' <=> i \in Seen
      /\ n + 1 \in Seen' <=> f.cursor # Hidden
  <2>1. /\ Seen = {i \in 1 .. n : frames[i].cursor # Hidden}
        /\ Seen' = {i \in 1 .. Count' : frames'[i].cursor # Hidden}
    BY DEF Seen
  <2>2. Seen' = {i \in 1 .. n + 1 : frames'[i].cursor # Hidden}
    BY <1>2, <2>1
  <2> HIDE DEF n
  <2>3. n + 1 \in 1 .. n + 1 /\ \A i \in 1 .. n : i \in 1 .. n + 1
    BY <1>2
  <2> QED BY <1>2, <2>1, <2>2, <2>3
<1>5. /\ Page \in 1 .. Score /\ \A i \in 1 .. n : frames[i].shows <= Page
      /\ \A i, j \in 1 .. n : i < j => Follows(i, j)
      /\ \A b \in 1 .. n : Turned(b)
      /\ n > 0 => frames[1].shows = 1
  BY PageIs DEF Played
<1> HIDE DEF n
<1>6. \/ n = 0 /\ f.shows = 1
      \/ n > 0 /\ f.shows = -1
      \/ n > 0 /\ f.shows = 0 /\ Page < Score /\ frames[n].shows = Page
      \/ n > 0 /\ f.shows = Page + 1 /\ frames[n].shows # -1
      \/ n > 0 /\ f.shows = Page /\ frames[n].shows = Page
  BY <1>1 DEF Plays, Footage, Blend, n
<1>7. ASSUME f.shows = Page, n > 0, NEW i \in 1 .. n, frames[i].shows = f.shows, i \in Seen,
             f.cursor # Hidden
      PROVE  frames[i].cursor <= f.cursor
  <2>1. i \in Of(Page) \cap Seen
    BY <1>7 DEF Of, n
  <2>2. \/ f.shows = -1 \/ f.shows = 0 \/ f.shows = Page + 1
        \/ f.cursor \in {Hidden} \cup frames[i].cursor .. Farthest
    BY <1>1, <1>7, <2>1 DEF Plays, Footage, Blend, n
  <2> QED BY <1>3, <1>5, <1>7, <2>2
<1>8. ASSUME NEW i \in 1 .. n, NEW j, j = n + 1 PROVE Follows(i, j)'
  <2>1. n \in 1 .. n /\ n > 0 /\ (i < n => Follows(i, n))
    BY <1>2, <1>5
  <2>2. frames[i].shows = -1 => f.shows = -1
    <3> SUFFICES ASSUME frames[i].shows = -1 PROVE f.shows = -1
      OBVIOUS
    <3>1. frames[n].shows = -1
      <4>1. CASE i < n
        BY <2>1, <4>1 DEF Follows, Footage
      <4> QED BY <1>2, <4>1
    <3> QED BY <1>5, <1>6, <2>1, <3>1
  <2>3. frames[i].shows > 0 /\ f.shows > 0 => frames[i].shows <= f.shows
    BY <1>3, <1>5, <1>6, <2>1
  <2>4. frames[i].shows > 0 /\ frames[i].shows = f.shows => f.shows = Page
    BY <1>3, <1>5, <1>6, <2>1
  <2>5. n + 1 \in Seen' <=> f.cursor # Hidden
    BY <1>4
  <2>6. i \in Seen' <=> i \in Seen
    BY <1>4
  <2>7. frames'[i] = frames[i] /\ frames'[n + 1] = f
    BY <1>2
  <2>8. frames[i].shows > 0 /\ frames[i].shows = f.shows /\ i \in Seen /\ f.cursor # Hidden
          => frames[i].cursor <= f.cursor
    BY <1>7, <2>1, <2>4
  <2> QED BY <1>8, <2>2, <2>3, <2>5, <2>6, <2>7, <2>8 DEF Follows, Footage
<1>9. ASSUME NEW i \in 1 .. n + 1, NEW j \in 1 .. n + 1, i < j PROVE Follows(i, j)'
  <2>1. CASE j = n + 1
    <3>1. i \in 1 .. n
      BY <1>2, <1>9, <2>1
    <3> QED BY <1>8, <2>1, <3>1
  <2>2. CASE j # n + 1
    <3>1. i \in 1 .. n /\ j \in 1 .. n /\ i # n + 1
      BY <1>2, <1>9, <2>2
    <3>2. Follows(i, j) /\ frames'[i] = frames[i] /\ frames'[j] = frames[j]
      BY <1>2, <1>5, <1>9, <3>1
    <3>3. (i \in Seen' <=> i \in Seen) /\ (j \in Seen' <=> j \in Seen)
      BY <1>4, <3>1
    <3> QED BY <3>2, <3>3 DEF Follows
  <2> QED BY <2>1, <2>2
<1>10. ASSUME NEW b \in 1 .. n + 1 PROVE Turned(b)'
  <2> SUFFICES ASSUME frames'[b].shows = 0
               PROVE  /\ b > 1 /\ frames'[b - 1].shows > 0 /\ frames'[b - 1].shows < Score
                      /\ \A j \in b + 1 .. n + 1 :
                            frames'[j].shows > 0 => frames'[j].shows > frames'[b - 1].shows
    BY <1>2 DEF Turned, Blend
  <2>1. CASE b = n + 1
    <3>1. n > 0 /\ Page < Score /\ frames[n].shows = Page /\ n \in 1 .. n
      BY <1>2, <1>5, <1>6, <2>1
    <3> QED BY <1>2, <1>5, <2>1, <3>1
  <2>2. CASE b # n + 1
    <3>1. b \in 1 .. n /\ frames[b].shows = 0 /\ n \in 1 .. n
      BY <1>2, <2>2
    <3>2. /\ b > 1 /\ frames[b - 1].shows > 0 /\ frames[b - 1].shows < Score
          /\ \A j \in b + 1 .. n : frames[j].shows > 0 => frames[j].shows > frames[b - 1].shows
      BY <1>5, <3>1 DEF Turned, Blend, n
    <3>3. b - 1 \in 1 .. n /\ frames'[b - 1] = frames[b - 1]
      BY <1>2, <3>1, <3>2
    <3>4. f.shows > 0 => f.shows > frames[b - 1].shows
      <4> SUFFICES ASSUME f.shows > 0 PROVE f.shows > frames[b - 1].shows
        OBVIOUS
      <4>1. frames[b - 1].shows <= Page /\ frames[b - 1].shows \in Int /\ n > 0
        BY <1>2, <1>3, <1>5, <3>1, <3>3
      <4>2. CASE f.shows = Page + 1
        BY <1>5, <4>1, <4>2
      <4>3. CASE f.shows = Page /\ frames[n].shows = Page
        <5>1. b # n
          BY <1>5, <3>1, <4>3
        <5>2. n \in b + 1 .. n
          BY <1>2, <3>1, <5>1
        <5> QED BY <1>5, <3>2, <4>3, <5>2
      <4> QED BY <1>5, <1>6, <4>1, <4>2, <4>3
    <3>5. ASSUME NEW j \in b + 1 .. n + 1, frames'[j].shows > 0
          PROVE  frames'[j].shows > frames[b - 1].shows
      <4>1. CASE j = n + 1
        BY <1>2, <3>4, <3>5, <4>1
      <4>2. CASE j # n + 1
        <5>1. j \in b + 1 .. n /\ j \in 1 .. n
          BY <1>2, <3>1, <4>2
        <5> QED BY <1>2, <3>2, <3>5, <5>1
      <4> QED BY <4>1, <4>2
    <3> QED BY <3>2, <3>3, <3>5
  <2> QED BY <2>1, <2>2
<1>11. n + 1 > 0 => frames'[1].shows = 1
  <2>1. CASE n = 0
    BY <1>2, <1>5, <1>6, <2>1
  <2>2. CASE n # 0
    <3>1. n > 0 /\ 1 \in 1 .. n
      BY <1>2, <2>2
    <3> QED BY <1>2, <1>5, <3>1
  <2> QED BY <2>1, <2>2
<1> QED BY <1>2, <1>9, <1>10, <1>11 DEF Played

\* The frames stay.
LEMMA SamePlayed == ASSUME Played, frames' = frames PROVE Played'
<1>1. Count' = Count /\ Seen' = Seen
  BY DEF Count, Seen
<1>2. \A i, j : Follows(i, j)' <=> Follows(i, j)
  BY <1>1 DEF Follows
<1>3. \A b : Turned(b)' <=> Turned(b)
  BY <1>1 DEF Turned
<1> QED BY <1>1, <1>2, <1>3 DEF Played

-----------------------------------------------------------------------------
(* The pages of a song, and the frames of each *)

LEMMA EndIs ==
  ASSUME Count \in Nat, starts \subseteq 1 .. Count, NEW s \in starts
  PROVE  /\ End(s) \in s .. Count
         /\ \A t \in starts : t > s => End(s) < t
         /\ End(s) = Count \/ End(s) + 1 \in starts
<1> DEFINE later == {t \in starts : t > s}
           Is(e) == (\A t \in starts : t > s => e < t) /\ (e = Count \/ e + 1 \in starts)
<1>1. s \in Nat /\ s >= 1 /\ s <= Count /\ \A t \in starts : t \in Nat /\ t <= Count
  OBVIOUS
<1>2. \E e \in s .. Count : Is(e)
  <2>1. CASE later = {}
    <3>1. Count \in s .. Count
      BY <1>1
    <3>2. \A t \in starts : ~(t > s)
      BY <2>1
    <3> QED BY <3>1, <3>2
  <2>2. CASE later # {}
    <3>1. later \subseteq Nat
      BY <1>1
    <3>2. PICK x \in later : \A y \in later : x <= y
      <4> HIDE DEF later
      <4> QED BY <2>2, <3>1, LeastMember
    <3>3. x \in starts /\ x > s /\ x \in Nat /\ x <= Count
      BY <1>1
    <3>4. x - 1 \in s .. Count /\ (x - 1) + 1 \in starts
      BY <1>1, <3>3
    <3>5. \A t \in starts : t > s => x - 1 < t
      <4> SUFFICES ASSUME NEW t \in starts, t > s PROVE x - 1 < t
        OBVIOUS
      <4>1. x <= t
        BY <3>2
      <4> QED BY <1>1, <3>3, <4>1
    <3> QED BY <3>4, <3>5
  <2> QED BY <2>1, <2>2
<1>3. End(s) = CHOOSE e \in s .. Count : Is(e)
  BY DEF End
<1>4. End(s) \in s .. Count /\ Is(End(s))
  <2> HIDE DEF Is
  <2> QED BY <1>2, <1>3
<1> QED BY <1>4

Sheet == [first : Nat, last : Nat, low : BOOLEAN, shows : Int]

LEMMA CompositeIs ==
  ASSUME Played, starts \subseteq 1 .. Count, NEW s \in starts
  PROVE  Composite(s) \in Sheet /\ Composite(s).first = s /\ Composite(s).last = End(s)
<1> DEFINE group == s .. End(s)
<1>1. /\ Count \in Nat /\ \A i \in 1 .. Count : frames[i].shows \in Int
      /\ s \in 1 .. Count
  BY FrameIs DEF Played
<1>2. End(s) \in s .. Count
  BY <1>1, EndIs
<1>3. group \subseteq 1 .. Count
  BY <1>1, <1>2
<1> HIDE DEF group
<1>4. Interior(group) \subseteq 1 .. Count
  BY <1>3 DEF Interior
<1>5. Mixture \in Int
  BY DEF Mixture
<1>6. Lightest(group) \in Int
  <2> DEFINE all == {frames[i].shows : i \in group}
  <2>1. Lightest(group) = IF Cardinality(all) = 1 THEN CHOOSE p \in all : TRUE ELSE Mixture
    BY DEF Lightest
  <2>2. Cardinality(all) = 1 => all # {}
    BY FS_EmptySet
  <2>3. \A p \in all : p \in Int
    BY <1>1, <1>3
  <2> HIDE DEF all
  <2> QED BY <1>5, <2>1, <2>2, <2>3
<1>7. Median(Interior(group)) \in Int
  <2> DEFINE g == Interior(group)
             most == {p \in {frames[i].shows : i \in g} :
                        2 * Cardinality({i \in g : frames[i].shows = p}) > Cardinality(g)}
  <2>1. Median(g) = IF most = {} THEN Mixture ELSE CHOOSE p \in most : TRUE
    BY DEF Median
  <2>2. \A p \in most : p \in Int
    <3> HIDE DEF g
    <3> QED BY <1>1, <1>4 DEF g
  <2> HIDE DEF g, most
  <2> QED BY <1>5, <2>1, <2>2 DEF g
<1>8. /\ Composite(s).first = s /\ Composite(s).last = End(s)
      /\ Composite(s) = [first |-> s, last |-> End(s),
                         low |-> Cardinality(Interior(group)) < MinContributors,
                         shows |-> IF Cardinality(Interior(group)) < MinContributors
                                   THEN Lightest(group) ELSE Median(Interior(group))]
  BY DEF Composite, group
<1>9. s \in Nat /\ End(s) \in Nat
  BY <1>1, <1>2
<1> QED BY <1>6, <1>7, <1>8, <1>9 DEF Sheet

\* The frames at which a page begins, once they are known, and the pages that
\* are composed: in order, each as its frames say, and none left out.
Listed ==
    /\ starts \subseteq 1 .. Count
    /\ IF pc = "film" THEN starts = {} /\ pages = <<>>
       ELSE Count > 0 /\ starts = IF Wraps = {} THEN {1} ELSE Wraps
    /\ pages \in Seq(Sheet)
    /\ \A i \in 1 .. Len(pages) :
          pages[i].first \in starts /\ pages[i] = Composite(pages[i].first)
    /\ \A i, j \in 1 .. Len(pages) : i < j => pages[i].first < pages[j].first
    /\ \A i \in 1 .. Len(pages), t \in starts \ Composed : pages[i].first < t
    /\ pc \notin {"film", "compose"} => starts = Composed

LEMMA WrapsAreFrames == Wraps \subseteq 1 .. Count
BY DEF Wraps, Seen

LEMMA SameListed ==
  ASSUME Listed, UNCHANGED pageVars, pc' = "film" <=> pc = "film",
         pc' \notin {"film", "compose"} => pc \notin {"film", "compose"} \/ starts = Composed
  PROVE  Listed'
<1>1. frames' = frames /\ starts' = starts /\ pages' = pages
  BY DEF pageVars
<1>2. Count' = Count /\ Wraps' = Wraps /\ Composed' = Composed
  BY <1>1 DEF Count, Wraps, Earlier, Previous, Seen, Composed
<1>3. \A s : Composite(s)' = Composite(s)
  <2> TAKE s
  <2>1. End(s)' = End(s)
    BY <1>1 DEF End, Count
  <2>2. \A g : Median(g)' = Median(g) /\ Lightest(g)' = Lightest(g)
    BY <1>1 DEF Median, Lightest
  <2> QED BY <2>1, <2>2 DEF Composite, Interior
<1> QED BY <1>1, <1>2, <1>3 DEF Listed

LEMMA InitListed == PagesInit => Listed
<1> SUFFICES ASSUME PagesInit PROVE Listed
  OBVIOUS
<1>1. starts = {} /\ pages = <<>> /\ pc = "film" /\ pages \in Seq(Sheet) /\ Len(pages) = 0
  BY EmptySeq DEF PagesInit
<1> QED BY <1>1 DEF Listed

\* A page more: the earliest that is left.
LEMMA ComposeListed == ASSUME Played, Listed, ComposePage PROVE Listed'
<1> DEFINE left == starts \ Composed
           s == CHOOSE s \in left : \A t \in left : s <= t
           n == Len(pages)
<1>1. /\ pages' = Append(pages, Composite(s)) /\ pc = "compose"
      /\ frames' = frames /\ starts' = starts /\ pc' = pc /\ starts # Composed
  BY DEF ComposePage
<1>2. /\ starts \subseteq 1 .. Count /\ pages \in Seq(Sheet) /\ n \in Nat
      /\ DOMAIN pages = 1 .. n
      /\ Count > 0 /\ starts = IF Wraps = {} THEN {1} ELSE Wraps
      /\ \A i \in 1 .. n : pages[i].first \in starts /\ pages[i] = Composite(pages[i].first)
      /\ \A i, j \in 1 .. n : i < j => pages[i].first < pages[j].first
      /\ \A i \in 1 .. n, t \in left : pages[i].first < t
  BY <1>1 DEF Listed
<1>3. Composed = {pages[i].first : i \in 1 .. n} /\ Composed \subseteq starts
  BY <1>2 DEF Composed
<1>4. left # {} /\ left \subseteq Nat
  <2>1. Count \in Nat
    BY FrameIs DEF Played
  <2>2. starts \subseteq Nat
    BY <1>2, <2>1
  <2>3. \E t \in starts : t \notin Composed
    BY <1>1, <1>3
  <2> QED BY <2>2, <2>3
<1>5. s \in left /\ \A t \in left : s <= t
  <2>1. \E x \in left : \A t \in left : x <= t
    <3> HIDE DEF left
    <3> QED BY <1>4, LeastMember
  <2> HIDE DEF left
  <2> QED BY <2>1
<1> HIDE DEF s, left, n
<1>6. s \in starts /\ s \in Nat /\ \A t \in starts : t \in Nat
  BY <1>2, <1>4, <1>5 DEF left
<1>7. Composite(s) \in Sheet /\ Composite(s).first = s
  BY <1>2, <1>6, CompositeIs
<1>8. /\ pages' \in Seq(Sheet) /\ Len(pages') = n + 1 /\ DOMAIN pages' = 1 .. n + 1
      /\ \A i \in 1 .. n : pages'[i] = pages[i]
      /\ pages'[n + 1] = Composite(s)
  BY <1>1, <1>2, <1>7, AppendProperties DEF n
<1>9. Count' = Count /\ Wraps' = Wraps
  BY <1>1 DEF Count, Wraps, Earlier, Previous, Seen
<1>10. \A x : Composite(x)' = Composite(x)
  <2> TAKE x
  <2>1. End(x)' = End(x)
    BY <1>1 DEF End, Count
  <2>2. \A g : Median(g)' = Median(g) /\ Lightest(g)' = Lightest(g)
    BY <1>1 DEF Median, Lightest
  <2> QED BY <2>1, <2>2 DEF Composite, Interior
<1>11. Composed' = Composed \cup {s}
  <2>1. Composed' = {pages'[i].first : i \in 1 .. n + 1}
    BY <1>8 DEF Composed
  <2>2. \A i \in 1 .. n + 1 : i \in 1 .. n \/ i = n + 1
    BY <1>2
  <2>3. n + 1 \in 1 .. n + 1 /\ \A i \in 1 .. n : i \in 1 .. n + 1
    BY <1>2
  <2> QED BY <1>3, <1>7, <1>8, <2>1, <2>2, <2>3
<1>12. ASSUME NEW i \in 1 .. n + 1
       PROVE  pages'[i].first \in starts /\ pages'[i] = Composite(pages'[i].first)
  <2>1. CASE i = n + 1
    BY <1>6, <1>7, <1>8, <2>1
  <2>2. CASE i # n + 1
    <3>1. i \in 1 .. n
      BY <1>2, <2>2
    <3> QED BY <1>2, <1>8, <3>1
  <2> QED BY <2>1, <2>2
<1>13. ASSUME NEW i \in 1 .. n + 1, NEW j \in 1 .. n + 1, i < j
       PROVE  pages'[i].first < pages'[j].first
  <2>1. i \in 1 .. n
    BY <1>2, <1>13
  <2>2. CASE j = n + 1
    BY <1>2, <1>5, <1>7, <1>8, <2>1, <2>2
  <2>3. CASE j # n + 1
    <3>1. j \in 1 .. n
      BY <1>2, <2>3
    <3> QED BY <1>2, <1>8, <1>13, <2>1, <3>1
  <2> QED BY <2>2, <2>3
<1>14. ASSUME NEW i \in 1 .. n + 1, NEW t \in starts \ (Composed \cup {s})
       PROVE  pages'[i].first < t
  <2>1. t \in left /\ s <= t /\ s # t /\ t \in Nat
    BY <1>5, <1>6 DEF left
  <2>2. CASE i = n + 1
    BY <1>6, <1>7, <1>8, <2>1, <2>2
  <2>3. CASE i # n + 1
    <3>1. i \in 1 .. n
      BY <1>2, <2>3
    <3> QED BY <1>2, <1>8, <2>1, <3>1
  <2> QED BY <2>2, <2>3
<1> QED BY <1>1, <1>2, <1>8, <1>9, <1>10, <1>11, <1>12, <1>13, <1>14 DEF Listed

LEMMA StepListed == Played /\ Listed /\ [PagesNext]_pagesVars => Listed'
<1> SUFFICES ASSUME Played, Listed, [PagesNext]_pagesVars PROVE Listed'
  OBVIOUS
<1>1. CASE FilmPage
  <2>1. pc = "film" /\ pc' = "film" /\ starts' = starts /\ pages' = pages
    BY <1>1 DEF FilmPage
  <2>2. starts = {} /\ pages = <<>> /\ Len(pages) = 0 /\ pages \in Seq(Sheet)
    BY <2>1, EmptySeq DEF Listed
  <2> QED BY <2>1, <2>2 DEF Listed
<1>2. CASE DetectWraps
  <2>1. /\ pc = "film" /\ pc' = "compose" /\ frames' = frames /\ pages' = pages /\ Count > 0
        /\ starts' = IF Wraps = {} THEN {1} ELSE Wraps
    BY <1>2 DEF DetectWraps
  <2>2. pages = <<>> /\ Len(pages) = 0 /\ pages \in Seq(Sheet)
    BY <2>1, EmptySeq DEF Listed
  <2>3. Count' = Count /\ Wraps' = Wraps
    BY <2>1 DEF Count, Wraps, Earlier, Previous, Seen
  <2>4. starts' \subseteq 1 .. Count
    <3>1. 1 \in 1 .. Count
      BY <2>1, FrameIs DEF Played
    <3> QED BY <2>1, <3>1, WrapsAreFrames
  <2> QED BY <2>1, <2>2, <2>3, <2>4 DEF Listed
<1>3. CASE ComposePage
  BY <1>3, ComposeListed
<1>4. CASE ToSystems
  BY <1>4, SameListed DEF ToSystems, pageVars
<1>5. CASE (LayOut \/ Save) /\ UNCHANGED pageVars
  BY <1>5, SameListed DEF LayOut, Save
<1>6. CASE UNCHANGED pagesVars
  BY <1>6, SameListed DEF pagesVars
<1> QED BY <1>1, <1>2, <1>3, <1>4, <1>5, <1>6 DEF PagesNext

LEMMA StepPlayed == Played /\ [PagesNext]_pagesVars => Played'
BY FilmPlayed, SamePlayed
   DEF PagesNext, DetectWraps, ComposePage, ToSystems, pagesVars, pageVars

LEMMA InitPlayed == PagesInit => Played
<1> SUFFICES ASSUME PagesInit PROVE Played
  OBVIOUS
<1>1. frames = <<>> /\ frames \in Seq(Frame) /\ Count = 0
  BY EmptySeq DEF PagesInit, Count
<1> QED BY <1>1 DEF Played

LEMMA AlwaysListed == PagesSpec => [](Played /\ Listed)
BY InitPlayed, InitListed, StepPlayed, StepListed, PTL DEF PagesSpec

\* Every frame from the first wrap on belongs to the page that began last.
LEMMA PagesTile == Played /\ Listed => GroupsTile
<1> SUFFICES ASSUME Played, Listed, pc \notin {"film", "compose"}
             PROVE  /\ pages[Len(pages)].last = Count
                    /\ \A i \in 1 .. Len(pages) - 1 : pages[i].last + 1 = pages[i + 1].first
  BY DEF GroupsTile
<1> DEFINE n == Len(pages)
<1>1. /\ Count \in Nat /\ Count > 0 /\ starts \subseteq 1 .. Count /\ n \in Nat
      /\ starts = IF Wraps = {} THEN {1} ELSE Wraps
      /\ \A i \in 1 .. n : pages[i].first \in starts /\ pages[i] = Composite(pages[i].first)
      /\ \A i, j \in 1 .. n : i < j => pages[i].first < pages[j].first
      /\ starts = Composed /\ DOMAIN pages = 1 .. n
  BY FrameIs DEF Played, Listed
<1> HIDE DEF n
<1>2. \A s \in starts : \E i \in 1 .. n : pages[i].first = s
  BY <1>1 DEF Composed
<1>3. ASSUME NEW i \in 1 .. n
      PROVE  /\ pages[i].first \in starts /\ pages[i].first \in 1 .. Count
             /\ pages[i].last \in pages[i].first .. Count
             /\ \A t \in starts : t > pages[i].first => pages[i].last < t
             /\ pages[i].last = Count \/ pages[i].last + 1 \in starts
  <2> DEFINE s == pages[i].first
  <2>1. s \in starts /\ s \in 1 .. Count /\ pages[i].last = End(s)
    <3>1. s \in starts /\ pages[i] = Composite(s)
      BY <1>1
    <3>2. Composite(s).last = End(s)
      BY <1>1, <3>1, CompositeIs
    <3> HIDE DEF s
    <3> QED BY <1>1, <3>1, <3>2
  <2> HIDE DEF s
  <2>2. /\ End(s) \in s .. Count /\ \A t \in starts : t > s => End(s) < t
        /\ End(s) = Count \/ End(s) + 1 \in starts
    BY <1>1, <2>1, EndIs
  <2> QED BY <2>1, <2>2 DEF s
<1>4. n > 0
  <2>1. starts # {}
    BY <1>1
  <2>2. PICK s \in starts : TRUE
    BY <2>1
  <2>3. \E i \in 1 .. n : TRUE
    BY <1>2, <2>2
  <2> QED BY <1>1, <2>3
<1>5. pages[n].last = Count
  <2> SUFFICES ASSUME pages[n].last # Count PROVE FALSE
    OBVIOUS
  <2>1. n \in 1 .. n
    BY <1>1, <1>4
  <2>2. pages[n].last + 1 \in starts /\ pages[n].first <= pages[n].last
        /\ pages[n].last \in Int /\ pages[n].first \in Int
    BY <1>3, <2>1
  <2>3. PICK j \in 1 .. n : pages[j].first = pages[n].last + 1
    BY <1>2, <2>2
  <2>4. j = n \/ pages[j].first < pages[n].first
    BY <1>1, <2>1
  <2> QED BY <2>2, <2>3, <2>4
<1>6. ASSUME NEW i \in 1 .. n - 1 PROVE pages[i].last + 1 = pages[i + 1].first
  <2>1. i \in 1 .. n /\ i + 1 \in 1 .. n /\ i < i + 1
    BY <1>1
  <2>2. /\ pages[i].first < pages[i + 1].first /\ pages[i + 1].first \in starts
        /\ pages[i + 1].first \in 1 .. Count /\ pages[i].first \in 1 .. Count
        /\ pages[i].last \in pages[i].first .. Count
    BY <1>1, <1>3, <2>1
  <2>3. pages[i].last < pages[i + 1].first
    BY <1>3, <2>1, <2>2
  <2>4. pages[i].last + 1 \in starts
    BY <1>1, <1>3, <2>1, <2>2, <2>3
  <2>5. PICK j \in 1 .. n : pages[j].first = pages[i].last + 1
    BY <1>2, <2>4
  <2>6. i < j
    <3>1. pages[i].first < pages[j].first
      BY <2>2, <2>5
    <3>2. ~(j < i) /\ j # i
      <4>1. pages[j].first \in Int /\ pages[i].first \in Int
        BY <2>2, <1>3
      <4>2. j < i => pages[j].first < pages[i].first
        BY <1>1, <2>1
      <4> QED BY <3>1, <4>1, <4>2
    <3> QED BY <2>1, <3>2
  <2>7. j = i + 1 \/ pages[i + 1].first < pages[j].first
    BY <1>1, <2>1, <2>6
  <2> QED BY <1>1, <2>2, <2>3, <2>5, <2>7
<1> QED BY <1>5, <1>6 DEF n

-----------------------------------------------------------------------------
(* The bands of the pages *)

\* The members of a set of numbers can be counted off.
LEMMA NthIs ==
  ASSUME NEW n \in Nat, NEW S \in SUBSET (1 .. n), NEW k \in 1 .. Cardinality(S)
  PROVE  Nth(S, k) \in S /\ Cardinality({j \in S : j <= Nth(S, k)}) = k
<1> DEFINE Up(m) == {j \in S : j <= m}
           enough == {m \in 0 .. n : Cardinality(Up(m)) >= k}
<1>1. IsFiniteSet(S) /\ Cardinality(S) \in Nat
  <2>1. IsFiniteSet(1 .. n)
    BY FS_Interval
  <2> QED BY <2>1, FS_Subset, FS_CardinalityType
<1>0. \A j \in S : j \in Int /\ 1 <= j /\ j <= n
  OBVIOUS
<1>2. \A m : IsFiniteSet(Up(m)) /\ Cardinality(Up(m)) \in Nat
  <2> TAKE m
  <2>1. Up(m) \in SUBSET S
    OBVIOUS
  <2> QED BY <1>1, <2>1, FS_Subset, FS_CardinalityType
<1>3. n \in enough /\ enough \subseteq Nat
  <2>1. Up(n) = S
    BY <1>0
  <2> QED BY <1>1, <2>1
<1>4. PICK m \in enough : \A x \in enough : m <= x
  <2> HIDE DEF enough
  <2> QED BY <1>3, LeastMember
<1>5. m \in 0 .. n /\ Cardinality(Up(m)) >= k /\ k \in Nat /\ k >= 1
  BY <1>1
<1>6. m # 0
  <2> SUFFICES ASSUME m = 0 PROVE FALSE
    OBVIOUS
  <2>0. \A j \in S : ~(j <= m)
    BY <1>0
  <2>1. Up(m) = {}
    BY <2>0
  <2>2. Cardinality(Up(m)) = 0
    BY <2>1, FS_EmptySet
  <2> HIDE DEF Up
  <2> QED BY <1>5, <2>2
<1>7. m - 1 \in 0 .. n /\ m - 1 < m /\ m - 1 \notin enough
  <2>1. m - 1 \in 0 .. n /\ m - 1 < m
    BY <1>5, <1>6
  <2>2. ~(m <= m - 1)
    BY <1>5
  <2> HIDE DEF enough
  <2> QED BY <1>4, <2>1, <2>2
<1>8. Cardinality(Up(m - 1)) < k
  <2>1. ~(Cardinality(Up(m - 1)) >= k)
    BY <1>7
  <2> HIDE DEF Up
  <2> QED BY <1>2, <1>5, <2>1
<1>9. m \in S /\ Cardinality(Up(m)) = Cardinality(Up(m - 1)) + 1
  <2>1. CASE m \in S
    <3>1. Up(m) = Up(m - 1) \cup {m} /\ m \notin Up(m - 1)
      <4>1. \A j \in S : j <= m <=> (j <= m - 1 \/ j = m)
        BY <1>0, <1>5
      <4>2. ~(m <= m - 1)
        BY <1>5
      <4> QED BY <2>1, <4>1, <4>2
    <3> HIDE DEF Up
    <3> QED BY <1>2, <2>1, <3>1, FS_AddElement
  <2>2. CASE m \notin S
    <3>1. Up(m) = Up(m - 1)
      <4>1. \A j \in S : j <= m <=> j <= m - 1
        <5>1. \A j \in S : j # m
          BY <2>2
        <5>2. m \in Int
          BY <1>5
        <5> QED BY <1>0, <5>1, <5>2
      <4> QED BY <4>1
    <3> HIDE DEF Up
    <3> QED BY <1>2, <1>5, <1>8, <3>1
  <2> QED BY <2>1, <2>2
<1>10. Cardinality(Up(m)) = k
  <2> HIDE DEF Up
  <2> QED BY <1>2, <1>5, <1>8, <1>9
<1>11. Nth(S, k) = CHOOSE i \in S : Cardinality(Up(i)) = k
  BY DEF Nth
<1> HIDE DEF Up
<1>12. Nth(S, k) \in S /\ Cardinality(Up(Nth(S, k))) = k
  BY <1>9, <1>10, <1>11
<1> QED BY <1>12 DEF Up

\* The pages that are not discarded, each with paper.
LEMMA UsableIs ==
  ASSUME pages \in Seq(Sheet), NEW light
  PROVE  /\ Cardinality(Kept(light)) \in Nat
         /\ DOMAIN Usable(light) = 1 .. Cardinality(Kept(light))
         /\ Len(Usable(light)) = Cardinality(Kept(light))
         /\ \A k \in 1 .. Cardinality(Kept(light)) :
               /\ Usable(light)[k] \in Sheet /\ Usable(light)[k].shows # Footage
<1> DEFINE n == Len(pages)
           S == Kept(light)
           m == Cardinality(S)
<1>1. n \in Nat /\ DOMAIN pages = 1 .. n /\ \A i \in 1 .. n : pages[i] \in Sheet
  OBVIOUS
<1>2. S \in SUBSET (1 .. n) /\ \A i \in S : pages[i].shows # Footage
  BY <1>1 DEF Kept
<1>3. m \in Nat
  <2>1. IsFiniteSet(1 .. n)
    BY <1>1, FS_Interval
  <2> HIDE DEF S
  <2> QED BY <1>2, <2>1, FS_Subset, FS_CardinalityType
<1>4. Usable(light) = [k \in 1 .. m |-> pages[Nth(S, k)]]
  BY DEF Usable
<1> HIDE DEF n, S
<1>5. ASSUME NEW k \in 1 .. m PROVE Nth(S, k) \in S
  BY <1>1, <1>2, NthIs
<1> HIDE DEF m
<1>6. \A k \in 1 .. m : Usable(light)[k] \in Sheet /\ Usable(light)[k].shows # Footage
  BY <1>1, <1>2, <1>4, <1>5
<1>7. Usable(light) \in Seq(Sheet) /\ Len(Usable(light)) = m /\ DOMAIN Usable(light) = 1 .. m
  BY <1>3, <1>4, <1>6
<1> QED BY <1>3, <1>6, <1>7 DEF m, S

PageBands == [shows : Int, cut : BOOLEAN, low : BOOLEAN, height : Nat]

OnSheets == /\ Placed(PageBands) /\ SheetsFull /\ LastPageWhole
            /\ pc \in {"film", "compose"} => LayoutInit

LEMMA PageBandsSized == Sized(PageBands)
BY DEF Sized, PageBands

\* Nothing is on a sheet yet: the bands to come are what is printed.
LEMMA PrintedIsTodo ==
  ASSUME LayoutInit, UNCHANGED <<rows, used, sheets>>, NEW B, todo' \in Seq(B)
  PROVE  /\ Printed' = todo' /\ Placed(B)' /\ SheetsFull'
<1>1. rows' = <<>> /\ sheets' = <<>> /\ used' = 0
  BY DEF LayoutInit
<1>2. Printed' = (<<>> \o <<>>) \o todo'
  BY <1>1 DEF Printed, FlattenSeq
<1>3. Printed' = todo'
  BY <1>2, ConcatEmptySeq, EmptySeq
<1> QED BY <1>1, <1>3, EmptySeq DEF Placed, SheetsFull

LEMMA ToSystemsOnSheets == ASSUME Listed, OnSheets, ToSystems PROVE OnSheets'
<1>1. /\ pc = "compose" /\ LayoutInit /\ pages \in Seq(Sheet)
      /\ UNCHANGED <<frames, starts, pages, rows, used, sheets>>
  BY DEF ToSystems, OnSheets, Listed
<1>2. PICK light \in SUBSET {p.first : p \in {q \in Range(pages) : q.shows = Mixture}} :
        \E barline \in {"none", "right", "odd"} :
           IF Usable(light) = <<>> THEN pc' = "failed" /\ UNCHANGED todo
           ELSE /\ pc' = "layout"
                /\ todo' = [i \in DOMAIN Usable(light) |->
                              Band(Usable(light)[i], Usable(light), barline)]
  BY DEF ToSystems
<1>3. PICK barline \in {"none", "right", "odd"} :
           IF Usable(light) = <<>> THEN pc' = "failed" /\ UNCHANGED todo
           ELSE /\ pc' = "layout"
                /\ todo' = [i \in DOMAIN Usable(light) |->
                              Band(Usable(light)[i], Usable(light), barline)]
  BY <1>2
<1> DEFINE U == Usable(light)
           m == Cardinality(Kept(light))
<1>4. /\ m \in Nat /\ DOMAIN U = 1 .. m /\ Len(U) = m
      /\ \A k \in 1 .. m : U[k] \in Sheet /\ U[k].shows # Footage
  BY <1>1, UsableIs
<1>5. CASE U = <<>>
  <2>1. pc' = "failed" /\ todo' = todo
    BY <1>3, <1>5
  <2>2. todo' = <<>> /\ todo' \in Seq(PageBands)
    BY <1>1, <2>1, EmptySeq DEF LayoutInit
  <2>3. Placed(PageBands)' /\ SheetsFull'
    BY <1>1, <2>2, PrintedIsTodo
  <2> QED BY <2>1, <2>3 DEF OnSheets, LastPageWhole
<1>6. CASE U # <<>>
  <2>1. pc' = "layout" /\ todo' = [i \in DOMAIN U |-> Band(U[i], U, barline)]
    BY <1>3, <1>6
  <2> HIDE DEF U, m
  <2>2. todo' = [i \in 1 .. m |-> Band(U[i], U, barline)]
    BY <1>4, <2>1
  <2>3. ASSUME NEW i \in 1 .. m
        PROVE  /\ Band(U[i], U, barline) \in PageBands
               /\ Band(U[i], U, barline).shows # Footage
               /\ i = m => Band(U[i], U, barline).cut = FALSE
    <3>1. U[i].shows \in Int /\ U[i].low \in BOOLEAN /\ U[i].shows # Footage
      BY <1>4 DEF Sheet
    <3>2. i = m => IsLast(U[i], U)
      BY <1>4 DEF IsLast
    <3>3. BandH \in Nat
      BY PagesAssumption
    <3>4. /\ (~IsLast(U[i], U) /\ barline = "right") \in BOOLEAN
          /\ (U[i].low \/ (~IsLast(U[i], U) /\ barline = "odd")) \in BOOLEAN
      OBVIOUS
    <3> QED BY <3>1, <3>2, <3>3, <3>4 DEF Band, PageBands
  <2>4. todo' \in Seq(PageBands) /\ Len(todo') = m
    <3>1. todo' \in [1 .. m -> PageBands]
      BY <2>2, <2>3
    <3> QED BY <1>4, <3>1
  <2>5. m > 0
    <3>1. m = 0 => DOMAIN U = {}
      BY <1>4
    <3>2. m # 0
      <4> SUFFICES ASSUME m = 0 PROVE FALSE
        OBVIOUS
      <4>1. U \in Seq(Sheet)
        <5>1. U = [k \in 1 .. m |-> pages[Nth(Kept(light), k)]]
          BY DEF U, Usable, m
        <5> QED BY <1>4, <5>1
      <4> QED BY <1>4, <1>6, <4>1, EmptySeq
    <3> QED BY <1>4, <3>2
  <2>6. Printed' = todo' /\ Placed(PageBands)' /\ SheetsFull'
    BY <1>1, <2>4, PrintedIsTodo
  <2>7. LastPageWhole'
    <3>1. ~todo'[Len(todo')].cut /\ \A i \in DOMAIN todo' : todo'[i].shows # Footage
      <4>1. m \in 1 .. m /\ DOMAIN todo' = 1 .. m /\ Len(todo') = m
        BY <1>4, <2>2, <2>4, <2>5
      <4>2. todo'[m] = Band(U[m], U, barline)
        BY <2>2, <4>1
      <4>3. \A i \in 1 .. m : todo'[i].shows # Footage
        BY <2>2, <2>3
      <4> QED BY <2>3, <4>1, <4>2, <4>3
    <3> HIDE DEF Printed
    <3> QED BY <2>6, <3>1 DEF LastPageWhole, Footage
  <2> QED BY <2>1, <2>6, <2>7 DEF OnSheets
<1> QED BY <1>5, <1>6

\* The sheets stay as they are.
LEMMA SameOnSheets ==
  ASSUME OnSheets, UNCHANGED layoutVars,
         pc' \in {"film", "compose"} => pc \in {"film", "compose"},
         pc' \in {"layout", "done"} => pc \in {"layout", "done"}
  PROVE  OnSheets'
<1>1. UNCHANGED <<todo, rows, used, sheets>>
  BY DEF layoutVars
<1>2. Placed(PageBands)' /\ SheetsFull' /\ Printed' = Printed
  BY <1>1 DEF OnSheets, Placed, SheetsFull, Printed
<1>3. LastPageWhole'
  <2> HIDE DEF Printed
  <2> QED BY <1>2 DEF OnSheets, LastPageWhole
<1> QED BY <1>1, <1>2, <1>3 DEF OnSheets, LayoutInit

LEMMA LayOutOnSheets == ASSUME OnSheets, LayOut PROVE OnSheets'
<1>1. Placed(PageBands)' /\ SheetsFull' /\ Printed' = Printed /\ pc' = pc /\ pc = "layout"
  BY PageBandsSized, SheetsStep DEF OnSheets, LayOut
<1>2. LastPageWhole'
  <2> HIDE DEF Printed
  <2> QED BY <1>1 DEF OnSheets, LastPageWhole
<1> QED BY <1>1, <1>2 DEF OnSheets

LEMMA StepOnSheets == Listed /\ OnSheets /\ [PagesNext]_pagesVars => OnSheets'
<1> SUFFICES ASSUME Listed, OnSheets, [PagesNext]_pagesVars PROVE OnSheets'
  OBVIOUS
<1>1. CASE FilmPage
  BY <1>1, SameOnSheets DEF FilmPage
<1>2. CASE DetectWraps
  BY <1>2, SameOnSheets DEF DetectWraps
<1>3. CASE ComposePage
  BY <1>3, SameOnSheets DEF ComposePage
<1>4. CASE Save
  BY <1>4, SameOnSheets DEF Save
<1>5. CASE UNCHANGED pagesVars
  BY <1>5, SameOnSheets DEF pagesVars
<1> QED BY <1>1, <1>2, <1>3, <1>4, <1>5, ToSystemsOnSheets, LayOutOnSheets DEF PagesNext

LEMMA InitOnSheets == PagesInit => OnSheets
BY EmptySeq DEF PagesInit, LayoutInit, OnSheets, Placed, SheetsFull, LastPageWhole

LEMMA AlwaysOnSheets == PagesSpec => []OnSheets
BY InitOnSheets, StepOnSheets, AlwaysListed, PTL DEF PagesSpec

(* From the first wrap on the groups are next to each other and the last one *)
(* has the rest of the frames, whatever the video shows: the pages are       *)
(* composed in the order of their first frames (compose.py:258-260).         *)
THEOREM GroupsAreTiles == PagesSpec => []GroupsTile
BY AlwaysListed, PagesTile, PTL

(* The last band is never cut at a barline and no band is footage, however   *)
(* many transitions follow the last page: which page is the last is asked of *)
(* those that are kept, and the bands are printed in their order             *)
(* (layout.py:224-243, tests/test_transition_pages_discarded.py:44-66).      *)
THEOREM LastPageIsWhole == PagesSpec => []LastPageWhole
BY AlwaysOnSheets, PTL DEF OnSheets

(* The sheets of a paged song are filled like those of a scrolling one       *)
(* (layout.py:279-303).                                                      *)
THEOREM PageSheetsAreFull == PagesSpec => []SheetsFull
BY AlwaysOnSheets, PTL DEF OnSheets

-----------------------------------------------------------------------------
(* A video that is well played: which frames the pages begin with *)

\* What the order of the frames comes to.
LEMMA InOrderIs ==
  ASSUME Played
  PROVE  /\ Count \in Nat /\ Seen \subseteq 1 .. Count
         /\ \A i \in 1 .. Count : /\ frames[i].shows \in Int /\ frames[i].shows <= Score
                                  /\ frames[i].shows >= -1 /\ frames[i].cursor \in Int
         /\ \A i, j \in 1 .. Count : i < j =>
               /\ frames[i].shows = -1 => frames[j].shows = -1
               /\ frames[i].shows > 0 /\ frames[j].shows > 0 => frames[i].shows <= frames[j].shows
         /\ \A b \in 1 .. Count : frames[b].shows = 0 =>
               /\ b - 1 \in 1 .. Count /\ frames[b - 1].shows > 0 /\ frames[b - 1].shows < Score
               /\ \A j \in 1 .. Count :
                     b < j /\ frames[j].shows > 0 => frames[j].shows > frames[b - 1].shows
<1>1. /\ Count \in Nat /\ Seen \subseteq 1 .. Count
      /\ \A i \in 1 .. Count : /\ frames[i].shows \in Int /\ frames[i].shows <= Score
                               /\ frames[i].shows >= -1 /\ frames[i].cursor \in Int
  BY FrameIs DEF Played
<1>2. \A i, j \in 1 .. Count : i < j =>
         /\ frames[i].shows = -1 => frames[j].shows = -1
         /\ frames[i].shows > 0 /\ frames[j].shows > 0 => frames[i].shows <= frames[j].shows
  BY DEF Played, Follows, Footage
<1>3. ASSUME NEW b \in 1 .. Count, frames[b].shows = 0
      PROVE  /\ b - 1 \in 1 .. Count /\ frames[b - 1].shows > 0 /\ frames[b - 1].shows < Score
             /\ \A j \in 1 .. Count :
                   b < j /\ frames[j].shows > 0 => frames[j].shows > frames[b - 1].shows
  <2>1. /\ b > 1 /\ frames[b - 1].shows > 0 /\ frames[b - 1].shows < Score
        /\ \A j \in b + 1 .. Count : frames[j].shows > 0 => frames[j].shows > frames[b - 1].shows
    BY <1>3 DEF Played, Turned, Blend
  <2>2. b - 1 \in 1 .. Count /\ \A j \in 1 .. Count : b < j => j \in b + 1 .. Count
    BY <1>1, <2>1
  <2> QED BY <2>1, <2>2
<1> QED BY <1>1, <1>2, <1>3

\* Between two frames of a page there are frames of that page; between it and
\* the next page there may be a blend of the two.
LEMMA Between ==
  ASSUME Played, NEW i \in 1 .. Count, NEW j \in 1 .. Count, NEW k \in 1 .. Count,
         i < j, j < k, NEW p \in 1 .. Score, NEW q \in {p, p + 1},
         frames[i].shows = p, frames[k].shows = q
  PROVE  \/ frames[j].shows \in {p, q}
         \/ frames[j].shows = 0 /\ q = p + 1 /\ frames[j - 1].shows = p
<1>1. p \in Int /\ p > 0 /\ q \in Int /\ q > 0
  BY PagesAssumption
<1>2. frames[j].shows \in Int /\ frames[j].shows >= -1 /\ frames[j].shows # -1
  BY <1>1, InOrderIs
<1>3. CASE frames[j].shows > 0
  <2>1. p <= frames[j].shows /\ frames[j].shows <= q
    BY <1>1, <1>3, InOrderIs
  <2> QED BY <1>1, <1>2, <2>1
<1>4. CASE frames[j].shows = 0
  <2>1. /\ j - 1 \in 1 .. Count /\ frames[j - 1].shows > 0 /\ frames[j - 1].shows \in Int
        /\ q > frames[j - 1].shows
    BY <1>1, <1>4, InOrderIs
  <2>2. p <= frames[j - 1].shows
    <3>1. i = j - 1 \/ i < j - 1
      BY <2>1
    <3> QED BY <1>1, <2>1, <3>1, InOrderIs
  <2> QED BY <1>1, <1>4, <2>1, <2>2
<1> QED BY <1>2, <1>3, <1>4

\* No page is turned twice.
LEMMA OneBlend ==
  ASSUME Played, NEW b \in 1 .. Count, NEW c \in 1 .. Count,
         frames[b].shows = 0, frames[c].shows = 0, frames[b - 1].shows = frames[c - 1].shows
  PROVE  b = c
<1>1. ASSUME NEW x \in 1 .. Count, NEW y \in 1 .. Count, x < y,
             frames[x].shows = 0, frames[y].shows = 0, frames[x - 1].shows = frames[y - 1].shows
      PROVE  FALSE
  <2>1. /\ y - 1 \in 1 .. Count /\ frames[y - 1].shows > 0
        /\ \A j \in 1 .. Count :
              x < j /\ frames[j].shows > 0 => frames[j].shows > frames[x - 1].shows
    BY <1>1, InOrderIs
  <2>2. x < y - 1
    <3>1. x # y - 1
      BY <1>1, <2>1
    <3> QED BY <1>1, <3>1
  <2>3. frames[y - 1].shows \in Int
    BY <2>1, InOrderIs
  <2> QED BY <1>1, <2>1, <2>2, <2>3
<1>2. ~(b < c) /\ ~(c < b)
  BY <1>1
<1> QED BY <1>2, InOrderIs

\* The first and the last frame of a page in which the cursor is seen.
LEMMA SeenEnds ==
  ASSUME Played, WellPlayed, NEW p \in 1 .. Score
  PROVE  /\ FirstSeen(p) \in Seen /\ FirstSeen(p) \in 1 .. Count
         /\ frames[FirstSeen(p)].shows = p
         /\ LastSeen(p) \in Seen /\ LastSeen(p) \in 1 .. Count
         /\ frames[LastSeen(p)].shows = p
         /\ \A i \in Seen : frames[i].shows = p => FirstSeen(p) <= i /\ i <= LastSeen(p)
<1> DEFINE S == Of(p) \cap Seen
<1>1. /\ Count \in Nat /\ Seen \subseteq 1 .. Count
      /\ S = {i \in Seen : frames[i].shows = p}
  BY InOrderIs DEF Of
<1>2. S # {}
  <2>1. Cardinality(S) >= MinContributors + 2
    BY DEF WellPlayed, Clear
  <2>2. Cardinality(S) # 0
    <3> HIDE DEF S
    <3> QED BY <2>1, LayoutAssumption
  <2> HIDE DEF S
  <2> QED BY <2>2, FS_EmptySet
<1>3. S \subseteq Nat /\ S \in SUBSET (0 .. Count)
  <2>1. \A i \in S : i \in 1 .. Count
    BY <1>1
  <2> HIDE DEF S
  <2>2. \A i \in S : i \in Nat /\ i \in 0 .. Count
    BY <1>1, <2>1
  <2> QED BY <2>2
<1>4. FirstSeen(p) = (CHOOSE i \in S : \A j \in S : i <= j)
      /\ LastSeen(p) = (CHOOSE i \in S : \A j \in S : j <= i)
  BY DEF FirstSeen, LastSeen
<1> HIDE DEF S
<1>5. FirstSeen(p) \in S /\ \A j \in S : FirstSeen(p) <= j
  BY <1>2, <1>3, <1>4, LeastMember
<1>6. LastSeen(p) \in S /\ \A j \in S : j <= LastSeen(p)
  BY <1>1, <1>2, <1>3, <1>4, GreatestMember
<1> QED BY <1>1, <1>5, <1>6

LEMMA SeenShow ==
  ASSUME Played, WellPlayed, NEW i \in Seen
  PROVE  i \in 1 .. Count /\ frames[i].shows \in 0 .. Score
<1>1. i \in 1 .. Count /\ frames[i].shows \in Int /\ frames[i].shows <= Score /\ frames[i].shows >= -1
  BY InOrderIs
<1>2. frames[i].shows # -1
  BY <1>1 DEF WellPlayed, Of, Footage
<1> QED BY <1>1, <1>2, PagesAssumption

LEMMA PreviousIs ==
  ASSUME Played, NEW i \in Seen, NEW j \in Seen, j < i
  PROVE  /\ Earlier(i) # {} /\ Previous(i) \in Seen /\ Previous(i) < i /\ j <= Previous(i)
<1>1. Count \in Nat /\ Seen \subseteq 1 .. Count
  BY InOrderIs
<1>2. Earlier(i) \in SUBSET (0 .. Count) /\ j \in Earlier(i) /\ Earlier(i) # {}
  <2>1. \A k \in Earlier(i) : k \in 0 .. Count
    BY <1>1 DEF Earlier
  <2>2. j \in Earlier(i)
    BY DEF Earlier
  <2> QED BY <2>1, <2>2
<1>3. \E x \in Earlier(i) : \A y \in Earlier(i) : y <= x
  BY <1>1, <1>2, GreatestMember
<1>4. Previous(i) \in Earlier(i) /\ \A k \in Earlier(i) : k <= Previous(i)
  BY <1>3 DEF Previous
<1> QED BY <1>2, <1>4 DEF Earlier

\* On a page the cursor does not wrap.
LEMMA NoWrap ==
  ASSUME Played, WellPlayed, NEW i \in Seen, NEW p \in 1 .. Score,
         frames[i].shows = p, i # FirstSeen(p)
  PROVE  i \notin Wraps
<1> DEFINE f == FirstSeen(p)
           j == Previous(i)
<1>1. /\ f \in Seen /\ f \in 1 .. Count /\ frames[f].shows = p /\ f <= i /\ i \in 1 .. Count
  BY SeenEnds, InOrderIs
<1>2. f < i
  BY <1>1
<1>3. Earlier(i) # {} /\ j \in Seen /\ j < i /\ f <= j
  BY <1>1, <1>2, PreviousIs
<1>4. j \in 1 .. Count /\ frames[j].shows = p
  <2>1. j \in 1 .. Count
    BY <1>3, InOrderIs
  <2>2. CASE f < j
    <3>1. p \in {p, p + 1}
      OBVIOUS
    <3>2. frames[j].shows \in {p, p} \/ p = p + 1
      <4> HIDE DEF f, j
      <4> QED BY <1>1, <1>3, <2>1, <2>2, <3>1, Between
    <3> QED BY <2>1, <3>2
  <2>3. CASE f = j
    BY <1>1, <2>1, <2>3
  <2> HIDE DEF f, j
  <2> QED BY <1>1, <1>3, <2>1, <2>2, <2>3
<1>5. frames[j].cursor <= frames[i].cursor
  <2>1. Follows(j, i)
    BY <1>1, <1>3, <1>4 DEF Played
  <2>2. frames[j].shows > 0
    BY <1>4
  <2> QED BY <1>3, <1>4, <2>1, <2>2 DEF Follows
<1>6. ~(frames[i].cursor < frames[j].cursor - Wrap)
  <2>1. frames[i].cursor \in Int /\ frames[j].cursor \in Int /\ Wrap \in Nat
    BY <1>1, <1>4, InOrderIs, PagesAssumption
  <2> QED BY <1>5, <2>1
<1> QED BY <1>3, <1>6 DEF Wraps

\* From the last sample of the page before p to the first one of p.
Window(p) == {i \in 1 .. Count : i <= FirstSeen(p) /\ (p > 1 => LastSeen(p - 1) < i)}

LEMMA WindowsApart ==
  ASSUME Played, WellPlayed, NEW p \in 1 .. Score, NEW q \in 1 .. Score, p < q,
         NEW i \in Window(p), NEW j \in Window(q)
  PROVE  i < j
<1> DEFINE r == q - 1
<1>1. r \in 1 .. Score /\ p <= r /\ q > 1
  BY PagesAssumption
<1>2. /\ i <= FirstSeen(p) /\ LastSeen(r) < j /\ i \in 1 .. Count /\ j \in 1 .. Count
  BY <1>1 DEF Window
<1>3. /\ FirstSeen(p) \in 1 .. Count /\ frames[FirstSeen(p)].shows = p
      /\ LastSeen(r) \in 1 .. Count /\ frames[LastSeen(r)].shows = r
      /\ FirstSeen(p) \in Seen /\ (p = r => FirstSeen(p) <= LastSeen(r))
  BY <1>1, SeenEnds
<1> HIDE DEF r
<1>4. FirstSeen(p) <= LastSeen(r)
  <2>1. p # r => ~(LastSeen(r) < FirstSeen(p))
    BY <1>1, <1>3, InOrderIs
  <2> QED BY <1>1, <1>3, <2>1
<1> QED BY <1>2, <1>3, <1>4

LEMMA WrapInWindow ==
  ASSUME Played, WellPlayed, NEW i \in Wraps
  PROVE  \E p \in 1 .. Score : i \in Window(p)
<1>1. i \in Seen /\ i \in 1 .. Count /\ frames[i].shows \in 0 .. Score
  BY SeenShow DEF Wraps
<1>2. CASE frames[i].shows # 0
  <2> DEFINE p == frames[i].shows
  <2>1. p \in 1 .. Score
    BY <1>1, <1>2, PagesAssumption
  <2>2. i = FirstSeen(p)
    BY <1>1, <2>1, NoWrap
  <2>3. p > 1 => LastSeen(p - 1) < i
    <3> SUFFICES ASSUME p > 1 PROVE LastSeen(p - 1) < i
      OBVIOUS
    <3> DEFINE r == p - 1
    <3>1. r \in 1 .. Score /\ r < p
      BY <2>1, PagesAssumption
    <3>2. LastSeen(r) \in 1 .. Count /\ frames[LastSeen(r)].shows = r
      BY <3>1, SeenEnds
    <3>3. ~(i < LastSeen(r)) /\ i # LastSeen(r)
      <4> HIDE DEF r
      <4> QED BY <1>1, <2>1, <3>1, <3>2, InOrderIs
    <3> HIDE DEF r
    <3>4. LastSeen(r) < i
      BY <1>1, <3>2, <3>3
    <3> QED BY <3>4 DEF r
  <2>4. i <= FirstSeen(p)
    BY <1>1, <2>2
  <2>5. i \in Window(p)
    BY <1>1, <2>3, <2>4 DEF Window
  <2> QED BY <2>1, <2>5
<1>3. CASE frames[i].shows = 0
  <2> DEFINE r == frames[i - 1].shows
             p == r + 1
  <2>1. /\ i - 1 \in 1 .. Count /\ r > 0 /\ r < Score /\ r \in Int
        /\ \A j \in 1 .. Count : i < j /\ frames[j].shows > 0 => frames[j].shows > r
    BY <1>1, <1>3, InOrderIs
  <2> HIDE DEF r
  <2>2. p \in 1 .. Score /\ r \in 1 .. Score /\ p - 1 = r
    BY <2>1, PagesAssumption
  <2>3. /\ FirstSeen(p) \in 1 .. Count /\ frames[FirstSeen(p)].shows = p
        /\ LastSeen(r) \in 1 .. Count /\ frames[LastSeen(r)].shows = r
    BY <2>2, SeenEnds
  <2>4. i <= FirstSeen(p)
    <3>1. ~(FirstSeen(p) < i - 1)
      BY <2>1, <2>2, <2>3, InOrderIs DEF r
    <3>2. FirstSeen(p) # i - 1
      BY <2>1, <2>3 DEF r
    <3> QED BY <1>1, <2>1, <2>3, <3>1, <3>2
  <2>5. LastSeen(r) < i
    <3>1. ~(i < LastSeen(r)) /\ i # LastSeen(r)
      BY <1>3, <2>1, <2>3
    <3> QED BY <1>1, <2>3, <3>1
  <2>6. i \in Window(p)
    BY <1>1, <2>2, <2>4, <2>5 DEF Window
  <2> QED BY <2>2, <2>6
<1> QED BY <1>2, <1>3

\* One page begins in the window of each page of the score: at its first
\* sample, or at the blend before that.
Opening(p, o) ==
    /\ o \in Wraps /\ o \in Window(p)
    /\ \/ o = FirstSeen(p)
       \/ p > 1 /\ frames[o].shows = 0 /\ frames[o - 1].shows = p - 1
    /\ \A w \in Wraps : w \in Window(p) => w = o

LEMMA FirstOpens == ASSUME Played, WellPlayed PROVE Opening(1, FirstSeen(1))
<1> DEFINE f == FirstSeen(1)
<1>0. 1 \in 1 .. Score
  BY PagesAssumption
<1>1. /\ f \in Seen /\ f \in 1 .. Count /\ frames[f].shows = 1
      /\ \A i \in Seen : frames[i].shows = 1 => f <= i
  BY <1>0, SeenEnds
<1> HIDE DEF f
<1>2. ASSUME NEW j \in Seen, j < f PROVE FALSE
  <2>1. j \in 1 .. Count /\ frames[j].shows \in 0 .. Score
    BY SeenShow
  <2>2. CASE frames[j].shows = 0
    <3>1. /\ j - 1 \in 1 .. Count /\ frames[j - 1].shows > 0 /\ 1 > frames[j - 1].shows
      BY <1>1, <1>2, <2>1, <2>2, InOrderIs
    <3>2. frames[j - 1].shows \in Int
      BY <3>1, InOrderIs
    <3> QED BY <3>1, <3>2
  <2>3. CASE frames[j].shows # 0
    <3>1. frames[j].shows > 0 /\ frames[j].shows \in Int
      BY <2>1, <2>3, PagesAssumption
    <3>2. frames[j].shows <= frames[f].shows
      BY <1>1, <1>2, <2>1, <3>1, InOrderIs
    <3>3. frames[j].shows = 1
      BY <1>1, <3>1, <3>2
    <3> QED BY <1>1, <1>2, <2>1, <3>3
  <2> QED BY <2>2, <2>3
<1>3. Earlier(f) = {}
  BY <1>2 DEF Earlier
<1>4. f \in Wraps
  BY <1>1, <1>3 DEF Wraps
<1>5. f \in Window(1)
  BY <1>1 DEF Window, f
<1>6. ASSUME NEW w \in Wraps, w \in Window(1) PROVE w = f
  <2>1. w \in Seen /\ w <= f /\ w \in 1 .. Count
    BY <1>6 DEF Wraps, Window, f
  <2> QED BY <1>1, <1>2, <2>1
<1> QED BY <1>4, <1>5, <1>6 DEF Opening, f

LEMMA NextOpens ==
  ASSUME Played, WellPlayed, NEW p \in 1 .. Score, p > 1
  PROVE  \E o : Opening(p, o)
<1> DEFINE r == p - 1
           l == LastSeen(r)
           f == FirstSeen(p)
<1>1. r \in 1 .. Score /\ r \in 1 .. Score - 1 /\ r + 1 = p /\ r < p /\ r \in Int /\ r > 0
  BY PagesAssumption
<1>2. /\ l \in Seen /\ l \in 1 .. Count /\ frames[l].shows = r
      /\ \A i \in Seen : frames[i].shows = r => i <= l
  BY <1>1, SeenEnds
<1>3. /\ f \in Seen /\ f \in 1 .. Count /\ frames[f].shows = p
      /\ \A i \in Seen : frames[i].shows = p => f <= i
  BY SeenEnds
<1>4. /\ frames[f].cursor < frames[l].cursor - Wrap
      /\ \A i \in Seen : frames[i].shows = 0 /\ l < i /\ i < f =>
            frames[i].cursor >= frames[l].cursor \/ frames[i].cursor <= frames[f].cursor
  <2>1. Turns(r)
    BY <1>1 DEF WellPlayed
  <2>2. FirstSeen(r + 1) = f
    BY <1>1
  <2>3. \A i \in Seen : frames[i].shows = 0 => i \in Of(Blend) \cap Seen
    BY DEF Of, Blend, Seen
  <2> HIDE DEF f, r
  <2> QED BY <2>1, <2>2, <2>3 DEF Turns
<1>5. \A w \in Window(p) : l < w /\ w <= f /\ w \in 1 .. Count
  BY DEF Window
<1>6. \A w \in 1 .. Count : l < w /\ w <= f => w \in Window(p)
  BY DEF Window
<1> HIDE DEF r, l, f
<1>7. l < f
  <2>1. ~(f < l) /\ f # l
    BY <1>1, <1>2, <1>3, InOrderIs
  <2> QED BY <1>2, <1>3, <2>1
<1>8. ASSUME NEW j \in Seen, l < j, j < f PROVE frames[j].shows = 0 /\ frames[j - 1].shows = r
  <2>1. j \in 1 .. Count /\ p \in {r, r + 1}
    BY <1>1, SeenShow
  <2>2. frames[j].shows \in {r, p} \/ (frames[j].shows = 0 /\ frames[j - 1].shows = r)
    BY <1>1, <1>2, <1>3, <1>8, <2>1, Between
  <2>3. frames[j].shows # r /\ frames[j].shows # p
    <3>1. ~(j <= l) /\ ~(f <= j)
      BY <1>2, <1>3, <1>8, <2>1
    <3> QED BY <1>2, <1>3, <3>1
  <2> QED BY <2>2, <2>3
<1>9. \A i \in 1 .. Count : frames[i].cursor \in Int
  BY InOrderIs
<1>10. Wrap \in Nat
  BY PagesAssumption
<1> DEFINE b == Previous(f)
<1>11. Earlier(f) # {} /\ b \in Seen /\ b < f /\ l <= b /\ b \in 1 .. Count
  BY <1>2, <1>3, <1>7, PreviousIs, InOrderIs
<1>12. f \in Wraps <=> frames[f].cursor < frames[b].cursor - Wrap
  BY <1>3, <1>11 DEF Wraps
<1>13. ASSUME NEW w \in Wraps, w \in Window(p)
       PROVE  w \in Seen /\ w \in 1 .. Count /\ l < w /\ (w < f \/ w = f)
  <2>1. w \in Seen
    BY DEF Wraps
  <2>2. l < w /\ w <= f /\ w \in 1 .. Count
    BY <1>5, <1>13
  <2> QED BY <1>3, <2>1, <2>2
<1> HIDE DEF b
<1>14. CASE b = l
  <2>1. f \in Wraps /\ f \in Window(p)
    BY <1>3, <1>4, <1>6, <1>7, <1>12, <1>14
  <2>2. ASSUME NEW w \in Wraps, w \in Window(p) PROVE w = f
    <3>1. w \in Seen /\ w \in 1 .. Count /\ l < w /\ (w < f \/ w = f)
      BY <1>13, <2>2
    <3>2. w < f => w <= b
      BY <1>3, <3>1, PreviousIs DEF b
    <3> QED BY <1>2, <1>14, <3>1, <3>2
  <2>3. Opening(p, f)
    BY <2>1, <2>2 DEF Opening, f
  <2> QED BY <2>3
<1>15. CASE b # l
  <2> DEFINE a == Previous(b)
  <2>1. l < b /\ frames[b].shows = 0 /\ frames[b - 1].shows = r
    <3>1. l < b
      BY <1>2, <1>11, <1>15
    <3> QED BY <1>8, <1>11, <3>1
  <2>2. Earlier(b) # {} /\ a \in Seen /\ a < b /\ l <= a /\ a \in 1 .. Count
    BY <1>2, <1>11, <2>1, PreviousIs, InOrderIs
  <2>3. a = l
    <3> SUFFICES ASSUME a # l PROVE FALSE
      OBVIOUS
    <3> HIDE DEF a
    <3>1. l < a /\ a < f
      BY <1>2, <1>3, <1>11, <2>2
    <3>2. frames[a].shows = 0 /\ frames[a - 1].shows = r
      BY <1>8, <2>2, <3>1
    <3>3. a = b
      BY <1>11, <2>1, <2>2, <3>2, OneBlend
    <3> QED BY <2>2, <1>11, <3>3
  <2>4. b \in Wraps <=> frames[b].cursor < frames[l].cursor - Wrap
    BY <1>11, <2>2, <2>3 DEF Wraps
  <2>5. ASSUME NEW w \in Wraps, w \in Window(p) PROVE w = f \/ w = b
    <3>1. w \in Seen /\ w \in 1 .. Count /\ l < w /\ (w < f \/ w = f)
      BY <1>13, <2>5
    <3>2. w < f => frames[w].shows = 0 /\ frames[w - 1].shows = r
      BY <1>8, <3>1
    <3>3. w < f => w = b
      BY <1>11, <2>1, <3>1, <3>2, OneBlend
    <3> QED BY <3>1, <3>3
  <2>6. frames[b].cursor >= frames[l].cursor \/ frames[b].cursor <= frames[f].cursor
    BY <1>4, <1>11, <2>1
  <2>7. /\ frames[b].cursor \in Int /\ frames[l].cursor \in Int /\ frames[f].cursor \in Int
        /\ b \in Window(p) /\ f \in Window(p)
    <3>1. b <= f /\ f <= f
      BY <1>3, <1>11
    <3> QED BY <1>2, <1>3, <1>6, <1>7, <1>9, <1>11, <2>1, <3>1
  <2> HIDE DEF a
  <2>8. CASE frames[b].cursor <= frames[f].cursor
    <3>1. b \in Wraps /\ f \notin Wraps
      BY <1>4, <1>10, <1>12, <2>4, <2>7, <2>8
    <3>2. \A w \in Wraps : w \in Window(p) => w = b
      BY <2>5, <3>1
    <3>3. frames[b].shows = 0 /\ frames[b - 1].shows = p - 1
      BY <2>1 DEF r
    <3>4. Opening(p, b)
      BY <2>7, <3>1, <3>2, <3>3 DEF Opening
    <3> QED BY <3>4
  <2>9. CASE ~(frames[b].cursor <= frames[f].cursor)
    <3>1. f \in Wraps /\ b \notin Wraps
      BY <1>4, <1>10, <1>12, <2>4, <2>6, <2>7, <2>9
    <3>2. \A w \in Wraps : w \in Window(p) => w = f
      BY <2>5, <3>1
    <3>3. Opening(p, f)
      BY <2>7, <3>1, <3>2 DEF Opening, f
    <3> QED BY <3>3
  <2> QED BY <2>8, <2>9
<1> QED BY <1>14, <1>15

LEMMA EachOpens ==
  ASSUME Played, WellPlayed, NEW p \in 1 .. Score PROVE \E o : Opening(p, o)
<1>1. p = 1 \/ p > 1
  OBVIOUS
<1> QED BY <1>1, FirstOpens, NextOpens

\* The k-th page of the song begins in the window of the k-th page of the score.
LEMMA PagesBegin ==
  ASSUME Played, Listed, WellPlayed, pc # "film", starts = Composed
  PROVE  /\ starts = Wraps /\ Len(pages) = Score
         /\ \A k \in 1 .. Score : pages[k].first \in Wraps /\ Opening(k, pages[k].first)
<1> DEFINE n == Len(pages)
           First(k) == pages[k].first
           Bad == {k \in 1 .. n : ~(k <= Score /\ First(k) \in Window(k))}
<1>1. /\ Score \in Nat /\ Score > 0 /\ n \in Nat /\ DOMAIN pages = 1 .. n
      /\ \A i \in 1 .. n : First(i) \in starts
      /\ \A i, j \in 1 .. n : i < j => First(i) < First(j)
  BY PagesAssumption DEF Listed
<1>2. starts = Wraps /\ \A i \in Wraps : i \in 1 .. Count
  <2>1. Wraps # {}
    <3>1. \E o : Opening(1, o)
      BY <1>1, FirstOpens
    <3> QED BY <3>1 DEF Opening
  <2> QED BY <2>1, WrapsAreFrames DEF Listed
<1>3. \A w \in Wraps : \E i \in 1 .. n : First(i) = w
  <2>1. Composed = {First(i) : i \in 1 .. n}
    BY <1>1 DEF Composed
  <2> HIDE DEF First
  <2> QED BY <1>2, <2>1
<1>0. Count \in Nat
  BY InOrderIs
<1>4. \A i \in 1 .. n : First(i) \in Wraps /\ First(i) \in 1 .. Count
  BY <1>1, <1>2
<1> HIDE DEF First, n
<1>5. Bad = {}
  <2> SUFFICES ASSUME Bad # {} PROVE FALSE
    OBVIOUS
  <2>1. PICK k \in Bad : \A x \in Bad : k <= x
    <3>1. Bad \subseteq Nat
      BY <1>1
    <3> HIDE DEF Bad
    <3> QED BY <3>1, LeastMember
  <2>2. k \in 1 .. n /\ ~(k <= Score /\ First(k) \in Window(k))
    OBVIOUS
  <2>3. ASSUME NEW j \in 1 .. n, j < k PROVE j \in 1 .. Score /\ First(j) \in Window(j)
    <3>1. ~(k <= j)
      BY <1>1, <2>2, <2>3
    <3>2. j \notin Bad
      BY <2>1, <3>1
    <3> QED BY <1>1, <3>2
  <2> HIDE DEF Bad
  <2>4. PICK q \in 1 .. Score : First(k) \in Window(q)
    BY <1>4, <2>2, WrapInWindow
  <2>5. q # k
    BY <1>1, <2>2, <2>4
  <2>6. CASE q < k
    <3>1. q \in 1 .. n /\ First(q) \in Window(q)
      BY <1>1, <2>2, <2>3, <2>6
    <3>2. PICK o : Opening(q, o)
      BY EachOpens
    <3>3. First(q) = First(k)
      BY <1>4, <2>2, <2>4, <3>1, <3>2 DEF Opening
    <3>4. First(q) < First(k)
      BY <1>1, <2>2, <2>6, <3>1
    <3> QED BY <1>4, <2>2, <3>3, <3>4
  <2>7. CASE k < q
    <3>1. k \in 1 .. Score
      BY <1>1, <2>2, <2>7
    <3>2. PICK o : Opening(k, o)
      BY <3>1, EachOpens
    <3>3. o \in Wraps /\ o \in Window(k)
      BY <3>2 DEF Opening
    <3>4. PICK j \in 1 .. n : First(j) = o
      BY <1>3, <3>3
    <3>5. First(j) < First(k)
      BY <2>4, <2>7, <3>1, <3>3, <3>4, WindowsApart
    <3>6. j < k
      <4>1. ~(k < j) /\ j # k
        BY <1>1, <1>4, <2>2, <3>5
      <4> QED BY <1>1, <2>2, <4>1
    <3>7. j \in 1 .. Score /\ First(j) \in Window(j)
      BY <2>3, <3>6
    <3>8. First(j) < o
      BY <3>1, <3>3, <3>6, <3>7, WindowsApart
    <3> QED BY <1>4, <3>4, <3>8
  <2> QED BY <2>2, <2>4, <2>5, <2>6, <2>7
<1>6. \A k \in 1 .. n : k \in 1 .. Score /\ First(k) \in Window(k)
  BY <1>1, <1>5
<1>7. n = Score
  <2>1. PICK o : Opening(Score, o)
    BY <1>1, EachOpens
  <2>2. o \in Wraps /\ o \in Window(Score)
    BY <2>1 DEF Opening
  <2>3. PICK j \in 1 .. n : First(j) = o
    BY <1>3, <2>2
  <2>4. j \in 1 .. Score /\ o \in Window(j)
    BY <1>6, <2>3
  <2>5. ~(j < Score)
    <3> SUFFICES ASSUME j < Score PROVE FALSE
      OBVIOUS
    <3>1. o < o
      BY <1>1, <2>2, <2>4, WindowsApart
    <3> QED BY <1>2, <2>2, <3>1
  <2>6. n <= Score
    <3>1. n > 0 => n \in 1 .. n
      BY <1>1
    <3> QED BY <1>1, <1>6, <3>1
  <2> QED BY <1>1, <2>4, <2>5, <2>6
<1>8. ASSUME NEW k \in 1 .. Score PROVE First(k) \in Wraps /\ Opening(k, First(k))
  <2>1. k \in 1 .. n /\ First(k) \in Wraps /\ First(k) \in Window(k)
    BY <1>4, <1>6, <1>7
  <2>2. PICK o : Opening(k, o)
    BY EachOpens
  <2>3. First(k) = o
    BY <2>1, <2>2 DEF Opening
  <2> QED BY <2>1, <2>2, <2>3
<1> QED BY <1>2, <1>7, <1>8 DEF n, First

-----------------------------------------------------------------------------
(* The frames of a page of a video that is well played *)

LEMMA AtMostOne ==
  ASSUME NEW S, IsFiniteSet(S), Cardinality(S) <= 1, NEW x \in S, NEW y \in S
  PROVE  x = y
<1> SUFFICES ASSUME x # y PROVE FALSE
  OBVIOUS
<1>1. IsFiniteSet({x}) /\ Cardinality({x}) = 1 /\ y \notin {x}
  BY FS_Singleton
<1>2. Cardinality({x} \cup {y}) = 2
  BY <1>1, FS_AddElement
<1>3. {x} \cup {y} \in SUBSET S
  OBVIOUS
<1>4. Cardinality({x} \cup {y}) <= Cardinality(S) /\ Cardinality(S) \in Nat
  BY <1>3, FS_Subset, FS_CardinalityType
<1> QED BY <1>2, <1>4

LEMMA FramesFinite == ASSUME Played, NEW S \in SUBSET (1 .. Count) PROVE IsFiniteSet(S)
<1>1. IsFiniteSet(1 .. Count)
  BY InOrderIs, FS_Interval
<1> QED BY <1>1, FS_Subset

LEMMA IntervalSize ==
  ASSUME NEW a \in Int, NEW b \in Int, a <= b + 1
  PROVE  IsFiniteSet(a .. b) /\ Cardinality(a .. b) = b - a + 1
BY FS_Interval

\* The frames of the page that begins with o: up to z they show p, but for the
\* first one, and at most two more are neither of this page nor of another.
Fills(p, o, z) ==
    /\ o \in 1 .. Count /\ z \in 1 .. Count /\ o + MinContributors + 1 <= z
    /\ \A i \in 1 .. Count : o < i /\ i <= z => frames[i].shows = p
    /\ End(o) \in z .. z + 2 /\ End(o) \in 1 .. Count

LEMMA PageFills ==
  ASSUME Played, WellPlayed, starts = Wraps, NEW p \in 1 .. Score, NEW o, Opening(p, o)
  PROVE  \E z : Fills(p, o, z)
<1> DEFINE f == FirstSeen(p)
           e == End(o)
<1>1. /\ f \in Seen /\ f \in 1 .. Count /\ frames[f].shows = p
      /\ \A i \in Seen : frames[i].shows = p => f <= i
  BY SeenEnds
<1>2. /\ o \in Wraps /\ o \in Window(p) /\ o \in 1 .. Count /\ o <= f
      /\ p > 1 => LastSeen(p - 1) < o
      /\ o = f \/ (p > 1 /\ frames[o].shows = 0 /\ frames[o - 1].shows = p - 1)
      /\ \A w \in Wraps : w \in Window(p) => w = o
  BY DEF Opening, Window
<1>3. p \in Int /\ p > 0 /\ p <= Score /\ Count \in Nat /\ Score \in Nat
  BY InOrderIs, PagesAssumption
<1> HIDE DEF f
<1>4. PICK z \in Of(p) : \A i \in Of(p) : i <= z
  <2>1. \A i \in Of(p) : i \in 0 .. Count
    BY DEF Of
  <2>2. f \in Of(p)
    BY <1>1 DEF Of
  <2>3. Of(p) \in SUBSET (0 .. Count) /\ Of(p) # {}
    BY <2>1, <2>2
  <2> QED BY <1>3, <2>3, GreatestMember
<1>5. /\ z \in 1 .. Count /\ frames[z].shows = p
      /\ \A i \in 1 .. Count : frames[i].shows = p => i <= z
  BY <1>4 DEF Of
<1>6. f <= z /\ o <= z
  BY <1>1, <1>2, <1>5
<1>7. ASSUME NEW i \in 1 .. Count, o < i, i <= z PROVE frames[i].shows = p
  <2>1. CASE i = z
    BY <1>5, <2>1
  <2>2. CASE i # z /\ o = f
    <3>1. i < z /\ p \in {p, p + 1}
      BY <1>5, <1>7, <2>2
    <3>2. frames[i].shows \in {p, p} \/ p = p + 1
      BY <1>1, <1>2, <1>5, <1>7, <2>2, <3>1, Between
    <3> QED BY <1>3, <3>2
  <2>3. CASE i # z /\ p > 1 /\ frames[o].shows = 0 /\ frames[o - 1].shows = p - 1
    <3> DEFINE r == p - 1
    <3>1. /\ r \in 1 .. Score /\ r \in Int /\ p = r + 1 /\ r + 1 \in {r, r + 1}
          /\ i < z /\ o - 1 < i
      BY <1>2, <1>3, <1>5, <1>7, <2>3
    <3>2. o - 1 \in 1 .. Count /\ \A j \in 1 .. Count :
             o < j /\ frames[j].shows > 0 => frames[j].shows > r
      BY <1>2, <2>3, InOrderIs
    <3> HIDE DEF r
    <3>3. \/ frames[i].shows \in {r, r + 1}
          \/ frames[i].shows = 0 /\ r + 1 = r + 1 /\ frames[i - 1].shows = r
      <4> DEFINE a == o - 1
      <4>1. a \in 1 .. Count /\ frames[a].shows = r /\ a < i /\ frames[z].shows = r + 1
        BY <1>5, <2>3, <3>1, <3>2 DEF r
      <4> HIDE DEF a
      <4> QED BY <1>5, <3>1, <4>1, Between
    <3>4. frames[i].shows # r
      <4> SUFFICES ASSUME frames[i].shows = r PROVE FALSE
        OBVIOUS
      <4>1. frames[i].shows > 0
        BY <3>1
      <4>2. r > r
        BY <1>7, <3>2, <4>1
      <4> QED BY <3>1, <4>2
    <3>5. ~(frames[i].shows = 0 /\ frames[i - 1].shows = r)
      <4> SUFFICES ASSUME frames[i].shows = 0, frames[i - 1].shows = r PROVE FALSE
        OBVIOUS
      <4>1. o = i
        BY <1>2, <2>3, OneBlend DEF r
      <4> QED BY <1>2, <1>7, <4>1
    <3> QED BY <3>1, <3>3, <3>4, <3>5
  <2> QED BY <1>2, <2>1, <2>2, <2>3
<1>8. o + MinContributors + 1 <= z
  <2> DEFINE S == Of(p) \cap Seen
             T == o .. z
  <2>1. Cardinality(S) >= MinContributors + 2
    BY DEF WellPlayed, Clear
  <2>2. IsFiniteSet(T) /\ Cardinality(T) = z - o + 1
    <3>1. o \in Int /\ z \in Int /\ o <= z + 1
      BY <1>2, <1>5, <1>6
    <3> QED BY <3>1, IntervalSize
  <2>3. S \in SUBSET T
    <3> SUFFICES ASSUME NEW i \in S PROVE i \in T
      OBVIOUS
    <3>1. i \in 1 .. Count /\ f <= i /\ i <= z
      BY <1>1, <1>5 DEF Of
    <3> QED BY <1>1, <1>2, <1>5, <3>1
  <2> HIDE DEF S, T
  <2>4. Cardinality(S) <= Cardinality(T) /\ Cardinality(S) \in Nat
    BY <2>2, <2>3, FS_Subset, FS_CardinalityType
  <2>5. MinContributors \in Nat
    BY LayoutAssumption
  <2> QED BY <1>2, <1>5, <2>1, <2>2, <2>4, <2>5
<1>9. ASSUME NEW t \in starts, o < t PROVE t > z
  <2> SUFFICES ASSUME t <= z PROVE FALSE
    <3>1. t \in 1 .. Count
      BY <1>9, WrapsAreFrames
    <3> QED BY <1>5, <3>1
  <2>1. t \in Wraps /\ t \in Seen /\ t \in 1 .. Count
    BY WrapsAreFrames DEF Wraps
  <2>2. frames[t].shows = p
    BY <1>7, <1>9, <2>1
  <2>3. t = f
    BY <2>1, <2>2, NoWrap DEF f
  <2>4. t \in Window(p)
    <3>1. t <= f
      BY <1>1, <2>3
    <3>2. p > 1 => LastSeen(p - 1) < t
      <4> SUFFICES ASSUME p > 1 PROVE LastSeen(p - 1) < t
        OBVIOUS
      <4>1. p - 1 \in 1 .. Score
        BY <1>3
      <4>2. LastSeen(p - 1) \in 1 .. Count
        BY <4>1, SeenEnds
      <4> QED BY <1>2, <1>9, <2>1, <4>2
    <3> QED BY <2>1, <3>1, <3>2 DEF Window, f
  <2>5. t = o
    BY <1>2, <2>1, <2>4
  <2> QED BY <1>2, <1>9, <2>5
<1>10. /\ e \in o .. Count /\ \A t \in starts : t > o => e < t
       /\ e = Count \/ e + 1 \in starts
  <2>1. starts \subseteq 1 .. Count /\ o \in starts
    BY <1>2, WrapsAreFrames
  <2> QED BY <1>3, <2>1, EndIs
<1> HIDE DEF e
<1>11. z <= e
  <2>1. CASE e = Count
    BY <1>3, <1>5, <2>1
  <2>2. CASE e + 1 \in starts
    <3>1. o < e + 1 /\ e \in Int
      BY <1>2, <1>3, <1>10
    <3> QED BY <1>5, <1>9, <2>2, <3>1
  <2> QED BY <1>10, <2>1, <2>2
<1>12. e <= z + 2
  <2> SUFFICES ASSUME z + 3 <= e PROVE FALSE
    BY <1>2, <1>5, <1>10
  <2>0. /\ z + 1 \in 1 .. Count /\ z + 2 \in 1 .. Count /\ z + 3 \in 1 .. Count
        /\ e \in 1 .. Count
    BY <1>2, <1>3, <1>5, <1>10
  <2>1. CASE p < Score
    <3> DEFINE q == p + 1
               g == FirstSeen(q)
               A == Of(q) \ Seen
    <3>1. q \in 1 .. Score /\ p < q
      BY <1>3, <2>1
    <3>2. /\ g \in 1 .. Count /\ frames[g].shows = q
          /\ \A i \in Seen : frames[i].shows = q => g <= i
      BY <3>1, SeenEnds
    <3>3. PICK w : Opening(q, w)
      BY <3>1, EachOpens
    <3>4. w \in starts /\ w \in Window(q) /\ w <= g /\ w \in 1 .. Count
      BY <3>3 DEF Opening, Window
    <3>5. o < w
      BY <1>2, <3>1, <3>4, WindowsApart
    <3>6. e < w
      BY <1>10, <1>2, <3>4, <3>5
    <3>7. \A i \in A, j \in A : i = j
      <4>1. Clear(q)
        BY <3>1 DEF WellPlayed
      <4>2. Cardinality(A) <= 1
        BY <4>1 DEF Clear
      <4>3. A \in SUBSET (1 .. Count)
        BY DEF Of
      <4> HIDE DEF A
      <4> QED BY <4>2, <4>3, FramesFinite, AtMostOne
    <3>8. ASSUME NEW i \in 1 .. Count, z < i, i <= e
          PROVE  i \in A \/ (frames[i].shows = 0 /\ frames[i - 1].shows = p)
      <4>1. i < g /\ q \in {p, p + 1}
        BY <2>0, <3>2, <3>4, <3>6, <3>8
      <4>2. frames[i].shows \in {p, q} \/ (frames[i].shows = 0 /\ q = p + 1 /\ frames[i - 1].shows = p)
        <5> HIDE DEF q, g, A
        <5> QED BY <1>5, <3>2, <3>8, <4>1, Between
      <4>3. frames[i].shows # p
        BY <1>5, <3>8
      <4>4. frames[i].shows = q => i \in A
        <5>1. frames[i].shows = q => i \notin Seen
          BY <3>2, <4>1
        <5> QED BY <5>1 DEF Of
      <4> QED BY <4>2, <4>3, <4>4
    <3>9. ASSUME NEW i \in 1 .. Count, NEW j \in 1 .. Count,
                 frames[i].shows = 0, frames[i - 1].shows = p,
                 frames[j].shows = 0, frames[j - 1].shows = p
          PROVE  i = j
      BY <3>9, OneBlend
    <3>10. /\ z < z + 1 /\ z < z + 2 /\ z < z + 3
           /\ z + 1 <= e /\ z + 2 <= e /\ z + 3 <= e
           /\ z + 1 # z + 2 /\ z + 1 # z + 3 /\ z + 2 # z + 3
      BY <2>0, <1>5
    <3> DEFINE B(i) == frames[i].shows = 0 /\ frames[i - 1].shows = p
    <3>11. /\ z + 1 \in A \/ B(z + 1)
           /\ z + 2 \in A \/ B(z + 2)
           /\ z + 3 \in A \/ B(z + 3)
      BY <2>0, <3>8, <3>10
    <3>12. \A i, j \in 1 .. Count : B(i) /\ B(j) => i = j
      BY <3>9
    <3> HIDE DEF A, B
    <3> QED BY <2>0, <3>7, <3>10, <3>11, <3>12
  <2>2. CASE p = Score
    <3> DEFINE A == Of(Footage)
    <3>1. ASSUME NEW i \in 1 .. Count, z < i PROVE i \in A
      <4>1. frames[i].shows \in Int /\ frames[i].shows >= -1 /\ frames[i].shows <= Score
        BY InOrderIs
      <4>2. ~(frames[i].shows > 0)
        <5> SUFFICES ASSUME frames[i].shows > 0 PROVE FALSE
          OBVIOUS
        <5>1. p <= frames[i].shows
          BY <1>3, <1>5, <3>1, InOrderIs
        <5>2. frames[i].shows = p
          BY <1>3, <2>2, <4>1, <5>1
        <5> QED BY <1>5, <3>1, <5>2
      <4>3. frames[i].shows # 0
        <5> SUFFICES ASSUME frames[i].shows = 0 PROVE FALSE
          OBVIOUS
        <5>1. i - 1 \in 1 .. Count /\ frames[i - 1].shows > 0 /\ frames[i - 1].shows < p
          BY <2>2, InOrderIs
        <5>2. z = i - 1 \/ z < i - 1
          BY <1>5, <3>1, <5>1
        <5>3. p <= frames[i - 1].shows
          BY <1>3, <1>5, <5>1, <5>2, InOrderIs
        <5>4. frames[i - 1].shows \in Int
          BY <5>1, InOrderIs
        <5> QED BY <1>3, <5>1, <5>3, <5>4
      <4>4. frames[i].shows = -1
        BY <4>1, <4>2, <4>3
      <4> QED BY <4>4 DEF Of, Footage
    <3>2. A \in SUBSET (1 .. Count) /\ Cardinality(A) <= 1
      BY DEF Of, WellPlayed
    <3>3. z + 1 \in A /\ z + 2 \in A
      BY <1>5, <2>0, <3>1
    <3> HIDE DEF A
    <3>4. z + 1 = z + 2
      BY <3>2, <3>3, FramesFinite, AtMostOne
    <3> QED BY <1>5, <3>4
  <2> QED BY <1>3, <2>1, <2>2
<1>13. e \in z .. z + 2 /\ e \in 1 .. Count
  BY <1>2, <1>3, <1>5, <1>10, <1>11, <1>12
<1> QED BY <1>2, <1>5, <1>7, <1>8, <1>13 DEF Fills, e

\* Such a page shows what it should, and enough of its frames do.
LEMMA PageShows ==
  ASSUME Played, NEW p \in 1 .. Score, NEW o, NEW z, Fills(p, o, z)
  PROVE  Composite(o).shows = p /\ Composite(o).low = FALSE
<1> DEFINE e == End(o)
           g == o .. e
           h == o + 1 .. e - 1
           S(q) == {i \in h : frames[i].shows = q}
           most == {q \in {frames[i].shows : i \in h} : 2 * Cardinality(S(q)) > Cardinality(h)}
<1>1. /\ o \in Int /\ o >= 1 /\ z \in Int /\ z <= Count /\ o + MinContributors + 1 <= z
      /\ e \in Int /\ e >= z /\ e <= z + 2 /\ e <= Count
      /\ \A i \in 1 .. Count : o < i /\ i <= z => frames[i].shows = p
  BY InOrderIs DEF Fills
<1>2. MinContributors \in Nat /\ MinContributors >= 1 /\ Count \in Nat
  BY InOrderIs, LayoutAssumption
<1> HIDE DEF e
<1>3. Cardinality(g) > 2
  <2>1. o <= e + 1
    BY <1>1, <1>2
  <2>2. Cardinality(g) = e - o + 1
    BY <1>1, <2>1, IntervalSize
  <2> QED BY <1>1, <1>2, <2>2
<1>4. Interior(g) = h
  <2>1. o \in g /\ e \in g
    BY <1>1, <1>2
  <2>2. \A i \in g : i \in h <=> \E j, k \in g : j < i /\ i < k
    <3> SUFFICES ASSUME NEW i \in g PROVE i \in h <=> \E j, k \in g : j < i /\ i < k
      OBVIOUS
    <3>1. i \in h <=> o < i /\ i < e
      BY <1>1
    <3>2. ASSUME NEW j \in g, NEW k \in g, j < i, i < k PROVE o < i /\ i < e
      BY <1>1, <3>2
    <3> HIDE DEF g, h
    <3> QED BY <2>1, <3>1, <3>2
  <2>3. \A i \in h : i \in g
    BY <1>1
  <2>4. Interior(g) = {i \in g : \E j, k \in g : j < i /\ i < k}
    <3> HIDE DEF g
    <3> QED BY <1>3 DEF Interior
  <2> HIDE DEF g, h
  <2> QED BY <2>2, <2>3, <2>4
<1>5. IsFiniteSet(h) /\ Cardinality(h) = e - o - 1
  <2>1. o + 1 \in Int /\ e - 1 \in Int /\ o + 1 <= (e - 1) + 1
    BY <1>1, <1>2
  <2>2. Cardinality(h) = (e - 1) - (o + 1) + 1 /\ IsFiniteSet(h)
    BY <2>1, IntervalSize
  <2> QED BY <1>1, <2>2
<1>6. ~(Cardinality(h) < MinContributors)
  <2> HIDE DEF h
  <2> QED BY <1>1, <1>2, <1>5
<1>7. ASSUME NEW q
      PROVE  S(q) \subseteq h /\ IsFiniteSet(S(q)) /\ Cardinality(S(q)) \in Nat
  <2> HIDE DEF h
  <2>1. S(q) \in SUBSET h
    OBVIOUS
  <2> HIDE DEF S
  <2> QED BY <1>5, <2>1, FS_Subset, FS_CardinalityType
<1>8. 2 * Cardinality(S(p)) > Cardinality(h)
  <2> DEFINE y == IF e = z THEN z - 1 ELSE z
             T == o + 1 .. y
  <2>1. /\ y \in Int /\ y <= z /\ y <= e - 1 /\ o + 1 <= y + 1
        /\ 2 * (y - o) > e - o - 1
    BY <1>1, <1>2
  <2> HIDE DEF y
  <2>2. T \in SUBSET S(p)
    <3> SUFFICES ASSUME NEW i \in T PROVE i \in h /\ frames[i].shows = p
      OBVIOUS
    <3>1. i \in h /\ i \in 1 .. Count /\ o < i /\ i <= z
      BY <1>1, <1>2, <2>1
    <3> QED BY <1>1, <3>1
  <2>3. Cardinality(T) = y - o
    <3>1. o + 1 \in Int
      BY <1>1
    <3>2. Cardinality(T) = y - (o + 1) + 1
      BY <2>1, <3>1, IntervalSize
    <3> HIDE DEF T
    <3> QED BY <1>1, <2>1, <3>2
  <2> HIDE DEF S, T
  <2>4. Cardinality(T) <= Cardinality(S(p))
    BY <1>7, <2>2, FS_Subset
  <2> HIDE DEF h
  <2> QED BY <1>1, <1>5, <1>7, <2>1, <2>3, <2>4
<1>9. p \in most
  <2>1. o + 1 \in h /\ o + 1 \in 1 .. Count /\ o < o + 1 /\ o + 1 <= z
    BY <1>1, <1>2
  <2>2. frames[o + 1].shows = p
    BY <1>1, <2>1
  <2> HIDE DEF h, S
  <2> QED BY <1>8, <2>1, <2>2
<1>10. ASSUME NEW q \in most PROVE q = p
  <2>1. 2 * Cardinality(S(q)) > Cardinality(h)
    BY <1>10
  <2>2. Cardinality(S(p)) + Cardinality(S(q)) > Cardinality(h)
    <3>1. Cardinality(S(p)) \in Nat /\ Cardinality(S(q)) \in Nat /\ Cardinality(h) \in Int
      <4> HIDE DEF h, S
      <4> QED BY <1>1, <1>5, <1>7
    <3> HIDE DEF h, S, most
    <3> QED BY <1>8, <2>1, <3>1
  <2>3. S(p) \cap S(q) # {}
    <3>1. S(p) \subseteq h /\ S(q) \subseteq h
      BY <1>7
    <3> HIDE DEF h, S, most
    <3> QED BY <1>5, <2>2, <3>1, FS_MajoritiesIntersect
  <2> HIDE DEF h, most
  <2> QED BY <2>3
<1>11. Median(h) = p
  <2>1. Median(h) = IF most = {} THEN Mixture ELSE CHOOSE q \in most : TRUE
    <3> HIDE DEF h
    <3> QED BY DEF Median
  <2> HIDE DEF h, most
  <2> QED BY <1>9, <1>10, <2>1
<1>12. /\ Composite(o).low = (Cardinality(Interior(g)) < MinContributors)
       /\ Composite(o).shows = IF Cardinality(Interior(g)) < MinContributors
                               THEN Lightest(g) ELSE Median(Interior(g))
  BY DEF Composite, e
<1> HIDE DEF g, h
<1>13. (Cardinality(Interior(g)) < MinContributors) = FALSE
  BY <1>4, <1>6
<1>14. Composite(o).low = FALSE
  BY <1>12, <1>13
<1>15. Composite(o).shows = p
  BY <1>4, <1>6, <1>11, <1>12
<1> QED BY <1>14, <1>15

-----------------------------------------------------------------------------
(* Every page of a video that is well played is printed *)

LEMMA PagesShow ==
  ASSUME Played, Listed, WellPlayed, pc # "film", starts = Composed
  PROVE  /\ Len(pages) = Score /\ DOMAIN pages = 1 .. Score
         /\ \A k \in 1 .. Score : pages[k].shows = k /\ pages[k].low = FALSE
<1>1. /\ starts = Wraps /\ Len(pages) = Score
      /\ \A k \in 1 .. Score : Opening(k, pages[k].first)
  BY PagesBegin
<1>2. ASSUME NEW k \in 1 .. Score PROVE pages[k].shows = k /\ pages[k].low = FALSE
  <2> DEFINE o == pages[k].first
  <2>1. pages[k] = Composite(o)
    BY <1>1 DEF Listed
  <2>2. Opening(k, o)
    BY <1>1
  <2> HIDE DEF o
  <2>3. PICK z : Fills(k, o, z)
    BY <1>1, <2>2, PageFills
  <2>4. Composite(o).shows = k /\ Composite(o).low = FALSE
    BY <2>3, PageShows
  <2> QED BY <2>1, <2>4
<1>3. DOMAIN pages = 1 .. Score
  BY <1>1 DEF Listed
<1> QED BY <1>1, <1>2, <1>3

\* None of them is discarded.
LEMMA AllAreKept ==
  ASSUME DOMAIN pages = 1 .. Score,
         \A k \in 1 .. Score : pages[k].shows = k /\ pages[k].low = FALSE, NEW light
  PROVE  Usable(light) = [k \in 1 .. Score |-> pages[k]]
<1>1. Score \in Nat
  BY PagesAssumption
<1>2. Kept(light) = 1 .. Score
  <2>1. \A i \in 1 .. Score : pages[i].shows # Footage /\ pages[i].shows # Mixture
    BY <1>1 DEF Footage, Mixture
  <2> QED BY <2>1 DEF Kept
<1> DEFINE S == 1 .. Score
<1>3. Cardinality(S) = Score
  <2>1. 1 \in Int /\ Score \in Int /\ 1 <= Score + 1
    BY <1>1
  <2> QED BY <2>1, IntervalSize
<1>4. ASSUME NEW k \in S PROVE Nth(S, k) = k
  <2> DEFINE i == Nth(S, k)
  <2>1. i \in S /\ Cardinality({j \in S : j <= i}) = k
    <3>1. S \in SUBSET (1 .. Score) /\ k \in 1 .. Cardinality(S)
      BY <1>3
    <3> HIDE DEF S
    <3> QED BY <1>1, <3>1, NthIs
  <2> HIDE DEF i
  <2>2. {j \in S : j <= i} = 1 .. i
    BY <1>1, <2>1
  <2>3. Cardinality(1 .. i) = i
    <3>1. 1 \in Int /\ i \in Int /\ 1 <= i + 1
      BY <1>1, <2>1
    <3>2. Cardinality(1 .. i) = i - 1 + 1
      BY <3>1, IntervalSize
    <3> QED BY <3>1, <3>2
  <2> QED BY <2>1, <2>2, <2>3 DEF i
<1>5. Usable(light) = [k \in 1 .. Cardinality(S) |-> pages[Nth(S, k)]]
  BY <1>2 DEF Usable
<1> QED BY <1>3, <1>4, <1>5

LEMMA WellPlayedStays == ASSUME frames' = frames PROVE WellPlayed' <=> WellPlayed
BY DEF WellPlayed, Clear, Turns, FirstSeen, LastSeen, Of, Seen, Count

LEMMA ToSystemsOnce ==
  ASSUME Played, Listed, OnSheets, ToSystems PROVE EveryPageOnce'
<1>1. /\ pc = "compose" /\ starts = Composed /\ LayoutInit /\ pages \in Seq(Sheet)
      /\ frames' = frames /\ pages' = pages /\ UNCHANGED <<rows, used, sheets>>
  BY DEF ToSystems, OnSheets, Listed
<1> SUFFICES ASSUME pc' \in {"layout", "done"}, WellPlayed'
             PROVE  /\ [i \in DOMAIN Printed' |-> Printed'[i].shows] = [p \in 1 .. Score |-> p]
                    /\ \A i \in DOMAIN pages' : ~pages'[i].low
  BY DEF EveryPageOnce
<1>2. /\ DOMAIN pages = 1 .. Score
      /\ \A k \in 1 .. Score : pages[k].shows = k /\ pages[k].low = FALSE
  BY <1>1, WellPlayedStays, PagesShow
<1>3. PICK light \in SUBSET {p.first : p \in {q \in Range(pages) : q.shows = Mixture}} :
        \E barline \in {"none", "right", "odd"} :
           IF Usable(light) = <<>> THEN pc' = "failed" /\ UNCHANGED todo
           ELSE /\ pc' = "layout"
                /\ todo' = [i \in DOMAIN Usable(light) |->
                              Band(Usable(light)[i], Usable(light), barline)]
  BY DEF ToSystems
<1>4. PICK barline \in {"none", "right", "odd"} :
           IF Usable(light) = <<>> THEN pc' = "failed" /\ UNCHANGED todo
           ELSE /\ pc' = "layout"
                /\ todo' = [i \in DOMAIN Usable(light) |->
                              Band(Usable(light)[i], Usable(light), barline)]
  BY <1>3
<1> DEFINE U == Usable(light)
<1>5. U = [k \in 1 .. Score |-> pages[k]]
  BY <1>2, AllAreKept
<1>6. todo' = [i \in DOMAIN U |-> Band(U[i], U, barline)]
  BY <1>4
<1> HIDE DEF U
<1>7. \A k \in 1 .. Score : Band(U[k], U, barline).shows = k
  BY <1>2, <1>5 DEF Band
<1>8. /\ todo' = [k \in 1 .. Score |-> Band(U[k], U, barline)] /\ DOMAIN todo' = 1 .. Score
      /\ \A k \in 1 .. Score : todo'[k].shows = k
  BY <1>5, <1>6, <1>7
<1>9. Printed' = todo'
  <2>1. OnSheets'
    BY ToSystemsOnSheets
  <2>2. todo' \in Seq(PageBands)
    BY <2>1 DEF OnSheets, Placed
  <2> QED BY <1>1, <2>2, PrintedIsTodo
<1> HIDE DEF Printed
<1>10. [i \in DOMAIN Printed' |-> Printed'[i].shows] = [p \in 1 .. Score |-> p]
  BY <1>8, <1>9
<1> QED BY <1>1, <1>2, <1>10

LEMMA SameOnce ==
  ASSUME EveryPageOnce, UNCHANGED pageVars, Printed' = Printed,
         pc' \in {"layout", "done"} => pc \in {"layout", "done"}
  PROVE  EveryPageOnce'
<1>1. frames' = frames /\ pages' = pages
  BY DEF pageVars
<1>2. WellPlayed' <=> WellPlayed
  BY <1>1, WellPlayedStays
<1> HIDE DEF Printed, WellPlayed
<1> QED BY <1>1, <1>2 DEF EveryPageOnce

LEMMA StepOnce ==
  Played /\ Listed /\ OnSheets /\ EveryPageOnce /\ [PagesNext]_pagesVars => EveryPageOnce'
<1> SUFFICES ASSUME Played, Listed, OnSheets, EveryPageOnce, [PagesNext]_pagesVars
             PROVE  EveryPageOnce'
  OBVIOUS
<1>1. CASE pc' \notin {"layout", "done"}
  BY <1>1 DEF EveryPageOnce
<1>2. CASE ToSystems
  BY <1>2, ToSystemsOnce
<1>3. CASE LayOut /\ UNCHANGED pageVars
  <2>1. Printed' = Printed /\ pc' = pc
    BY <1>3, PageBandsSized, SheetsStep DEF OnSheets, LayOut
  <2> QED BY <1>3, <2>1, SameOnce
<1>4. CASE Save /\ UNCHANGED pageVars
  <2>1. UNCHANGED <<todo, rows, used, sheets>> /\ pc = "layout"
    BY <1>4 DEF Save, layoutVars
  <2>2. Printed' = Printed
    BY <2>1 DEF Printed
  <2> QED BY <1>4, <2>1, <2>2, SameOnce
<1>5. CASE UNCHANGED pagesVars
  <2>1. UNCHANGED pageVars /\ UNCHANGED <<todo, rows, used, sheets>> /\ pc' = pc
    BY <1>5 DEF pagesVars, layoutVars
  <2>2. Printed' = Printed
    BY <2>1 DEF Printed
  <2> QED BY <2>1, <2>2, SameOnce
<1> QED BY <1>1, <1>2, <1>3, <1>4, <1>5
       DEF PagesNext, FilmPage, DetectWraps, ComposePage

LEMMA InitOnce == PagesInit => EveryPageOnce
BY DEF PagesInit, EveryPageOnce

(* Of a video that is well played every page of the score is printed, once,  *)
(* in its place and with confidence in it: the wraps of the cursor are one   *)
(* for each page of the score, at the first sample of the page or at the     *)
(* blend before it, so that of the frames of a group all show the page but   *)
(* the first one and at most the last two, and the median is the page        *)
(* (cursor.py:60-75, compose.py:258-287, layout.py:224-243).                 *)
THEOREM EveryPageIsPrinted == PagesSpec => []EveryPageOnce
BY InitOnce, StepOnce, AlwaysListed, AlwaysOnSheets, PTL DEF PagesSpec

\* The types, of which the bounds on the video are a part.
Bounds == Count <= MaxFrames /\ pc \in {"film", "compose", "layout", "done", "failed"}

LEMMA AlwaysBounds == PagesSpec => []Bounds
<1>1. PagesInit => Bounds
  <2> SUFFICES ASSUME PagesInit PROVE Bounds
    OBVIOUS
  <2>1. Count = 0 /\ pc = "film"
    BY DEF PagesInit, Count
  <2> QED BY <2>1, LayoutAssumption DEF Bounds
<1>2. Played /\ Bounds /\ [PagesNext]_pagesVars => Bounds'
  <2> SUFFICES ASSUME Played, Bounds, [PagesNext]_pagesVars PROVE Bounds'
    OBVIOUS
  <2>1. CASE FilmPage
    <3>1. PICK f \in Frame : frames' = Append(frames, f)
      BY <2>1 DEF FilmPage
    <3>2. frames \in Seq(Frame) /\ Count < MaxFrames /\ pc' = "film"
      BY <2>1 DEF FilmPage, Played
    <3>3. Count' = Count + 1 /\ Count \in Nat
      BY <3>1, <3>2, AppendProperties DEF Count
    <3> QED BY <3>2, <3>3, LayoutAssumption DEF Bounds
  <2>2. CASE frames' = frames /\ pc' \in {"film", "compose", "layout", "done", "failed"}
    BY <2>2 DEF Bounds, Count
  <2> QED BY <2>1, <2>2 DEF PagesNext, DetectWraps, ComposePage, ToSystems, LayOut, Save,
                            pagesVars, pageVars, Bounds
<1> QED BY <1>1, <1>2, AlwaysListed, PTL DEF PagesSpec

LEMMA TypesOfPages == Played /\ Listed /\ Bounds => PagesTypes
<1> SUFFICES ASSUME Played, Listed, Bounds PROVE PagesTypes
  OBVIOUS
<1>1. ASSUME NEW i \in DOMAIN pages
      PROVE  pages[i].first \in starts /\ pages[i].last \in 1 .. Count
  <2> DEFINE s == pages[i].first
  <2>1. s \in starts /\ pages[i] = Composite(s) /\ starts \subseteq 1 .. Count
    BY DEF Listed
  <2>2. Count \in Nat
    BY InOrderIs
  <2> HIDE DEF s
  <2>3. pages[i].last = End(s) /\ End(s) \in s .. Count /\ s \in 1 .. Count
    BY <2>1, <2>2, CompositeIs, EndIs
  <2> QED BY <2>1, <2>2, <2>3 DEF s
<1> QED BY <1>1 DEF PagesTypes, Played, Listed, Bounds

(* The pages are composed of frames of the song, each from a frame at which  *)
(* a page begins (compose.py:257-284).                                       *)
THEOREM PagesAreTyped == PagesSpec => []PagesTypes
BY AlwaysListed, AlwaysBounds, TypesOfPages, PTL
=============================================================================
