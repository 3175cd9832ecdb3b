--------------------------- MODULE MeasuresProofs ---------------------------
(***************************************************************************)
(* What the report says of the bar numbers is right, for songs of any      *)
(* length, any bars per system and any numbers that could not be read.     *)
(***************************************************************************)
EXTENDS Measures, FiniteSetTheorems, TLAPS

-----------------------------------------------------------------------------
(* Naturals *)

(* A non-empty set of naturals has a least member. *)
LEMMA LeastMember ==
  ASSUME NEW T, T \subseteq Nat, T # {}
  PROVE  \E x \in T : \A y \in T : x <= y
<1>1. IsWellFoundedOn(OpToRel(<, Nat), Nat)
  BY NatLessThanWellFounded
<1>2. PICK x \in T : \A y \in T : ~ (<<y, x>> \in OpToRel(<, Nat))
  BY <1>1, WFMin
<1>3. \A y \in T : ~ (y < x)
  BY <1>2 DEF OpToRel
<1> QED BY <1>3

(* A set of three members has one that is none of two. *)
LEMMA AThird ==
  ASSUME NEW S, IsFiniteSet(S), Cardinality(S) >= 3, NEW a, NEW b
  PROVE  \E c \in S : c # a /\ c # b
<1>1. IsFiniteSet({a}) /\ Cardinality({a}) = 1
  BY FS_Singleton
<1>2. IsFiniteSet({a} \cup {b}) /\ Cardinality({a} \cup {b}) <= 2
  <2>1. CASE b \in {a}
    <3>1. {a} \cup {b} = {a}
      BY <2>1
    <3> QED BY <1>1, <3>1
  <2>2. CASE b \notin {a}
    <3>1. IsFiniteSet({a} \cup {b}) /\ Cardinality({a} \cup {b}) = Cardinality({a}) + 1
      BY <1>1, <2>2, FS_AddElement
    <3> QED BY <1>1, <3>1
  <2> QED BY <2>1, <2>2
<1>3. S \subseteq {a} \cup {b} => Cardinality(S) <= Cardinality({a} \cup {b})
  BY <1>2, FS_Subset
<1>4. Cardinality(S) \in Nat /\ Cardinality({a} \cup {b}) \in Nat
  BY <1>2, FS_CardinalityType
<1> QED BY <1>2, <1>3, <1>4

-----------------------------------------------------------------------------
(* The median *)

(* A finite set of pairs has a member of each rank. *)
LEMMA RankExists ==
  ASSUME NEW S, IsFiniteSet(S), \A p \in S : p[2] \in Nat, NEW r \in 1 .. Cardinality(S)
  PROVE  \E p \in S : Ranked(S, r) = p[2]
<1> DEFINE Below(v) == {q \in S : q[2] < v}
           UpTo(v)  == {q \in S : q[2] <= v}
           Enough   == {v \in {p[2] : p \in S} : r <= Cardinality(UpTo(v))}
           Right(p) == Cardinality(Below(p[2])) < r /\ r <= Cardinality(UpTo(p[2]))
<1>0. Cardinality(S) \in Nat /\ r \in Nat /\ 0 < r /\ r <= Cardinality(S)
  BY FS_CardinalityType
<1>1. ASSUME NEW T \in SUBSET S PROVE IsFiniteSet(T) /\ Cardinality(T) \in Nat
  BY FS_Subset, FS_CardinalityType
<1>2. ASSUME NEW T \in SUBSET S, T # {}
      PROVE  \E p \in T : \A q \in T : q[2] <= p[2]
  <2> DEFINE Counts == {Cardinality(UpTo(p[2])) : p \in T}
             Gaps == {Cardinality(S) - n : n \in Counts}
  <2>1. ASSUME NEW v PROVE Cardinality(UpTo(v)) \in Nat /\ Cardinality(UpTo(v)) <= Cardinality(S)
    <3>1. UpTo(v) \in SUBSET S
      OBVIOUS
    <3> HIDE DEF UpTo
    <3> QED BY <3>1, FS_Subset, FS_CardinalityType
  <2>2. \A n \in Counts : n \in Nat /\ n <= Cardinality(S)
    BY <2>1
  <2>3. Gaps \subseteq Nat /\ Gaps # {}
    <3> HIDE DEF UpTo
    <3> QED BY <1>0, <1>2, <2>2
  <2>4. PICK g \in Gaps : \A h \in Gaps : g <= h
    <3> HIDE DEF Gaps
    <3> QED BY <2>3, LeastMember
  <2>5. PICK p \in T : \A q \in T : Cardinality(UpTo(q[2])) <= Cardinality(UpTo(p[2]))
    <3> HIDE DEF UpTo
    <3>1. PICK p \in T : g = Cardinality(S) - Cardinality(UpTo(p[2]))
      BY <2>4
    <3>2. ASSUME NEW q \in T PROVE Cardinality(UpTo(q[2])) <= Cardinality(UpTo(p[2]))
      <4>1. Cardinality(S) - Cardinality(UpTo(q[2])) \in Gaps
        OBVIOUS
      <4>2. g <= Cardinality(S) - Cardinality(UpTo(q[2]))
        BY <2>4, <4>1
      <4> HIDE DEF Gaps, Counts
      <4> QED BY <1>0, <2>1, <3>1, <4>2
    <3> QED BY <3>2
  <2>6. ASSUME NEW q \in T, ~(q[2] <= p[2]) PROVE FALSE
    <3>1. p[2] \in Nat /\ q[2] \in Nat /\ p[2] < q[2]
      BY <2>6
    <3>2. UpTo(p[2]) \in SUBSET UpTo(q[2]) /\ UpTo(q[2]) \in SUBSET S
      BY <3>1
    <3>3. q \in UpTo(q[2]) /\ q \notin UpTo(p[2])
      BY <3>1
    <3>4. UpTo(p[2]) # UpTo(q[2])
      BY <3>3
    <3> HIDE DEF UpTo
    <3>5. /\ Cardinality(UpTo(p[2])) <= Cardinality(UpTo(q[2]))
          /\ Cardinality(UpTo(p[2])) # Cardinality(UpTo(q[2]))
      BY <1>1, <3>2, <3>4, FS_Subset
    <3>6. Cardinality(UpTo(p[2])) \in Nat /\ Cardinality(UpTo(q[2])) \in Nat
      BY <1>1, <3>2
    <3> QED BY <2>5, <3>5, <3>6
  <2> QED BY <2>5, <2>6
<1>3. PICK p \in S : Right(p)
  <2>1. PICK m \in S : \A q \in S : q[2] <= m[2]
    <3>1. S # {}
      BY <1>0, FS_EmptySet
    <3> QED BY <1>2, <3>1
  <2>2. UpTo(m[2]) = S
    BY <2>1
  <2>3. Enough \subseteq Nat /\ m[2] \in Enough
    BY <1>0, <2>2
  <2>4. PICK v \in Enough : \A w \in Enough : v <= w
    BY <2>3, LeastMember
  <2>5. PICK p \in S : p[2] = v /\ r <= Cardinality(UpTo(v))
    BY <2>4
  <2>6. ASSUME ~(Cardinality(Below(v)) < r) PROVE FALSE
    <3>1. Below(v) \in SUBSET S
      OBVIOUS
    <3>2. Cardinality(Below(v)) \in Nat /\ r <= Cardinality(Below(v))
      BY <1>0, <1>1, <2>6, <3>1
    <3>3. Below(v) # {}
      <4> SUFFICES ASSUME Below(v) = {} PROVE FALSE
        OBVIOUS
      <4>1. Cardinality(Below(v)) = 0
        BY FS_EmptySet
      <4> HIDE DEF Below
      <4> QED BY <1>0, <3>2, <4>1
    <3>4. PICK q \in Below(v) : \A x \in Below(v) : x[2] <= q[2]
      BY <1>2, <3>1, <3>3
    <3>5. UpTo(q[2]) = Below(v)
      BY <2>5, <3>4
    <3>6. q[2] \in Enough /\ q[2] < v /\ q[2] \in Nat /\ v \in Nat
      BY <2>5, <3>2, <3>4, <3>5
    <3> QED BY <2>4, <3>6
  <2> QED BY <2>5, <2>6
<1>4. Ranked(S, r) = (CHOOSE q \in S : Right(q))[2]
  BY DEF Ranked
<1>5. (CHOOSE q \in S : Right(q)) \in S
  <2> HIDE DEF Right
  <2> QED BY <1>3
<1> QED BY <1>4, <1>5

(* The median of a set lies where its members lie. *)
LEMMA MedianIs ==
  ASSUME NEW S, IsFiniteSet(S), S # {}, \A p \in S : p[2] \in Nat
  PROVE  \E p, q \in S : Median2(S) = p[2] + q[2]
<1> DEFINE c == Cardinality(S)
<1>1. c \in Nat /\ c # 0
  BY FS_CardinalityType, FS_EmptySet
<1>2. (c + 1) \div 2 \in 1 .. c /\ c \div 2 + 1 \in 1 .. c
  BY <1>1
<1> HIDE DEF c
<1>3. /\ \E p \in S : Ranked(S, (c + 1) \div 2) = p[2]
      /\ \E q \in S : Ranked(S, c \div 2 + 1) = q[2]
  BY <1>2, RankExists DEF c
<1> QED BY <1>3 DEF Median2, c

-----------------------------------------------------------------------------
(* Systems and their readings *)

Type == /\ song \in Songs /\ N \in 1 .. MaxSystems
        /\ numbers \in [1 .. N -> Nat \cup {Unread}] /\ tolerance \in Nat

LEMMA FollowingIs ==
  ASSUME N \in Nat, NEW i \in 0 .. N
  PROVE  /\ Following(i) \in Known \cup {N + 1} /\ i < Following(i)
         /\ \A m \in Known : i < m => Following(i) <= m
<1> DEFINE Later == {j \in Known \cup {N + 1} : i < j}
<1>1. Later \subseteq Nat /\ N + 1 \in Later
  BY DEF Known
<1>2. PICK j \in Later : \A m \in Later : j <= m
  BY <1>1, LeastMember
<1>3. j \in Known \cup {N + 1} /\ i < j /\ \A m \in Known \cup {N + 1} : i < m => j <= m
  BY <1>2
<1>4. /\ Following(i) \in Known \cup {N + 1} /\ i < Following(i)
      /\ \A m \in Known \cup {N + 1} : i < m => Following(i) <= m
  BY <1>3 DEF Following
<1> QED BY <1>4

LEMMA KnownAre ==
  ASSUME Type
  PROVE  /\ N \in Nat /\ N # 0 /\ Known \subseteq 1 .. N /\ \A i \in Known : numbers[i] \in Nat
         /\ MaxSystems \in Nat /\ Unit \in Nat \ {0} /\ N <= MaxSystems
         /\ IsFiniteSet(Known) /\ Cardinality(Known) \in Nat
<1>1. N \in Nat /\ N # 0 /\ Known \subseteq 1 .. N /\ \A i \in Known : numbers[i] \in Nat
  BY MeasuresAssumption DEF Type, Known
<1>2. IsFiniteSet(1 .. N)
  BY <1>1, FS_Interval
<1>3. IsFiniteSet(Known) /\ Cardinality(Known) \in Nat
  BY <1>1, <1>2, FS_Subset, FS_CardinalityType
<1> QED BY <1>1, <1>3, MeasuresAssumption DEF Type

(* A unit is shared out evenly among the systems in between. *)
LEMMA UnitShared ==
  ASSUME NEW d \in 1 .. MaxSystems
  PROVE  Unit \div d \in Nat /\ (Unit \div d) * d = Unit
<1>1. Unit \in Nat /\ d \in Nat \ {0} /\ Unit % d = 0
  BY MeasuresAssumption
<1>2. Unit = (d * (Unit \div d)) + (Unit % d) /\ Unit \div d \in Nat
  BY <1>1, Z3
<1> QED BY <1>1, <1>2

LEMMA PerSystemIs ==
  ASSUME Type
  PROVE  IsFiniteSet(PerSystem) /\ \A p \in PerSystem : p[2] \in Nat
<1>1. ASSUME NEW p \in PerSystem
      PROVE  p[1] \in 1 .. N /\ p[2] \in Nat
  <2>1. PICK i \in Known : /\ Following(i) <= N /\ numbers[Following(i)] > numbers[i]
                           /\ p = <<i, (Unit \div (Following(i) - i)) * (numbers[Following(i)] - numbers[i])>>
    BY DEF PerSystem
  <2>2. Following(i) \in Known /\ i < Following(i)
    BY <2>1, KnownAre, FollowingIs
  <2>3. Following(i) - i \in 1 .. MaxSystems
    BY <2>2, KnownAre
  <2>4. Unit \div (Following(i) - i) \in Nat
    BY <2>3, UnitShared
  <2>5. numbers[Following(i)] - numbers[i] \in Nat
    BY <2>1, <2>2, KnownAre
  <2>6. (Unit \div (Following(i) - i)) * (numbers[Following(i)] - numbers[i]) \in Nat
    BY <2>4, <2>5
  <2> QED BY <2>1, <2>6, KnownAre
<1> DEFINE f == [p \in PerSystem |-> p[1]]
<1>2. f \in Injection(PerSystem, 1 .. N)
  BY <1>1 DEF Injection, IsInjective, PerSystem
<1>3. IsFiniteSet(1 .. N)
  BY KnownAre, FS_Interval
<1>4. IsFiniteSet(PerSystem)
  BY <1>2, <1>3, FS_Injection
<1> QED BY <1>1, <1>4

LEMMA TypicalIs == Type => Typical \in Nat
<1> SUFFICES ASSUME Type PROVE Typical \in Nat
  OBVIOUS
<1>1. PerSystem # {} => Median2(PerSystem) \in Nat
  BY PerSystemIs, MedianIs
<1> QED BY <1>1, MeasuresAssumption DEF Typical

(* What is allowed for, and what a number that stays the same comes to. *)
LEMMA FitsIs ==
  ASSUME Type, NEW i \in Known, NEW j \in Known, i < j
  PROVE  /\ Growth(i, j) \in Int /\ Allowed(i, j) \in Nat
         /\ 0 <= Growth(i, j) <=> numbers[i] <= numbers[j]
         /\ numbers[i] = numbers[j] => Fits(i, j)
<1>1. /\ numbers[i] \in Nat /\ numbers[j] \in Nat /\ j - i \in Nat /\ tolerance \in Nat
      /\ Unit \in Nat \ {0}
  BY KnownAre DEF Type
<1>2. Allowed(i, j) \in Nat
  BY <1>1 DEF Allowed
<1> DEFINE g == numbers[j] - numbers[i]
<1>3. g \in Int /\ Growth(i, j) = 2 * Unit * g
  BY <1>1 DEF Growth
<1> HIDE DEF g
<1>4. /\ Growth(i, j) \in Int
      /\ 0 <= Growth(i, j) <=> 0 <= g
      /\ g = 0 => Growth(i, j) = 0
  BY <1>1, <1>3, Z3
<1>5. 0 <= Growth(i, j) <=> numbers[i] <= numbers[j]
  BY <1>1, <1>4 DEF g
<1>6. numbers[i] = numbers[j] => Fits(i, j)
  BY <1>1, <1>2, <1>4 DEF g, Fits
<1> QED BY <1>2, <1>4, <1>5, <1>6

(* The comparison starts at a reading that was made. *)
Good(i) == i \in Known /\ Following(i) <= N /\ Fits(i, Following(i))

LEMMA StartIs ==
  ASSUME Type, Known # {}
  PROVE  /\ Start \in Known
         /\ \/ Good(Start) /\ \A j \in Known : Good(j) => Start <= j
            \/ (\A j \in Known : ~Good(j)) /\ \A j \in Known : Start <= j
<1> DEFINE good == {i \in Known : Following(i) <= N /\ Fits(i, Following(i))}
           from == IF good = {} THEN Known ELSE good
<1>1. from \subseteq Known /\ from # {} /\ Known \subseteq Nat
  BY KnownAre
<1>2. \E i \in from : \A j \in from : i <= j
  BY <1>1, LeastMember
<1>3. Start = CHOOSE i \in from : \A j \in from : i <= j
  BY DEF Start
<1>4. Start \in from /\ \A j \in from : Start <= j
  <2> HIDE DEF from
  <2> QED BY <1>2, <1>3
<1> QED BY <1>1, <1>4 DEF Good

-----------------------------------------------------------------------------
(* What is true of the song *)

\* What was read is right, but for the misreading.
ReadRight == \A i \in Known \ {song.misread} : numbers[i] = Truth(song, i)

\* No bars are missing between systems i and j.
Joined(i, j) == song.lost = 0 \/ j <= song.hole \/ song.hole < i

LEMMA SongsAre ==
  ASSUME song \in Songs
  PROVE  /\ song.step \in Nat /\ song.lost \in Nat /\ song.hole \in Nat
         /\ song.misread \in Nat /\ (song.misread # 0 => song.lost = 0)
         /\ (song.misread # 0 => song.hole = MaxSystems)
<1>1. Steps \subseteq Nat /\ Losses \subseteq Nat /\ MaxSystems \in Nat
  BY MeasuresAssumption
<1>2. CASE song \in [step : Steps, hole : 1 .. MaxSystems, lost : Losses, misread : {0}]
  <2>1. song.step \in Steps /\ song.hole \in 1 .. MaxSystems /\ song.lost \in Losses /\ song.misread = 0
    BY <1>2
  <2>2. song.step \in Nat
    BY <1>1, <2>1
  <2>3. song.hole \in Nat
    BY <1>1, <2>1
  <2>4. song.lost \in Nat
    BY <1>1, <2>1
  <2> QED BY <2>1, <2>2, <2>3, <2>4
<1>3. CASE song \in [step : Steps, hole : {MaxSystems}, lost : {0}, misread : 1 .. MaxSystems]
  <2>1. song.step \in Steps /\ song.hole = MaxSystems /\ song.lost = 0 /\ song.misread \in 1 .. MaxSystems
    BY <1>3
  <2>2. song.step \in Nat
    BY <1>1, <2>1
  <2>3. song.misread \in Nat
    BY <1>1, <2>1
  <2> QED BY <1>1, <2>1, <2>2, <2>3
<1> QED BY <1>2, <1>3 DEF Songs

LEMMA SongIs ==
  ASSUME Type
  PROVE  /\ song.step \in Nat /\ song.lost \in Nat /\ song.hole \in Nat
         /\ song.misread \in Nat /\ (song.misread # 0 => song.lost = 0)
         /\ (song.misread # 0 => song.hole = MaxSystems)
BY SongsAre DEF Type

\* How the numbers grow where no bars are missing, and where some are.
LEMMA GrowthIs ==
  ASSUME Type, ReadRight, NEW i \in Known \ {song.misread}, NEW j \in Known \ {song.misread}, i < j
  PROVE  /\ Joined(i, j) => numbers[j] - numbers[i] = song.step * (j - i)
         /\ numbers[j] >= numbers[i]
<1>1. /\ i \in Nat /\ j \in Nat /\ j - i \in Nat
      /\ numbers[i] = 1 + song.step * (i - 1) + (IF i > song.hole THEN song.lost ELSE 0)
      /\ numbers[j] = 1 + song.step * (j - 1) + (IF j > song.hole THEN song.lost ELSE 0)
  BY KnownAre DEF ReadRight, Truth
<1>2. song.step \in Nat /\ song.lost \in Nat /\ song.hole \in Nat
  BY SongIs
<1>3. /\ song.step * (j - 1) - song.step * (i - 1) = song.step * (j - i)
      /\ song.step * (j - 1) \in Int /\ song.step * (i - 1) \in Int
      /\ song.step * (j - i) \in Nat
  BY <1>1, <1>2, Z3
<1>4. numbers[j] - numbers[i] >= song.step * (j - i)
  BY <1>1, <1>2, <1>3
<1>5. Joined(i, j) => numbers[j] - numbers[i] = song.step * (j - i)
  BY <1>1, <1>2, <1>3 DEF Joined
<1> QED BY <1>1, <1>2, <1>3, <1>4, <1>5, KnownAre

\* They fit when as much is allowed for as they grow by.
LEMMA JoinedFits ==
  ASSUME Type, ReadRight, NEW i \in Known \ {song.misread}, NEW j \in Known \ {song.misread}, i < j,
         Joined(i, j), 2 * Unit * song.step <= tolerance \/ song.step = 0
  PROVE  Fits(i, j)
<1>0. numbers[j] - numbers[i] = song.step * (j - i)
  BY GrowthIs
<1>1. /\ song.step \in Nat /\ Unit \in Nat /\ tolerance \in Nat /\ j - i \in Nat
      /\ numbers[j] - numbers[i] = song.step * (j - i)
  <2>1. i \in 1 .. N /\ j \in 1 .. N /\ N \in Nat /\ Unit \in Nat
    BY KnownAre
  <2>2. tolerance \in Nat
    BY DEF Type
  <2> QED BY <1>0, <2>1, <2>2, SongIs
<1>2. Growth(i, j) = 2 * Unit * (song.step * (j - i))
  BY <1>1 DEF Growth
<1>3. 2 * Unit * (song.step * (j - i)) = (2 * Unit * song.step) * (j - i)
  BY <1>1, Z3
<1>4. 2 * Unit * song.step \in Nat /\ 2 * Unit * song.step <= tolerance
  BY <1>1
<1>5. 0 <= Growth(i, j) /\ Growth(i, j) <= tolerance * (j - i)
  <2> DEFINE u == 2 * Unit * song.step
  <2>1. Growth(i, j) = u * (j - i) /\ u \in Nat /\ u <= tolerance
    BY <1>2, <1>3, <1>4
  <2> HIDE DEF u
  <2> QED BY <1>1, <2>1, Z3
<1> QED BY <1>5 DEF Fits, Allowed

\* When the usual increment was measured right, that much is allowed for.
LEMMA MeasuredAllows ==
  ASSUME Type, Measured
  PROVE  2 * Unit * song.step <= tolerance
<1> DEFINE m == Larger(2 * song.step, song.step + 4)
<1>1. /\ song.step \in Nat /\ Unit \in Nat /\ m \in Nat /\ song.step <= m
      /\ tolerance = 2 * Unit * m
  BY SongIs, KnownAre DEF Measured, Larger
<1> HIDE DEF m
<1> QED BY <1>1, Z3

\* What is measured of a song that is all there.
LEMMA CalibratedAllows ==
  ASSUME Type, ReadRight, song.lost = 0, song.misread = 0, song.step # 0,
         NEW i \in Known, NEW j \in Known, i < j
  PROVE  2 * Unit * song.step <= 2 * Typical
<1>1. /\ song.step \in Nat \ {0} /\ Unit \in Nat \ {0} /\ N \in Nat /\ Known \subseteq 1 .. N
      /\ N <= MaxSystems /\ MaxSystems \in Nat
  BY SongIs, KnownAre
<1>2. ASSUME NEW k \in Known, Following(k) <= N
      PROVE  /\ Following(k) \in Known /\ k < Following(k)
             /\ numbers[Following(k)] - numbers[k] = song.step * (Following(k) - k)
  <2>1. Following(k) \in Known /\ k < Following(k)
    <3>1. k \in 0 .. N /\ N + 1 > N
      BY <1>1
    <3> QED BY <1>1, <1>2, <3>1, FollowingIs
  <2>2. k \in Known \ {song.misread} /\ Following(k) \in Known \ {song.misread}
    BY <1>1, <2>1
  <2>3. Joined(k, Following(k))
    BY DEF Joined
  <2> QED BY <2>1, <2>2, <2>3, GrowthIs
<1>3. ASSUME NEW k \in Known, Following(k) <= N
      PROVE  (Unit \div (Following(k) - k)) * (numbers[Following(k)] - numbers[k])
               = Unit * song.step
  <2> DEFINE d == Following(k) - k
             u == Unit \div d
  <2>1. d \in 1 .. MaxSystems /\ numbers[Following(k)] - numbers[k] = song.step * d
    <3>1. /\ Following(k) \in 1 .. N /\ k \in 1 .. N /\ k < Following(k)
          /\ numbers[Following(k)] - numbers[k] = song.step * d
      BY <1>1, <1>2, <1>3
    <3> QED BY <1>1, <3>1
  <2>2. u \in Nat /\ u * d = Unit
    BY <2>1, UnitShared
  <2> HIDE DEF d, u
  <2>3. d \in Nat /\ u * (song.step * d) = (u * d) * song.step
    BY <1>1, <2>1, <2>2, Z3
  <2> QED BY <2>1, <2>2, <2>3 DEF d, u
<1>4. \A p \in PerSystem : p[2] = Unit * song.step
  BY <1>3 DEF PerSystem
<1>5. PerSystem # {}
  <2>0. i \in 0 .. N /\ j \in 1 .. N
    BY <1>1
  <2>1. Following(i) <= N /\ Following(i) \in Known /\ i < Following(i)
    <3>1. Following(i) \in Known \cup {N + 1} /\ i < Following(i) /\ Following(i) <= j
      BY <1>1, <2>0, FollowingIs
    <3>2. Following(i) # N + 1
      BY <1>1, <2>0, <3>1
    <3>3. Following(i) \in Known
      BY <3>1, <3>2
    <3>4. Following(i) \in 1 .. N
      BY <1>1, <3>3
    <3>5. Following(i) <= N
      BY <1>1, <3>4
    <3> QED BY <3>1, <3>3, <3>5
  <2>2. numbers[Following(i)] > numbers[i]
    <3> DEFINE d == Following(i) - i
    <3>1. d \in Nat \ {0} /\ numbers[Following(i)] - numbers[i] = song.step * d
      <4>0. Following(i) \in 1 .. N
        BY <1>1, <2>1
      <4>1. Following(i) \in Nat /\ i \in Nat
        BY <1>1, <2>0, <4>0
      <4>2. numbers[Following(i)] - numbers[i] = song.step * d
        BY <1>2, <2>1
      <4> QED BY <2>1, <4>1, <4>2
    <3>2. numbers[Following(i)] \in Nat /\ numbers[i] \in Nat
      BY <2>1, KnownAre
    <3> HIDE DEF d
    <3>3. song.step * d \in Nat \ {0}
      BY <1>1, <3>1, Z3
    <3> QED BY <3>1, <3>2, <3>3
  <2> QED BY <2>1, <2>2 DEF PerSystem
<1>6. PICK p, q \in PerSystem : Median2(PerSystem) = p[2] + q[2]
  BY <1>5, PerSystemIs, MedianIs
<1> QED BY <1>1, <1>4, <1>5, <1>6 DEF Typical

-----------------------------------------------------------------------------
(* The invariant *)

Issue == [system : Nat, kind : {"gap", "backwards"}, from : Nat, to : Nat]

\* Where the scan is, and what it has reported so far.
Scan == /\ pc \in {"calibrate", "anchor", "scan", "done"}
        /\ pc = "scan" => /\ accepted \in Known /\ pos \in Known \cup {N + 1}
                          /\ accepted < pos
        /\ issues \in Seq(Issue)
        /\ pc \in {"calibrate", "anchor"} => issues = <<>>
        /\ pc = "scan" => \A k \in DOMAIN issues : issues[k].system < pos

\* A song that is all there: all its numbers fit, and nothing is reported.
AllThere == song.lost = 0 /\ song.misread = 0
AllFit == \A i, j \in Known : i < j => Fits(i, j)
Healthy == AllThere => issues = <<>> /\ (pc \in {"anchor", "scan"} => AllFit)

\* One reading is doubtful, and the one before it is known.
Doubtful ==
  /\ Measured /\ Cardinality(Known) >= 3
  /\ song.misread \in Known /\ Following(song.misread) <= N
  /\ \A i \in Known : Following(i) = song.misread => ~Fits(i, song.misread)

\* The doubtful reading is skipped, unless the comparison starts with it.
Skipped == Doubtful /\ pc \in {"scan", "done"} =>
  /\ issues = <<>>
  /\ pc = "scan" =>
       \/ accepted # song.misread /\ pos = Following(accepted)
       \/ accepted = song.misread /\ pos = Following(accepted) /\ Fits(accepted, pos)
       \/ Following(accepted) = song.misread /\ pos = Following(song.misread)

\* The loss after system i is one that is to be reported.
Lossy(i) ==
  LET j == Following(i)
  IN  /\ Measured
      /\ 2 * Cardinality(Known) >= N
      /\ \E h \in Known : h < i
      /\ i <= song.hole /\ song.hole < j /\ j <= N
      /\ ~Fits(i, j)
      /\ Following(j) <= N => ~Fits(i, Following(j))
      /\ Growth(i, j) <= 20 * Allowed(i, j)

Loss(i) == [system |-> Following(i), kind |-> "gap",
            from |-> numbers[i], to |-> numbers[Following(i)]]

\* It is reported when the scan comes to it, and nothing else is.
Told == \A i \in Known : Lossy(i) =>
  /\ pc = "scan" =>
       /\ pos = Following(accepted)
       /\ \/ accepted <= i /\ issues = <<>>
          \/ Following(i) <= accepted /\ issues = <<Loss(i)>>
  /\ pc = "done" => issues = <<Loss(i)>>

Inv == Type /\ ReadRight /\ Scan /\ IssuesSound /\ Healthy /\ Skipped /\ Told

\* What is read of the numbers stays while they do.
LEMMA SameNumbers ==
  ASSUME numbers' = numbers
  PROVE  N' = N /\ Known' = Known /\ \A i : Following(i)' = Following(i)
BY DEF N, Known, Following

LEMMA SameFits ==
  ASSUME UNCHANGED <<numbers, tolerance>>
  PROVE  \A i, j : /\ Fits(i, j)' = Fits(i, j) /\ Growth(i, j)' = Growth(i, j)
                   /\ Allowed(i, j)' = Allowed(i, j)
BY DEF Fits, Growth, Allowed

LEMMA SameSong ==
  ASSUME UNCHANGED <<numbers, tolerance, song>>
  PROVE  /\ Type => Type'
         /\ ReadRight => ReadRight'
         /\ Doubtful' = Doubtful
         /\ AllThere' = AllThere /\ AllFit' = AllFit
         /\ \A i : Lossy(i)' = Lossy(i) /\ Loss(i)' = Loss(i)
<1>1. Type => Type'
  BY DEF Type, N
<1>2. ReadRight => ReadRight'
  BY SameNumbers DEF ReadRight, Truth
<1>3. Doubtful' = Doubtful
  BY SameNumbers, SameFits DEF Doubtful, Measured
<1>4. \A i : Lossy(i)' = Lossy(i) /\ Loss(i)' = Loss(i)
  BY SameNumbers, SameFits DEF Lossy, Loss, Measured
<1>5. AllThere' = AllThere /\ AllFit' = AllFit
  BY SameNumbers, SameFits DEF AllThere, AllFit
<1> QED BY <1>1, <1>2, <1>3, <1>4, <1>5

LEMMA InitInv == Init => Inv
<1> SUFFICES ASSUME Init PROVE Inv
  OBVIOUS
<1>0. PICK n \in 1 .. MaxSystems : \E read \in SUBSET (1 .. n) : \E wrong \in Misreads :
        numbers = [i \in 1 .. n |->
                     IF i = song.misread THEN wrong
                     ELSE IF i \in read THEN Truth(song, i) ELSE Unread]
  BY DEF Init
<1>1. PICK read \in SUBSET (1 .. n) : \E wrong \in Misreads :
        numbers = [i \in 1 .. n |->
                     IF i = song.misread THEN wrong
                     ELSE IF i \in read THEN Truth(song, i) ELSE Unread]
  BY <1>0
<1>9. PICK wrong \in Misreads :
        numbers = [i \in 1 .. n |->
                     IF i = song.misread THEN wrong
                     ELSE IF i \in read THEN Truth(song, i) ELSE Unread]
  BY <1>1
<1>2. song \in Songs /\ tolerance = 0 /\ issues = <<>> /\ pc = "calibrate"
  BY DEF Init
<1>3. \A i \in 1 .. n : Truth(song, i) \in Nat
  <2>1. song.step \in Nat /\ song.lost \in Nat /\ song.hole \in Nat
    BY <1>2, SongsAre
  <2>2. \A i \in 1 .. n : song.step * (i - 1) \in Nat
    BY <2>1
  <2> QED BY <2>1, <2>2 DEF Truth
<1>4. N = n /\ MaxSystems \in Nat /\ n \in Nat
  BY <1>9, MeasuresAssumption DEF N
<1>5. Type
  BY <1>9, <1>2, <1>3, <1>4, MeasuresAssumption DEF Type, Unread
<1>6. ReadRight
  BY <1>9, <1>4 DEF ReadRight, Known
<1> QED BY <1>2, <1>5, <1>6 DEF Inv, Scan, IssuesSound, Healthy, AllThere, Skipped, Told

-----------------------------------------------------------------------------
(* Which readings fit *)

LEMMA FollowingAre ==
  ASSUME Type, NEW i \in Known
  PROVE  /\ i \in Nat /\ i <= N /\ Following(i) \in Nat /\ i < Following(i)
         /\ Following(i) \in Known \cup {N + 1}
         /\ Following(i) <= N <=> Following(i) \in Known
         /\ \A m \in Known : i < m => Following(i) <= m /\ Following(i) \in Known
<1>1. N \in Nat /\ Known \subseteq 1 .. N /\ i \in 1 .. N /\ i \in 0 .. N
  BY KnownAre
<1>2. /\ Following(i) \in Known \cup {N + 1} /\ i < Following(i)
      /\ \A m \in Known : i < m => Following(i) <= m
  BY <1>1, FollowingIs
<1>3. Following(i) \in Known \/ Following(i) = N + 1
  BY <1>2
<1>4. Following(i) \in Nat /\ (Following(i) <= N <=> Following(i) \in Known)
  <2>1. CASE Following(i) \in Known
    <3>1. Following(i) \in 1 .. N
      BY <1>1, <2>1
    <3> QED BY <1>1, <2>1, <3>1
  <2>2. CASE Following(i) = N + 1
    <3>1. N + 1 \notin 1 .. N /\ ~(N + 1 <= N) /\ N + 1 \in Nat
      BY <1>1
    <3> QED BY <1>1, <2>2, <3>1
  <2> QED BY <1>3, <2>1, <2>2
<1>5. \A m \in Known : i < m => Following(i) <= m /\ Following(i) \in Known
  BY <1>1, <1>2, <1>3, <1>4
<1>6. i \in Nat /\ i <= N
  BY <1>1
<1> QED BY <1>2, <1>4, <1>5, <1>6

\* All the numbers of a song that is all there fit.
Generous == 2 * Unit * song.step <= tolerance \/ song.step = 0

LEMMA HealthyFits == Type /\ ReadRight /\ AllThere /\ Generous => AllFit
<1> SUFFICES ASSUME Type, ReadRight, AllThere, Generous,
                    NEW i \in Known, NEW j \in Known, i < j
             PROVE  Fits(i, j)
  BY DEF AllFit
<1> USE DEF AllThere, Generous
<1>1. i # 0 /\ j # 0
  BY KnownAre
<1>2. i \in Known \ {song.misread} /\ j \in Known \ {song.misread}
  BY <1>1
<1>3. Joined(i, j)
  BY DEF Joined
<1> QED BY <1>2, <1>3, JoinedFits

\* But for the doubtful reading, all fit.
LEMMA DoubtfulFits ==
  ASSUME Type, ReadRight, Doubtful,
         NEW i \in Known \ {song.misread}, NEW j \in Known \ {song.misread}, i < j
  PROVE  Fits(i, j)
<1>1. song.misread # 0
  BY KnownAre DEF Doubtful
<1>2. Joined(i, j)
  BY <1>1, SongIs DEF Joined
<1> QED BY <1>2, JoinedFits, MeasuredAllows DEF Doubtful

\* On either side of the loss all fit, and across it the numbers grow.
LEMMA LossyFits ==
  ASSUME Type, ReadRight, NEW i \in Known, Lossy(i)
  PROVE  /\ Following(i) \in Known
         /\ \A a, b \in Known : a < b /\ (b <= i \/ Following(i) <= a) => Fits(a, b)
         /\ numbers[i] <= numbers[Following(i)]
<1>1. /\ N \in Nat /\ N <= MaxSystems /\ MaxSystems \in Nat /\ song.hole \in Nat
      /\ Known \subseteq 1 .. N
  BY KnownAre, SongIs
<1>2. /\ Following(i) \in Known /\ Following(i) \in Nat /\ i \in Nat /\ i < Following(i)
      /\ i <= song.hole /\ song.hole < Following(i) /\ Following(i) <= N /\ Measured
  BY FollowingAre DEF Lossy
<1>3. song.misread = 0
  BY <1>1, <1>2, SongIs
<1>4. \A a \in Known : a \in Nat /\ a \in Known \ {song.misread}
  BY <1>1, <1>3
<1>5. ASSUME NEW a \in Known, NEW b \in Known, a < b, b <= i \/ Following(i) <= a
      PROVE  Fits(a, b)
  <2>1. Joined(a, b)
    BY <1>1, <1>2, <1>4, <1>5 DEF Joined
  <2> QED BY <1>2, <1>4, <1>5, <2>1, JoinedFits, MeasuredAllows
<1>6. numbers[Following(i)] >= numbers[i]
  BY <1>2, <1>4, GrowthIs
<1>7. numbers[i] \in Nat /\ numbers[Following(i)] \in Nat
  BY <1>2, KnownAre
<1> QED BY <1>2, <1>5, <1>6, <1>7

-----------------------------------------------------------------------------
(* The steps *)

LEMMA CalibrateInv ==
  ASSUME Inv, Calibrate
  PROVE  Inv'
<1>0. /\ Type /\ ReadRight /\ UNCHANGED <<song, numbers, issues>> /\ issues = <<>>
      /\ pc' = "anchor" /\ tolerance' = Larger(2 * Typical, Typical + 8 * Unit)
  BY DEF Inv, Calibrate, Scan
<1>1. /\ tolerance' \in Nat /\ 2 * Typical <= tolerance'
  BY <1>0, TypicalIs, KnownAre DEF Larger
<1>2. N' = N /\ Known' = Known
  BY <1>0, SameNumbers
<1>3. Type'
  BY <1>0, <1>1, <1>2 DEF Type
<1>4. ReadRight'
  BY <1>0, <1>2 DEF ReadRight, Truth
<1>5. ASSUME AllThere
      PROVE  AllFit'
  <2>1. CASE song.step = 0
    <3>1. AllThere' /\ Generous'
      BY <1>0, <1>5, <2>1 DEF AllThere, Generous
    <3> QED BY <1>3, <1>4, <3>1, HealthyFits, PTL
  <2>2. CASE \E i, j \in Known : i < j /\ song.step # 0
    <3>1. 2 * Unit * song.step <= 2 * Typical
      BY <1>0, <1>5, <2>2, CalibratedAllows DEF AllThere
    <3>2. 2 * Unit * song.step \in Int
      BY <1>0, SongIs, KnownAre
    <3>3. 2 * Unit * song.step <= tolerance'
      BY <1>0, <1>1, <3>1, <3>2, TypicalIs
    <3>4. AllThere' /\ Generous'
      BY <1>0, <1>5, <3>3 DEF AllThere, Generous
    <3> QED BY <1>3, <1>4, <3>4, HealthyFits, PTL
  <2>3. CASE ~\E i, j \in Known : i < j
    BY <1>2, <2>3 DEF AllFit
  <2> QED BY <2>1, <2>2, <2>3
<1>6. Scan' /\ IssuesSound' /\ Skipped' /\ Told'
  BY <1>0 DEF Scan, IssuesSound, Skipped, Told
<1>7. Healthy'
  BY <1>0, <1>5 DEF Healthy, AllThere
<1> QED BY <1>3, <1>4, <1>6, <1>7 DEF Inv

LEMMA AnchorInv ==
  ASSUME Inv, Anchor
  PROVE  Inv'
<1>0. /\ Type /\ ReadRight /\ UNCHANGED <<song, numbers, tolerance, issues>> /\ issues = <<>>
      /\ Known # {} /\ accepted' = Start /\ pos' = Following(Start) /\ pc' = "scan"
      /\ pc = "anchor" /\ Healthy
  BY DEF Inv, Anchor, Scan
<1> DEFINE x == song.misread
<1>1. /\ Type' /\ ReadRight' /\ N' = N /\ Known' = Known /\ Doubtful' = Doubtful
      /\ AllThere' = AllThere /\ AllFit' = AllFit
      /\ \A i : Following(i)' = Following(i) /\ Lossy(i)' = Lossy(i)
      /\ \A i, j : Fits(i, j)' = Fits(i, j)
  BY <1>0, SameNumbers, SameFits, SameSong
<1>2. /\ Start \in Known
      /\ \/ Good(Start) /\ \A j \in Known : Good(j) => Start <= j
         \/ (\A j \in Known : ~Good(j)) /\ \A j \in Known : Start <= j
  BY <1>0, StartIs
<1>3. Following(Start) \in Known \cup {N + 1} /\ Start < Following(Start)
  BY <1>0, <1>2, FollowingAre
<1>4. Scan'
  BY <1>0, <1>1, <1>2, <1>3 DEF Scan
<1>5. IssuesSound' /\ Healthy'
  BY <1>0, <1>1 DEF IssuesSound, Healthy
<1>6. ASSUME Doubtful, Start = x PROVE Fits(x, Following(x))
  <2> SUFFICES ASSUME ~Good(Start) PROVE FALSE
    BY <1>6 DEF Good
  <2> DEFINE y == Following(x)
  <2>1. x \in Known /\ y <= N /\ Cardinality(Known) >= 3
    BY <1>6 DEF Doubtful
  <2>2. y \in Known /\ x < y /\ x \in Nat /\ y \in Nat
    BY <1>0, <2>1, FollowingAre
  <2>3. PICK z \in Known : z # x /\ z # y
    <3>1. IsFiniteSet(Known) /\ Cardinality(Known) >= 3
      BY <1>0, <2>1, KnownAre
    <3> HIDE DEF x, y
    <3> QED BY <3>1, AThird
  <2>4. \A j \in Known : ~Good(j) /\ x <= j
    BY <1>2, <1>6
  <2>5. z \in Nat /\ x < z /\ y < z
    <3>1. z \in Nat /\ x <= z
      BY <1>0, <2>4, FollowingAre
    <3>2. x < z
      BY <2>2, <2>3, <3>1
    <3>3. y <= z
      BY <1>0, <2>1, <2>3, <3>2, FollowingAre
    <3> QED BY <2>2, <2>3, <3>1, <3>2, <3>3
  <2>6. Following(y) \in Known /\ y < Following(y) /\ Following(y) <= N /\ Following(y) \in Nat
    BY <1>0, <2>2, <2>3, <2>5, FollowingAre
  <2>7. y \in Known \ {x} /\ Following(y) \in Known \ {x}
    BY <2>2, <2>6
  <2> HIDE DEF x, y
  <2>8. Fits(y, Following(y))
    BY <1>0, <1>6, <2>6, <2>7, DoubtfulFits DEF x
  <2> QED BY <2>4, <2>6, <2>7, <2>8 DEF Good
<1>7. Skipped'
  BY <1>0, <1>1, <1>6 DEF Skipped
<1>8. ASSUME NEW i \in Known, Lossy(i) PROVE Start <= i
  <2>1. PICK h \in Known : h < i
    BY <1>8 DEF Lossy
  <2>2. Known \subseteq Nat
    BY <1>0, FollowingAre
  <2>3. PICK f \in Known : \A k \in Known : f <= k
    BY <1>0, <2>2, LeastMember
  <2>4. f \in Nat /\ h \in Nat /\ i \in Nat /\ f < i /\ Start \in Nat
    BY <1>2, <2>1, <2>2, <2>3
  <2>5. Following(f) \in Known /\ Following(f) <= i /\ f < Following(f) /\ Following(f) <= N
    BY <1>0, <2>3, <2>4, FollowingAre
  <2>6. Fits(f, Following(f))
    BY <1>0, <1>8, <2>5, LossyFits
  <2>7. Good(f)
    BY <2>5, <2>6 DEF Good
  <2>8. Start <= f
    BY <1>2, <2>7
  <2> QED BY <2>4, <2>8
<1>9. Told'
  BY <1>0, <1>1, <1>8 DEF Told
<1> QED BY <1>1, <1>4, <1>5, <1>7, <1>9 DEF Inv

LEMMA IssueIs ==
  ASSUME issues \in Seq(Issue), NEW k \in DOMAIN issues
  PROVE  /\ issues[k].system \in Nat /\ issues[k].from \in Nat /\ issues[k].to \in Nat
         /\ issues[k] \in Issue /\ Len(issues) \in Nat /\ DOMAIN issues = 1 .. Len(issues)
<1>1. issues[k] \in Issue
  OBVIOUS
<1> QED BY <1>1 DEF Issue

\* What a step of the scan leaves alone, and where it is taken.
LEMMA ScanStep ==
  ASSUME Inv, Scanning, UNCHANGED <<song, numbers, tolerance>>
  PROVE  /\ Type /\ ReadRight /\ Type' /\ ReadRight' /\ N' = N /\ Known' = Known
         /\ Doubtful' = Doubtful /\ AllThere' = AllThere /\ AllFit' = AllFit
         /\ \A i : Following(i)' = Following(i) /\ Lossy(i)' = Lossy(i) /\ Loss(i)' = Loss(i)
         /\ \A i, j : Fits(i, j)' = Fits(i, j)
         /\ pc = "scan" /\ accepted \in Known /\ pos \in Known /\ accepted < pos
         /\ accepted \in Nat /\ pos \in Nat /\ pos < Following(pos)
         /\ Following(pos) \in Known \cup {N + 1}
         /\ accepted < Following(pos)
         /\ \A k \in DOMAIN issues : issues[k].system < pos /\ issues[k].system < Following(pos)
<1>1. /\ Type /\ ReadRight /\ pc = "scan" /\ accepted \in Known /\ pos \in Known \cup {N + 1}
      /\ accepted < pos /\ pos <= N
  BY DEF Inv, Scan, Scanning
<1>2. N \in Nat
  BY <1>1, KnownAre
<1>3. pos \in Known
  BY <1>1, <1>2
<1>4. /\ accepted \in Nat /\ pos \in Nat /\ pos < Following(pos)
      /\ Following(pos) \in Known \cup {N + 1} /\ Following(pos) \in Nat
  BY <1>1, <1>3, FollowingAre
<1>5. ASSUME NEW k \in DOMAIN issues
      PROVE  issues[k].system < pos /\ issues[k].system < Following(pos)
  <2>1. issues \in Seq(Issue) /\ issues[k].system < pos
    BY <1>1 DEF Inv, Scan
  <2>2. issues[k].system \in Nat
    BY <2>1, IssueIs
  <2> QED BY <1>4, <2>1, <2>2
<1>6. accepted < Following(pos)
  BY <1>1, <1>4
<1> QED BY <1>1, <1>3, <1>4, <1>5, <1>6, SameNumbers, SameFits, SameSong

LEMMA AcceptInv ==
  ASSUME Inv, Accept
  PROVE  Inv'
<1> DEFINE x == song.misread
<1>0. /\ UNCHANGED <<song, numbers, tolerance, issues, pc>> /\ Scanning
      /\ Fits(accepted, pos) /\ accepted' = pos /\ pos' = Following(pos)
  BY DEF Accept
<1>1. /\ Type /\ ReadRight /\ Type' /\ ReadRight' /\ N' = N /\ Known' = Known
      /\ Doubtful' = Doubtful /\ AllThere' = AllThere /\ AllFit' = AllFit
      /\ \A i : Following(i)' = Following(i) /\ Lossy(i)' = Lossy(i) /\ Loss(i)' = Loss(i)
      /\ \A i, j : Fits(i, j)' = Fits(i, j)
      /\ pc = "scan" /\ accepted \in Known /\ pos \in Known /\ accepted < pos
      /\ accepted \in Nat /\ pos \in Nat /\ pos < Following(pos)
      /\ Following(pos) \in Known \cup {N + 1} /\ accepted < Following(pos)
      /\ \A k \in DOMAIN issues : issues[k].system < pos /\ issues[k].system < Following(pos)
  BY <1>0, ScanStep
<1>2. Scan /\ IssuesSound /\ Healthy /\ Skipped /\ Told
  BY DEF Inv
<1>3. Scan'
  BY <1>0, <1>1, <1>2 DEF Scan
<1>4. IssuesSound' /\ Healthy'
  BY <1>0, <1>1, <1>2 DEF IssuesSound, Healthy
<1>5. ASSUME Doubtful PROVE issues = <<>> /\ pos # x
  <2>1. /\ issues = <<>>
        /\ \/ accepted # x /\ pos = Following(accepted)
           \/ accepted = x /\ pos = Following(accepted) /\ Fits(accepted, pos)
           \/ Following(accepted) = x /\ pos = Following(x)
    BY <1>1, <1>2, <1>5 DEF Skipped
  <2>2. CASE accepted # x /\ pos = Following(accepted)
    BY <1>0, <1>1, <1>5, <2>1, <2>2 DEF Doubtful
  <2>3. CASE accepted = x
    BY <1>1, <2>1, <2>3
  <2>4. CASE Following(accepted) = x /\ pos = Following(x)
    <3>1. x \in Known
      BY <1>5 DEF Doubtful
    <3>2. x < Following(x) /\ x \in Nat
      BY <1>1, <3>1, FollowingAre
    <3> QED BY <2>1, <2>4, <3>2
  <2> QED BY <2>1, <2>2, <2>3, <2>4
<1>6. Skipped'
  BY <1>0, <1>1, <1>5 DEF Skipped
<1>7. ASSUME NEW i \in Known, Lossy(i)
      PROVE  \/ pos <= i /\ issues = <<>>
             \/ Following(i) <= pos /\ issues = <<Loss(i)>>
  <2>1. /\ pos = Following(accepted)
        /\ \/ accepted <= i /\ issues = <<>>
           \/ Following(i) <= accepted /\ issues = <<Loss(i)>>
    BY <1>1, <1>2, <1>7 DEF Told
  <2>2. i \in Nat /\ Following(i) \in Nat /\ ~Fits(i, Following(i))
    BY <1>1, <1>7, FollowingAre DEF Lossy
  <2>3. accepted # i
    BY <1>0, <2>1, <2>2
  <2>4. accepted < i => pos <= i
    BY <1>1, <2>1, FollowingAre
  <2> QED BY <1>1, <2>1, <2>2, <2>3, <2>4
<1>8. Told'
  BY <1>0, <1>1, <1>7 DEF Told
<1> QED BY <1>1, <1>3, <1>4, <1>6, <1>8 DEF Inv

LEMMA SkipInv ==
  ASSUME Inv, Skip
  PROVE  Inv'
<1> DEFINE x == song.misread
<1>0. /\ UNCHANGED <<song, numbers, tolerance, accepted, issues, pc>> /\ Scanning
      /\ ~Fits(accepted, pos) /\ pos' = Following(pos) /\ (Recovers \/ Implausible)
  BY DEF Skip
<1>1. /\ Type /\ ReadRight /\ Type' /\ ReadRight' /\ N' = N /\ Known' = Known
      /\ Doubtful' = Doubtful /\ AllThere' = AllThere /\ AllFit' = AllFit
      /\ \A i : Following(i)' = Following(i) /\ Lossy(i)' = Lossy(i) /\ Loss(i)' = Loss(i)
      /\ \A i, j : Fits(i, j)' = Fits(i, j)
      /\ pc = "scan" /\ accepted \in Known /\ pos \in Known /\ accepted < pos
      /\ accepted \in Nat /\ pos \in Nat /\ pos < Following(pos)
      /\ Following(pos) \in Known \cup {N + 1} /\ accepted < Following(pos)
      /\ \A k \in DOMAIN issues : issues[k].system < pos /\ issues[k].system < Following(pos)
  BY <1>0, ScanStep
<1>2. Scan /\ IssuesSound /\ Healthy /\ Skipped /\ Told
  BY DEF Inv
<1>3. Scan'
  BY <1>0, <1>1, <1>2 DEF Scan
<1>4. IssuesSound' /\ Healthy'
  BY <1>0, <1>1, <1>2 DEF IssuesSound, Healthy
<1>5. ASSUME Doubtful PROVE issues = <<>> /\ Following(accepted) = x /\ pos = x
  <2>1. /\ issues = <<>>
        /\ \/ accepted # x /\ pos = Following(accepted)
           \/ accepted = x /\ pos = Following(accepted) /\ Fits(accepted, pos)
           \/ Following(accepted) = x /\ pos = Following(x)
    BY <1>1, <1>2, <1>5 DEF Skipped
  <2>2. accepted # x
    BY <1>0, <1>1, <2>1, FollowingAre
  <2>3. pos = x
    BY <1>0, <1>1, <1>5, <2>2, DoubtfulFits
  <2>4. x < Following(x) /\ x \in Nat
    BY <1>1, <2>3, FollowingAre
  <2> QED BY <2>1, <2>2, <2>3, <2>4
<1>6. Skipped'
  BY <1>0, <1>1, <1>5 DEF Skipped
<1>7. ASSUME NEW i \in Known, Lossy(i) PROVE FALSE
  <2>1. /\ pos = Following(accepted)
        /\ accepted <= i \/ Following(i) <= accepted
    BY <1>1, <1>2, <1>7 DEF Told
  <2>2. i \in Nat /\ Following(i) \in Nat
    BY <1>1, <1>7, FollowingAre
  <2>3. accepted < i => pos <= i
    BY <1>1, <2>1, FollowingAre
  <2>4. accepted = i
    BY <1>0, <1>1, <1>7, <2>1, <2>2, <2>3, LossyFits
  <2>5. /\ Following(pos) <= N => ~Fits(accepted, Following(pos))
        /\ Growth(accepted, pos) <= 20 * Allowed(accepted, pos)
    BY <1>7, <2>1, <2>4 DEF Lossy
  <2>6. Growth(accepted, pos) \in Int /\ Allowed(accepted, pos) \in Nat
    BY <1>1, FitsIs
  <2> QED BY <1>0, <2>5, <2>6 DEF Recovers, Implausible
<1>8. Told'
  BY <1>1, <1>7 DEF Told
<1> QED BY <1>1, <1>3, <1>4, <1>6, <1>8 DEF Inv

LEMMA ReportInv ==
  ASSUME Inv, Report
  PROVE  Inv'
<1> DEFINE x == song.misread
           new == [system |-> pos, kind |-> Kind, from |-> numbers[accepted], to |-> numbers[pos]]
<1>0. /\ UNCHANGED <<song, numbers, tolerance, pc>> /\ Scanning
      /\ ~Fits(accepted, pos) /\ ~Recovers /\ issues' = Append(issues, new)
      /\ accepted' = pos /\ pos' = Following(pos)
  BY DEF Report
<1>1. /\ Type /\ ReadRight /\ Type' /\ ReadRight' /\ N' = N /\ Known' = Known
      /\ Doubtful' = Doubtful /\ AllThere' = AllThere /\ AllFit' = AllFit
      /\ \A i : Following(i)' = Following(i) /\ Lossy(i)' = Lossy(i) /\ Loss(i)' = Loss(i)
      /\ \A i, j : Fits(i, j)' = Fits(i, j)
      /\ pc = "scan" /\ accepted \in Known /\ pos \in Known /\ accepted < pos
      /\ accepted \in Nat /\ pos \in Nat /\ pos < Following(pos)
      /\ Following(pos) \in Known \cup {N + 1} /\ accepted < Following(pos)
      /\ \A k \in DOMAIN issues : issues[k].system < pos /\ issues[k].system < Following(pos)
  BY <1>0, ScanStep
<1>2. Scan /\ IssuesSound /\ Healthy /\ Skipped /\ Told /\ issues \in Seq(Issue)
  BY DEF Inv, Scan
<1>3. /\ numbers[accepted] \in Nat /\ numbers[pos] \in Nat /\ numbers[accepted] # numbers[pos]
      /\ Kind \in {"gap", "backwards"}
      /\ Kind = "gap" => numbers[accepted] < numbers[pos]
      /\ Kind = "backwards" => numbers[pos] < numbers[accepted]
  <2>1. numbers[accepted] \in Nat /\ numbers[pos] \in Nat
    BY <1>1, KnownAre
  <2>2. numbers[accepted] # numbers[pos]
    BY <1>0, <1>1, FitsIs
  <2> QED BY <2>1, <2>2 DEF Kind
<1>4. new \in Issue /\ new.system = pos
  BY <1>1, <1>3 DEF Issue
<1> HIDE DEF new
<1>5. /\ issues' \in Seq(Issue) /\ Len(issues) \in Nat
      /\ Len(issues') = Len(issues) + 1 /\ DOMAIN issues' = 1 .. Len(issues) + 1
      /\ DOMAIN issues = 1 .. Len(issues)
      /\ issues'[Len(issues) + 1] = new
      /\ \A k \in DOMAIN issues : issues'[k] = issues[k]
  BY <1>0, <1>2, <1>4
<1>6. \A k \in DOMAIN issues' : k \in DOMAIN issues \/ k = Len(issues) + 1
  BY <1>5
<1>7. Scan'
  <2>1. \A k \in DOMAIN issues' : issues'[k].system < Following(pos)
    BY <1>1, <1>4, <1>5, <1>6
  <2> QED BY <1>0, <1>1, <1>2, <1>5, <2>1 DEF Scan
<1>8. IssuesSound'
  <2>1. ASSUME NEW k \in DOMAIN issues'
        PROVE  /\ issues'[k].system \in Known
               /\ issues'[k].to = numbers[issues'[k].system]
               /\ issues'[k].kind = "gap" => issues'[k].from < issues'[k].to
               /\ issues'[k].kind = "backwards" => issues'[k].to < issues'[k].from
    <3>1. CASE k \in DOMAIN issues
      BY <1>2, <1>5, <3>1 DEF IssuesSound
    <3>2. CASE k = Len(issues) + 1
      BY <1>1, <1>3, <1>5, <3>2 DEF new
    <3> QED BY <1>6, <3>1, <3>2
  <2>2. ASSUME NEW k \in DOMAIN issues', NEW m \in DOMAIN issues', k < m
        PROVE  issues'[k].system < issues'[m].system
    <3>1. k \in DOMAIN issues
      BY <1>5, <1>6, <2>2
    <3>2. CASE m \in DOMAIN issues
      BY <1>2, <1>5, <2>2, <3>1, <3>2 DEF IssuesSound
    <3>3. CASE m = Len(issues) + 1
      BY <1>1, <1>4, <1>5, <3>1, <3>3
    <3> QED BY <1>6, <3>2, <3>3
  <2> QED BY <1>0, <1>1, <2>1, <2>2 DEF IssuesSound
<1>9. Healthy'
  BY <1>0, <1>1, <1>2 DEF Healthy, AllFit
<1>10. ASSUME Doubtful PROVE FALSE
  <2>1. \/ accepted # x /\ pos = Following(accepted)
        \/ accepted = x /\ pos = Following(accepted) /\ Fits(accepted, pos)
        \/ Following(accepted) = x /\ pos = Following(x)
    BY <1>1, <1>2, <1>10 DEF Skipped
  <2>2. accepted # x
    BY <1>0, <1>1, <2>1, FollowingAre
  <2>3. pos = x
    BY <1>0, <1>1, <1>10, <2>2, DoubtfulFits
  <2>4. Following(pos) <= N /\ Following(pos) \in Known
    BY <1>1, <1>10, <2>3, FollowingAre DEF Doubtful
  <2>5. /\ Following(pos) \in Known \ {song.misread} /\ accepted \in Known \ {song.misread}
        /\ accepted < Following(pos)
    BY <1>1, <2>2, <2>3, <2>4
  <2>6. Fits(accepted, Following(pos))
    BY <1>1, <1>10, <2>5, DoubtfulFits
  <2> QED BY <1>0, <2>4, <2>6 DEF Recovers
<1>11. Skipped'
  BY <1>1, <1>10 DEF Skipped
<1>12. ASSUME NEW i \in Known, Lossy(i)
       PROVE  Following(i) <= pos /\ issues' = <<Loss(i)>>
  <2>1. /\ pos = Following(accepted)
        /\ \/ accepted <= i /\ issues = <<>>
           \/ Following(i) <= accepted
    BY <1>1, <1>2, <1>12 DEF Told
  <2>2. i \in Nat /\ Following(i) \in Nat
    BY <1>1, <1>12, FollowingAre
  <2>3. accepted < i => pos <= i
    BY <1>1, <2>1, FollowingAre
  <2>4. accepted = i /\ issues = <<>>
    BY <1>0, <1>1, <1>12, <2>1, <2>2, <2>3, LossyFits
  <2>5. numbers[accepted] <= numbers[pos]
    BY <1>1, <1>12, <2>1, <2>4, LossyFits
  <2>6. Kind = "gap"
    BY <1>3, <2>5
  <2>7. new = Loss(i)
    BY <2>1, <2>4, <2>6 DEF new, Loss
  <2> QED BY <1>0, <2>1, <2>2, <2>4, <2>7
<1>13. Told'
  BY <1>0, <1>1, <1>12 DEF Told
<1> QED BY <1>1, <1>7, <1>8, <1>9, <1>11, <1>13 DEF Inv

LEMMA ConcludeInv ==
  ASSUME Inv, Conclude
  PROVE  Inv'
<1>0. /\ UNCHANGED <<song, numbers, tolerance, pos, accepted>> /\ pc' = "done"
      /\ issues' = IF 2 * Cardinality(Known) < N THEN <<>> ELSE issues
      /\ \/ pc = "scan" /\ pos > N
         \/ pc = "anchor" /\ Known = {}
  BY DEF Conclude
<1>1. Type /\ ReadRight /\ Scan /\ IssuesSound /\ Healthy /\ Skipped /\ Told
  BY DEF Inv
<1>2. /\ Type' /\ ReadRight' /\ N' = N /\ Known' = Known
      /\ Doubtful' = Doubtful /\ AllThere' = AllThere
      /\ \A i : Lossy(i)' = Lossy(i) /\ Loss(i)' = Loss(i)
  BY <1>0, <1>1, SameNumbers, SameSong
<1>3. issues' = <<>> \/ issues' = issues
  BY <1>0
<1>4. Scan'
  BY <1>0, <1>1, <1>3 DEF Scan
<1>5. IssuesSound'
  <2>1. CASE issues' = <<>>
    BY <2>1 DEF IssuesSound
  <2>2. CASE issues' = issues
    BY <1>0, <1>1, <1>2, <2>2 DEF IssuesSound
  <2> QED BY <1>3, <2>1, <2>2
<1>6. Healthy'
  BY <1>0, <1>1, <1>2, <1>3 DEF Healthy
<1>7. Skipped'
  BY <1>0, <1>1, <1>2, <1>3 DEF Skipped, Scan
<1>8. ASSUME NEW i \in Known, Lossy(i) PROVE issues' = <<Loss(i)>>
  <2>1. /\ pc = "scan" /\ pos > N /\ pos = Following(accepted) /\ accepted \in Known
        /\ \/ accepted <= i
           \/ Following(i) <= accepted /\ issues = <<Loss(i)>>
    BY <1>0, <1>1, <1>8 DEF Told, Scan
  <2>2. /\ i \in Nat /\ Following(i) \in Known /\ i < Following(i) /\ Following(i) \in Nat
        /\ Following(i) <= N /\ N \in Nat
    BY <1>1, <1>8, FollowingAre, LossyFits, KnownAre
  <2>3. accepted <= i => Following(accepted) <= Following(i) /\ accepted \in Nat
    BY <1>1, <2>1, <2>2, FollowingAre
  <2>4. accepted \in Nat /\ Following(accepted) \in Nat
    BY <1>1, <2>1, FollowingAre
  <2>5. ~(accepted <= i)
    BY <2>1, <2>2, <2>3, <2>4
  <2>6. 2 * Cardinality(Known) >= N
    BY <1>8 DEF Lossy
  <2>7. ~(2 * Cardinality(Known) < N)
    BY <1>1, <2>2, <2>6, KnownAre
  <2> QED BY <1>0, <2>1, <2>5, <2>7
<1>9. Told'
  BY <1>0, <1>2, <1>8 DEF Told
<1> QED BY <1>2, <1>4, <1>5, <1>6, <1>7, <1>9 DEF Inv

LEMMA StepInv == Inv /\ [Next]_vars => Inv'
<1> SUFFICES ASSUME Inv, [Next]_vars PROVE Inv'
  OBVIOUS
<1>1. CASE UNCHANGED vars
  <2>1. UNCHANGED <<song, numbers, tolerance, pos, accepted, issues, pc>>
    BY <1>1 DEF vars
  <2>2. /\ Type' /\ ReadRight' /\ N' = N /\ Known' = Known
        /\ Doubtful' = Doubtful /\ AllThere' = AllThere /\ AllFit' = AllFit
        /\ \A i : Following(i)' = Following(i) /\ Lossy(i)' = Lossy(i) /\ Loss(i)' = Loss(i)
        /\ \A i, j : Fits(i, j)' = Fits(i, j)
    BY <2>1, SameNumbers, SameFits, SameSong DEF Inv
  <2>3. Scan' /\ IssuesSound' /\ Healthy'
    BY <2>1, <2>2 DEF Inv, Scan, IssuesSound, Healthy
  <2>4. Skipped' /\ Told'
    BY <2>1, <2>2 DEF Inv, Skipped, Told
  <2> QED BY <2>2, <2>3, <2>4 DEF Inv
<1>2. CASE Finished
  BY <1>1, <1>2 DEF Finished
<1> QED
  BY <1>1, <1>2, CalibrateInv, AnchorInv, AcceptInv, SkipInv, ReportInv, ConcludeInv DEF Next

-----------------------------------------------------------------------------
(* What holds of every song *)

THEOREM Always == Spec => []Inv
BY InitInv, StepInv, PTL DEF Spec

(* Every issue names a system whose number was read, says rightly which way *)
(* the numbers go, and comes after the issues about earlier systems, for    *)
(* whatever the numbers were taken for (verify.py:218-236).                 *)
THEOREM IssuesAreSound == Spec => []IssuesSound
<1>1. Inv => IssuesSound
  BY DEF Inv
<1> QED BY <1>1, Always, PTL

(* A song that is all there is never reported, whatever its bars per system *)
(* and whichever of its numbers could not be read: the median of what the   *)
(* numbers grow by per system is what they grow by (verify.py:201-231).     *)
THEOREM HealthyIsQuiet == Spec => []HealthyQuiet
<1>1. Inv => HealthyQuiet
  BY DEF Inv, Healthy, AllThere, HealthyQuiet
<1> QED BY <1>1, Always, PTL

(* One wrong number that does not fit the reading before it, and is not the *)
(* last, is neither reported nor compared with (verify.py:212-231).         *)
THEOREM MisreadIsIgnored == Spec => []MisreadIgnored
<1>1. Inv => MisreadIgnored
  BY DEF Inv, Skipped, Doubtful, MisreadIgnored
<1> QED BY <1>1, Always, PTL

(* Missing bars between two numbers that were read, none of which the loss  *)
(* leaves usual, are reported as one gap, at the system after them and from *)
(* the number before them (verify.py:218-241).                              *)
THEOREM LossIsReported == Spec => []LossReported
<1>1. Inv => LossReported
  <2> SUFFICES ASSUME Inv, NEW i \in Known, pc = "done", Lossy(i)
               PROVE  /\ Len(issues) = 1
                      /\ issues[1].kind = "gap"
                      /\ issues[1].system = Following(i)
                      /\ issues[1].from = numbers[i]
    BY DEF LossReported, Lossy
  <2>1. issues = <<Loss(i)>>
    BY DEF Inv, Told
  <2> QED BY <2>1 DEF Loss
<1> QED BY <1>1, Always, PTL
=============================================================================
