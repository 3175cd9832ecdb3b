--------------------------- MODULE AnalysisProofs ---------------------------
(***************************************************************************)
(* The analysis of a video, for every video and every value of the         *)
(* constants.  The songs cover the video and are long enough; at the end   *)
(* they are those of the video when each of its scenes is long, and one    *)
(* when there is but one with a cutaway.  A score that most samples show   *)
(* is located exactly, the region is never too small, and the advance mode *)
(* is that of the pairs of frames.                                         *)
(***************************************************************************)
EXTENDS Analysis, FiniteSetTheorems, WellFoundedInduction, TLAPS

(* A non-empty set of naturals has a least member. *)
LEMMA LeastMember ==
  ASSUME NEW T, T \subseteq Nat, T # {}
  PROVE  \E x \in T : \A y \in T : x <= y
<1>1. IsWellFoundedOn(OpToRel(<, Nat), Nat)
  BY NatLessThanWellFounded
<1>2. PICK x \in T : \A y \in T : ~ (<<y, x>> \in OpToRel(<, Nat))
  BY <1>1, WFMin
<1>3. \A y \in T : ~ (y < x)
  BY <1>2 DEF OpToRel
<1> QED BY <1>3

(* The number of frames is what the domain of scene says. *)
LEMMA FrameCount ==
  ASSUME NEW n \in Nat, NEW s, DOMAIN s = 0 .. n - 1
  PROVE  Cardinality(DOMAIN s) = n
BY FS_Interval

(* Every boundary but the last has a next one. *)
LEMMA NextBoundary ==
  ASSUME NEW a \in bounds, bounds \subseteq Nat, NEW b \in bounds, a < b
  PROVE  /\ After(a) \in bounds /\ a < After(a)
         /\ \A d \in bounds : a < d => After(a) <= d
<1> DEFINE Later == {d \in bounds : a < d}
<1>1. Later \subseteq Nat /\ Later # {}
  OBVIOUS
<1>2. PICK c \in Later : \A d \in Later : c <= d
  BY <1>1, LeastMember
<1>3. c \in bounds /\ a < c /\ \A d \in bounds : a < d => c <= d
  BY <1>2
<1> QED BY <1>3 DEF After

(* Segments have a length. *)
LEMMA LengthType ==
  ASSUME TypeOK, N \in Nat \ {0}, NEW a \in Starts
  PROVE  Length(a) \in Nat
<1>1. /\ a \in bounds /\ N \in bounds /\ a < N
      /\ bounds \subseteq Nat
  BY DEF TypeOK, Starts
<1>2. After(a) \in bounds /\ a < After(a)
  BY <1>1, NextBoundary
<1>3. After(a) \in Nat /\ a \in Nat
  BY <1>1, <1>2
<1> QED BY <1>2, <1>3 DEF Length

(* There is a first shortest segment. *)
LEMMA ShortestIsShortest ==
  ASSUME TypeOK, N \in Nat \ {0}
  PROVE  /\ Shortest \in Starts
         /\ \A b \in Starts : Length(Shortest) <= Length(b)
<1>0. 0 \in Starts /\ Starts \subseteq bounds /\ bounds \subseteq Nat /\ N \in bounds
  BY DEF TypeOK, Starts
<1>2. \A b \in Starts : Length(b) \in Nat
  BY LengthType
<1> DEFINE Lengths == {Length(b) : b \in Starts}
<1>3. PICK l \in Lengths : \A m \in Lengths : l <= m
  <2>1. Lengths \subseteq Nat /\ Lengths # {}
    BY <1>0, <1>2
  <2> QED BY <2>1, LeastMember
<1> DEFINE Candidates == {b \in Starts : Length(b) = l}
<1>4. PICK a \in Candidates : \A b \in Candidates : a <= b
  <2>1. Candidates \subseteq Nat /\ Candidates # {}
    BY <1>0, <1>3
  <2> QED BY <2>1, LeastMember
<1>5. a \in Starts /\ \A b \in Starts :
         Length(a) < Length(b) \/ (Length(a) = Length(b) /\ a <= b)
  BY <1>2, <1>3, <1>4
<1>6. /\ Shortest \in Starts
      /\ \A b \in Starts : Length(Shortest) < Length(b)
                           \/ (Length(Shortest) = Length(b) /\ Shortest <= b)
  <2> HIDE DEF Candidates, Lengths
  <2> QED BY <1>5 DEF Shortest
<1> QED BY <1>2, <1>6

-----------------------------------------------------------------------------
IInv == TypeOK /\ LongEnough

LEMMA InitHolds == Init => IInv
<1> SUFFICES ASSUME Init PROVE IInv
  OBVIOUS
<1>1. PICK n \in 1 .. MaxFrames : scene \in [0 .. n - 1 -> Scenes]
  BY DEF Init
<1>2. N = n /\ n \in Nat \ {0}
  BY <1>1, FrameCount DEF N
<1>3. rest \subseteq 1 .. N - 1
  BY <1>1, <1>2 DEF Init, Outliers, Changes
<1> QED BY <1>1, <1>2, <1>3 DEF Init, IInv, TypeOK, LongEnough

(* A boundary inside the video may go. *)
LEMMA DropInterior ==
  ASSUME TypeOK, NEW b \in Interior, bounds' = bounds \ {b},
         UNCHANGED <<scene, still, rest, pc>>, pc # "done"
  PROVE  IInv'
<1>1. N' = N
  BY DEF N
<1> QED BY <1>1 DEF IInv, TypeOK, LongEnough, Interior

(* What goes with a short segment is a boundary inside the video. *)
LEMMA ShortenDropsInterior ==
  ASSUME TypeOK, Shorten
  PROVE  \E b \in Interior : bounds' = bounds \ {b}
<1> DEFINE a == Shortest
<1>1. PICK b \in Dropped(a) : bounds' = bounds \ {b}
  BY DEF Shorten
<1>2. N \in Nat \ {0}
  <2>1. PICK n \in 1 .. MaxFrames : scene \in [0 .. n - 1 -> Scenes]
    BY DEF TypeOK
  <2> QED BY <2>1, FrameCount DEF N
<1>3. a \in bounds /\ a < N /\ N \in bounds /\ bounds \subseteq 0 .. N
  <2>1. a \in Starts
    BY <1>2, ShortestIsShortest
  <2> HIDE DEF a
  <2> QED BY <1>2, <2>1 DEF Starts, TypeOK
<1> HIDE DEF a
<1>4. /\ After(a) \in bounds /\ a < After(a)
      /\ \A d \in bounds : a < d => After(a) <= d
  BY <1>3, NextBoundary
<1>5. a = 0 => After(a) # N
  <2>1. PICK d \in Interior : TRUE
    BY DEF Shorten
  <2> QED BY <1>2, <1>3, <1>4, <2>1 DEF Interior
<1>6. b \in Interior
  BY <1>1, <1>2, <1>3, <1>4, <1>5 DEF Dropped, Interior
<1> QED BY <1>1, <1>6

LEMMA NextHolds == IInv /\ [Next]_vars => IInv'
<1> SUFFICES ASSUME IInv, [Next]_vars PROVE IInv'
  OBVIOUS
<1> USE DEF IInv
<1>1. N \in Nat \ {0}
  <2>1. PICK n \in 1 .. MaxFrames : scene \in [0 .. n - 1 -> Scenes]
    BY DEF TypeOK
  <2> QED BY <2>1, FrameCount DEF N
<1>2. scene' = scene => N' = N
  BY DEF N
<1>3. CASE TakeCluster
  <2>1. PICK peak \in Cluster(rest) : bounds' = bounds \cup {peak}
    BY <1>3 DEF TakeCluster
  <2>2. peak \in 1 .. N - 1
    BY <2>1 DEF Cluster, TypeOK
  <2>3. /\ rest' \subseteq rest /\ scene' = scene /\ still' = still
        /\ pc' = pc /\ pc = "cluster"
    BY <1>3 DEF TakeCluster
  <2>4. TypeOK'
    BY <1>1, <1>2, <2>1, <2>2, <2>3 DEF TypeOK
  <2>5. LongEnough'
    BY <2>3 DEF LongEnough
  <2> QED BY <2>4, <2>5
<1>4. CASE Clustered \/ Merged
  BY <1>2, <1>4 DEF Clustered, Merged, TypeOK, LongEnough
<1>5. CASE Merge
  BY <1>5, DropInterior DEF Merge
<1>6. CASE Shorten
  <2>1. PICK b \in Interior : bounds' = bounds \ {b}
    BY <1>6, ShortenDropsInterior
  <2> QED BY <1>6, <2>1, DropInterior DEF Shorten
<1>7. CASE Segmented
  <2>1. TypeOK'
    BY <1>2, <1>7 DEF Segmented, TypeOK
  <2>2. UNCHANGED <<scene, bounds>> /\ (Interior = {} \/ Length(Shortest) >= MinLen)
    BY <1>7 DEF Segmented
  <2>3. Interior = {} \/ \A b \in Starts : Length(b) >= MinLen
    <3>1. ASSUME NEW b \in Starts, Interior # {} PROVE Length(b) >= MinLen
      <4>1. Length(Shortest) <= Length(b) /\ Shortest \in Starts
        BY <1>1, ShortestIsShortest
      <4>2. Length(Shortest) \in Nat /\ Length(b) \in Nat
        BY <1>1, <4>1, LengthType
      <4> QED BY <2>2, <3>1, <4>1, <4>2, SongsAssumption
    <3> QED BY <3>1
  <2>4. LongEnough'
    BY <1>2, <2>2, <2>3 DEF LongEnough, Interior, Starts, Length, After
  <2> QED BY <2>1, <2>4
<1>8. CASE Finished \/ UNCHANGED vars
  BY <1>2, <1>8 DEF Finished, vars, TypeOK, LongEnough, Interior, Starts, Length, After
<1> QED BY <1>3, <1>4, <1>5, <1>6, <1>7, <1>8 DEF Next

(* The songs always cover the video: the first boundary is its first frame  *)
(* and the last its end, and every other lies in between (songs.py:95-142). *)
THEOREM SongsCoverVideo == Spec => []TypeOK
BY InitHolds, NextHolds, PTL DEF Spec, IInv

(* No song of a divided video is shorter than a plausible song              *)
(* (songs.py:121-136).                                                      *)
THEOREM SongsAreLong == Spec => []LongEnough
BY InitHolds, NextHolds, PTL DEF Spec, IInv

-----------------------------------------------------------------------------
(* What there is to be found *)

\* The frames, from the first to the last.
LEMMA FramesAre ==
  ASSUME TypeOK
  PROVE  /\ N \in Nat \ {0} /\ DOMAIN scene = 0 .. N - 1 /\ scene \in [0 .. N - 1 -> Scenes]
         /\ Changes(scene) = {i \in 1 .. N - 1 : scene[i] # scene[i - 1]}
         /\ bounds \subseteq Nat /\ Interior \subseteq 1 .. N - 1 /\ 0 \in bounds /\ N \in bounds
<1>1. PICK n \in 1 .. MaxFrames : scene \in [0 .. n - 1 -> Scenes]
  BY DEF TypeOK
<1>2. n \in Nat \ {0} /\ N = n
  BY <1>1, FrameCount DEF N
<1>3. Changes(scene) = {i \in 1 .. N - 1 : scene[i] # scene[i - 1]}
  BY <1>1, <1>2 DEF Changes
<1>4. bounds \subseteq 0 .. N /\ 0 \in bounds /\ N \in bounds
  BY DEF TypeOK
<1>5. Interior \subseteq 1 .. N - 1
  BY <1>2, <1>4 DEF Interior
<1> QED BY <1>1, <1>2, <1>3, <1>4, <1>5

\* Every boundary but the first has one before it, of which it is the next.
LEMMA PreviousBoundary ==
  ASSUME TypeOK, NEW b \in Interior
  PROVE  /\ Before(b) \in Starts /\ Before(b) < b /\ After(Before(b)) = b
         /\ \A d \in bounds : d < b => d <= Before(b)
<1>1. /\ bounds \subseteq Nat /\ b \in bounds /\ b \in 1 .. N - 1 /\ 0 \in bounds
      /\ N \in Nat /\ N \in bounds
  BY FramesAre DEF Interior
<1> DEFINE Back == {b - a : a \in {a \in bounds : a < b}}
<1>2. Back \subseteq Nat /\ b - 0 \in Back
  BY <1>1
<1>3. PICK m \in Back : \A k \in Back : m <= k
  <2> HIDE DEF Back
  <2> QED BY <1>2, LeastMember
<1>4. PICK a \in bounds : a < b /\ m = b - a
  OBVIOUS
<1>5. \A d \in bounds : d < b => d <= a
  <2> SUFFICES ASSUME NEW d \in bounds, d < b PROVE d <= a
    OBVIOUS
  <2>1. b - d \in Back
    OBVIOUS
  <2>2. b - a <= b - d
    BY <1>3, <1>4, <2>1
  <2> QED BY <1>1, <2>2
<1>6. Before(b) \in bounds /\ Before(b) < b /\ \A d \in bounds : d < b => d <= Before(b)
  BY <1>4, <1>5 DEF Before
<1>7. Before(b) \in Starts
  BY <1>1, <1>6 DEF Starts
<1>8. /\ After(Before(b)) \in bounds /\ Before(b) < After(Before(b))
      /\ After(Before(b)) <= b
  BY <1>1, <1>6, NextBoundary
<1> HIDE DEF Back
<1>9. After(Before(b)) \in Nat /\ Before(b) \in Nat /\ b \in Nat
  BY <1>1, <1>6, <1>8
<1>10. ~(After(Before(b)) < b)
  BY <1>6, <1>8, <1>9
<1>11. After(Before(b)) = b
  BY <1>8, <1>9, <1>10
<1> QED BY <1>6, <1>7, <1>11

\* A boundary that is not the last is followed by one that is not the first.
LEMMA NextIs ==
  ASSUME TypeOK, NEW a \in Starts
  PROVE  /\ a \in 0 .. N - 1 /\ After(a) \in 1 .. N /\ a < After(a)
         /\ a \in Interior \cup {0} /\ After(a) \in Interior \cup {N}
         /\ \A d \in bounds : a < d => After(a) <= d
<1>1. /\ N \in Nat \ {0} /\ a \in bounds /\ a # N /\ N \in bounds /\ 0 \in bounds
      /\ bounds \subseteq 0 .. N /\ bounds \subseteq Nat
  BY FramesAre DEF Starts, TypeOK
<1>2. a \in 0 .. N - 1 /\ a < N
  BY <1>1
<1>3. /\ After(a) \in bounds /\ a < After(a)
      /\ \A d \in bounds : a < d => After(a) <= d
  BY <1>1, <1>2, NextBoundary
<1>4. After(a) \in 1 .. N
  <2>1. After(a) \in 0 .. N /\ a < After(a)
    BY <1>1, <1>3
  <2> QED BY <1>2, <2>1
<1>5. a \in Interior \cup {0} /\ After(a) \in Interior \cup {N}
  BY <1>1, <1>2, <1>3, <1>4 DEF Interior
<1> QED BY <1>2, <1>3, <1>4, <1>5

\* Songs of a plausible length leave few changes of scene.
LEMMA ChangesAreFew ==
  ASSUME TypeOK, Steady
  PROVE  Outliers(scene) = Changes(scene)
<1> DEFINE C == Changes(scene)
           S == C \cup {0}
           T == {x + 1 : x \in S}
<1>1. /\ N \in Nat \ {0} /\ C \subseteq 1 .. N - 1 /\ MinLen \in Nat /\ 2 <= MinLen
      /\ DOMAIN scene = 0 .. N - 1
  BY FramesAre, SongsAssumption
<1>2. \A a, b \in S \cup {N} : a < b => b - a >= MinLen
  BY DEF Steady
<1> HIDE DEF C
<1>3. \A x \in S : x \in 0 .. N - 1 /\ x + 1 \in 0 .. N - 1
  <2> SUFFICES ASSUME NEW x \in S PROVE x \in 0 .. N - 1 /\ x + 1 \in 0 .. N - 1
    OBVIOUS
  <2>1. x \in 0 .. N - 1 /\ x < N
    BY <1>1
  <2>2. N - x >= MinLen
    BY <1>2, <2>1
  <2> QED BY <1>1, <2>1, <2>2
<1>4. S \cap T = {}
  <2> SUFFICES ASSUME NEW x \in S, x + 1 \in S PROVE FALSE
    OBVIOUS
  <2>1. x \in Int /\ (x + 1) - x >= MinLen
    BY <1>2, <1>3
  <2> QED BY <1>1, <2>1
<1>5. IsFiniteSet(0 .. N - 1) /\ Cardinality(0 .. N - 1) = N
  BY <1>1, FS_Interval
<1>6. S \in SUBSET (0 .. N - 1) /\ T \in SUBSET (0 .. N - 1) /\ C \in SUBSET (0 .. N - 1)
  BY <1>1, <1>3
<1>7. IsFiniteSet(S) /\ IsFiniteSet(T) /\ IsFiniteSet(C)
  <2> HIDE DEF S, T
  <2> QED BY <1>5, <1>6, FS_Subset
<1>8. Cardinality(S) = Cardinality(C) + 1
  <2>1. 0 \notin C
    BY <1>1
  <2> QED BY <1>7, <2>1, FS_AddElement
<1>9. Cardinality(S) = Cardinality(T)
  <2> DEFINE f == [x \in S |-> x + 1]
  <2>1. f \in Bijection(S, T)
    BY <1>3 DEF Bijection, Injection, Surjection, IsInjective
  <2>2. ExistsBijection(S, T)
    BY <2>1 DEF ExistsBijection
  <2> HIDE DEF S, T
  <2> QED BY <1>7, <2>2, FS_Bijection
<1>10. Cardinality(S) + Cardinality(T) <= N
  <2> HIDE DEF S, T
  <2>1. Cardinality(S \cup T) = Cardinality(S) + Cardinality(T) - Cardinality(S \cap T)
    BY <1>7, FS_Union
  <2>2. Cardinality(S \cap T) = 0
    BY <1>4, FS_EmptySet
  <2>3. S \cup T \in SUBSET (0 .. N - 1)
    BY <1>6
  <2>4. Cardinality(S \cup T) <= N
    BY <1>5, <2>3, FS_Subset
  <2>5. Cardinality(S) \in Nat /\ Cardinality(T) \in Nat
    BY <1>7, FS_CardinalityType
  <2> QED BY <2>1, <2>2, <2>4, <2>5
<1>11. 2 * Cardinality(C) < N - 1
  <2>1. Cardinality(C) \in Nat
    BY <1>7, FS_CardinalityType
  <2> HIDE DEF S, T
  <2> QED BY <1>1, <1>8, <1>9, <1>10, <2>1
<1> QED BY <1>1, <1>5, <1>11 DEF Outliers, C

\* Two changes of scene are never in one cluster then.
LEMMA ClustersAreSingle ==
  ASSUME TypeOK, Steady, rest \subseteq Changes(scene), NEW p \in Cluster(rest)
  PROVE  Cluster(rest) = {p}
<1> SUFFICES ASSUME NEW q \in Cluster(rest), NEW r \in Cluster(rest), q < r
             PROVE  FALSE
  <2>1. Cluster(rest) \subseteq Nat
    BY FramesAre DEF Cluster
  <2> QED BY <2>1
<1>1. /\ MinLen \in Nat /\ Gap \in Nat /\ Gap < MinLen
  BY SongsAssumption
<1>2. /\ q \in rest /\ r \in rest
      /\ \A k \in rest : k < r => \E m \in rest : k < m /\ m <= r /\ m - k <= Gap
  BY DEF Cluster
<1>3. PICK m \in rest : q < m /\ m - q <= Gap
  BY <1>2
<1>4. m - q >= MinLen
  BY <1>2, <1>3 DEF Steady
<1>5. m \in Nat /\ q \in Nat
  BY <1>2, FramesAre
<1> QED BY <1>1, <1>3, <1>4, <1>5

\* A segment without a change shows one scene.
LEMMA SegmentShows ==
  ASSUME TypeOK, Changes(scene) \subseteq bounds, NEW a \in Starts
  PROVE  /\ Rep(a, After(a)) = {scene[a]}
         /\ \A i \in a .. After(a) - 1 : scene[i] = scene[a]
<1>1. /\ N \in Nat \ {0} /\ scene \in [0 .. N - 1 -> Scenes]
      /\ Changes(scene) = {i \in 1 .. N - 1 : scene[i] # scene[i - 1]}
  BY FramesAre
<1> DEFINE c == After(a)
           Others == {i \in a .. c - 1 : scene[i] # scene[a]}
<1>2. /\ a \in 0 .. N - 1 /\ c \in 1 .. N /\ a < c
      /\ \A d \in bounds : a < d => c <= d
  BY NextIs
<1> HIDE DEF c
<1>3. Others = {}
  <2> SUFFICES ASSUME Others # {} PROVE FALSE
    OBVIOUS
  <2>1. PICK i \in Others : \A j \in Others : i <= j
    <3>1. Others \subseteq Nat
      BY <1>2
    <3> HIDE DEF Others
    <3> QED BY <3>1, LeastMember
  <2>2. i \in a .. c - 1 /\ scene[i] # scene[a]
    OBVIOUS
  <2>8. i \in Int /\ i # a
    BY <1>2, <2>2
  <2>3. i - 1 \in a .. c - 1 /\ i - 1 < i /\ a < i /\ i \in 1 .. N - 1 /\ i < c
    BY <1>1, <1>2, <2>2, <2>8
  <2>4. scene[i - 1] = scene[a]
    BY <2>1, <2>3
  <2>5. i \in Changes(scene)
    BY <1>1, <2>2, <2>3, <2>4
  <2>6. c <= i
    BY <1>2, <2>3, <2>5
  <2> QED BY <1>2, <2>3, <2>6
<1>4. \A i \in a .. c - 1 : scene[i] = scene[a]
  BY <1>3
<1> DEFINE Showing(s) == {i \in a .. c - 1 : scene[i] = s}
<1>5. /\ Showing(scene[a]) = a .. c - 1
      /\ \A s : s # scene[a] => Showing(s) = {}
  BY <1>4
<1>10. a \in Int /\ c - 1 \in Int /\ ~(a > c - 1)
  BY <1>2
<1>6. Cardinality(a .. c - 1) = c - a /\ c - a \in Nat /\ 0 < c - a
  BY <1>2, <1>10, FS_Interval
<1>7. scene[a] \in Scenes
  BY <1>1, <1>2
<1>8. Rep(a, c) = {s \in Scenes : 2 * Cardinality(Showing(s)) > c - a}
  BY DEF Rep
<1> HIDE DEF Showing
<1>9. 2 * Cardinality(Showing(scene[a])) > c - a
  BY <1>2, <1>5, <1>6
<1>11. ASSUME NEW s \in Scenes, s # scene[a]
       PROVE  ~(2 * Cardinality(Showing(s)) > c - a)
  <2>1. Cardinality(Showing(s)) = 0
    BY <1>5, <1>11, FS_EmptySet
  <2> QED BY <1>6, <2>1
<1> QED BY <1>4, <1>7, <1>8, <1>9, <1>11 DEF c

\* A boundary at a change of scene divides what does not look alike.
LEMMA ChangeDivides ==
  ASSUME TypeOK, Interior = Changes(scene), NEW b \in Interior
  PROVE  Unlike(b) /\ ~Alike(b)
<1>1. /\ Changes(scene) \subseteq bounds /\ b \in Starts
      /\ b \in 1 .. N - 1 /\ scene[b] # scene[b - 1] /\ N \in Nat
  BY FramesAre DEF Interior, Starts
<1>2. /\ Before(b) \in Starts /\ Before(b) < b /\ After(Before(b)) = b
  BY PreviousBoundary
<1>3. Before(b) \in 0 .. N - 1
  BY <1>2, NextIs
<1>4. Left(b) = {scene[b - 1]}
  <2>1. b - 1 \in Before(b) .. b - 1
    BY <1>1, <1>2, <1>3
  <2>2. /\ Rep(Before(b), b) = {scene[Before(b)]}
        /\ \A i \in Before(b) .. b - 1 : scene[i] = scene[Before(b)]
    BY <1>1, <1>2, SegmentShows
  <2> QED BY <2>1, <2>2 DEF Left
<1>5. Right(b) = {scene[b]}
  BY <1>1, SegmentShows DEF Right
<1> QED BY <1>1, <1>4, <1>5 DEF Unlike, Alike

\* Segments between changes of scene are long enough.
LEMMA SegmentsAreLong ==
  ASSUME TypeOK, Steady, Interior = Changes(scene), NEW a \in Starts
  PROVE  Length(a) >= MinLen
<1>1. /\ After(a) \in Interior \cup {N} /\ a \in Interior \cup {0} /\ a < After(a)
  BY NextIs
<1> QED BY <1>1 DEF Steady, Length

-----------------------------------------------------------------------------
(* A cutaway *)

\* All but Gap frames, from m on, show the scene s.
Away(s, m) == /\ s \in Scenes /\ m \in 0 .. N
              /\ \A i \in DOMAIN scene : i < m \/ i >= m + Gap => scene[i] = s

\* Its changes of scene are all in one cluster.
LEMMA CutawayIsOneCluster ==
  ASSUME TypeOK, NEW m \in 0 .. N, Cutaway(m), rest \subseteq Changes(scene)
  PROVE  Cluster(rest) = rest /\ rest \subseteq m .. m + Gap
<1>1. PICK s \in Scenes : Away(s, m)
  BY DEF Cutaway, Away
<1>2. /\ N \in Nat /\ DOMAIN scene = 0 .. N - 1 /\ Gap \in Nat /\ m \in Nat
      /\ Changes(scene) = {i \in 1 .. N - 1 : scene[i] # scene[i - 1]}
  BY FramesAre, SongsAssumption
<1>3. ASSUME NEW i \in rest PROVE i \in Nat /\ m <= i /\ i <= m + Gap
  <2>1. i \in 1 .. N - 1 /\ scene[i] # scene[i - 1]
    BY <1>2
  <2>2. i \in 0 .. N - 1 /\ i - 1 \in 0 .. N - 1
    BY <1>2, <2>1
  <2>3. /\ i < m \/ i >= m + Gap => scene[i] = s
        /\ i - 1 < m \/ i - 1 >= m + Gap => scene[i - 1] = s
    BY <1>1, <1>2, <2>2 DEF Away
  <2> QED BY <1>2, <2>1, <2>3
<1>4. \A i, k \in rest : i - k <= Gap /\ i <= i
  BY <1>2, <1>3
<1>5. rest \subseteq m .. m + Gap
  BY <1>2, <1>3
<1> QED BY <1>4, <1>5 DEF Cluster

\* What is left of a long segment shows the scene around the cutaway.
LEMMA CutawayIsHidden ==
  ASSUME TypeOK, NEW s, NEW m, Away(s, m), NEW a \in Nat, NEW b \in 0 .. N, 2 * Gap < b - a
  PROVE  Rep(a, b) = {s}
<1> DEFINE K == a .. b - 1
           C == K \cap (m .. m + Gap - 1)
           Showing(t) == {i \in K : scene[i] = t}
<1>1. /\ N \in Nat /\ DOMAIN scene = 0 .. N - 1 /\ Gap \in Nat /\ m \in Nat /\ b \in Nat
      /\ s \in Scenes
  BY FramesAre, SongsAssumption DEF Away
<1>2. IsFiniteSet(K) /\ Cardinality(K) = b - a /\ K \subseteq DOMAIN scene
  <2>1. b - 1 \in Int /\ ~(a > b - 1) /\ (b - 1) - a + 1 = b - a
    BY <1>1
  <2> QED BY <1>1, <2>1, FS_Interval
<1>3. \A i \in K \ C : scene[i] = s
  BY <1>1, <1>2 DEF Away
<1> HIDE DEF K
<1>4. IsFiniteSet(C) /\ Cardinality(C) <= Gap /\ Cardinality(C) \in Nat
  <2>1. IsFiniteSet(m .. m + Gap - 1) /\ Cardinality(m .. m + Gap - 1) = Gap
    <3> DEFINE z == m + Gap - 1
    <3>1. m \in Int /\ z \in Int /\ (m > z => Gap = 0) /\ z - m + 1 = Gap
      BY <1>1
    <3> HIDE DEF z
    <3>2. IsFiniteSet(m .. z) /\ Cardinality(m .. z) = IF m > z THEN 0 ELSE z - m + 1
      BY <3>1, FS_Interval
    <3>3. IsFiniteSet(m .. z) /\ Cardinality(m .. z) = Gap
      BY <3>1, <3>2
    <3> QED BY <3>3 DEF z
  <2>2. C \in SUBSET (m .. m + Gap - 1)
    OBVIOUS
  <2> HIDE DEF C
  <2>3. IsFiniteSet(C) /\ Cardinality(C) <= Cardinality(m .. m + Gap - 1)
    BY <2>1, <2>2, FS_Subset
  <2>4. Cardinality(C) \in Nat
    BY <2>3, FS_CardinalityType
  <2> QED BY <2>1, <2>3, <2>4
<1>5. IsFiniteSet(K \ C) /\ Cardinality(K \ C) = Cardinality(K) - Cardinality(C)
  <2>1. C \cap (K \ C) = {} /\ C \cup (K \ C) = K
    OBVIOUS
  <2>2. K \ C \in SUBSET K
    OBVIOUS
  <2>3. IsFiniteSet(K \ C)
    BY <1>2, <2>2, FS_Subset
  <2>4. Cardinality(K) = Cardinality(C) + Cardinality(K \ C) - Cardinality({})
    <3> HIDE DEF C
    <3> QED BY <1>4, <2>1, <2>3, FS_Union
  <2>5. Cardinality({}) = 0 /\ Cardinality(K \ C) \in Nat
    BY <2>3, FS_EmptySet, FS_CardinalityType
  <2> QED BY <1>4, <2>3, <2>4, <2>5
<1>6. \A t : IsFiniteSet(Showing(t)) /\ Cardinality(Showing(t)) \in Nat
  <2>1. \A t : Showing(t) \in SUBSET K
    OBVIOUS
  <2> HIDE DEF Showing
  <2> QED BY <1>2, <2>1, FS_Subset, FS_CardinalityType
<1>7. 2 * Cardinality(Showing(s)) > b - a
  <2>1. K \ C \in SUBSET Showing(s)
    BY <1>3
  <2>2. Cardinality(K \ C) <= Cardinality(Showing(s))
    <3> HIDE DEF Showing, C
    <3> QED BY <1>6, <2>1, FS_Subset
  <2> HIDE DEF Showing, C
  <2> QED BY <1>1, <1>2, <1>4, <1>5, <1>6, <2>2
<1>8. ASSUME NEW t, t # s
      PROVE  ~(2 * Cardinality(Showing(t)) > b - a)
  <2>1. Showing(t) \in SUBSET C
    BY <1>3, <1>8
  <2>2. Cardinality(Showing(t)) <= Cardinality(C)
    <3> HIDE DEF Showing, C
    <3> QED BY <1>4, <2>1, FS_Subset
  <2> HIDE DEF Showing, C
  <2> QED BY <1>1, <1>4, <1>6, <2>2
<1>9. Rep(a, b) = {t \in Scenes : 2 * Cardinality(Showing(t)) > b - a}
  BY DEF Rep, K
<1> HIDE DEF Showing
<1> QED BY <1>1, <1>7, <1>8, <1>9

\* When it leaves a boundary that nothing looks alike around, a song is short.
LEMMA CutawayIsShort ==
  ASSUME TypeOK, NEW m \in 0 .. N, Cutaway(m), NEW p, Interior = {p}, ~Alike(p)
  PROVE  \E a \in Starts : Length(a) < MinLen
<1>1. PICK s \in Scenes : Away(s, m)
  BY DEF Cutaway, Away
<1>2. /\ N \in Nat \ {0} /\ p \in 1 .. N - 1 /\ p \in Interior /\ p \in Starts
      /\ 0 \in bounds /\ 0 \in Starts /\ MinLen \in Nat /\ Gap \in Nat /\ 2 * Gap < MinLen
      /\ p \in bounds
  BY FramesAre, SongsAssumption DEF Interior, Starts
<1>3. Before(p) = 0
  <2>1. Before(p) \in Starts /\ Before(p) < p
    BY <1>2, PreviousBoundary
  <2>2. Before(p) \in Interior \cup {0}
    BY <2>1, NextIs
  <2> QED BY <1>2, <2>1, <2>2
<1>4. After(0) = p
  BY <1>2, <1>3, PreviousBoundary
<1>5. After(p) = N
  <2>1. After(p) \in Interior \cup {N} /\ p < After(p)
    BY <1>2, NextIs
  <2> QED BY <1>2, <2>1
<1> SUFFICES ASSUME ~(Length(0) < MinLen), ~(Length(p) < MinLen) PROVE FALSE
  BY <1>2
<1>6. 2 * Gap < p - 0 /\ 2 * Gap < N - p /\ p \in 0 .. N /\ N \in 0 .. N /\ p \in Nat /\ 0 \in Nat
  BY <1>2, <1>4, <1>5 DEF Length
<1>7. Left(p) = {s}
  BY <1>1, <1>3, <1>6, CutawayIsHidden DEF Left
<1>8. Right(p) = {s}
  BY <1>1, <1>5, <1>6, CutawayIsHidden DEF Right
<1> QED BY <1>7, <1>8 DEF Alike

-----------------------------------------------------------------------------
(* The boundaries of a steady video, and of one with a cutaway *)

\* Candidates are changes of scene, each its own, and none of them goes.
Found == Steady =>
  /\ pc = "cluster" => rest \cup Interior = Changes(scene)
  /\ pc # "cluster" => Interior = Changes(scene)

\* At most one candidate, at the cutaway, and unless the video is still it has the
\* same on both sides or is next to a short song.
Ignored == \A m \in 0 .. N : Cutaway(m) =>
  /\ Interior = {} \/ \E p \in m .. m + Gap : Interior = {p}
  /\ pc = "cluster" => Interior = {} \/ rest = {}
  /\ pc = "shorten" => still \/ \A p \in Interior : ~Alike(p)
  /\ pc = "done" => still \/ Interior = {}

Cuts == rest \subseteq Changes(scene) /\ Found /\ Ignored

LEMMA SameVideo ==
  ASSUME scene' = scene
  PROVE  /\ N' = N /\ Steady' = Steady /\ \A m : Cutaway(m)' = Cutaway(m)
         /\ Changes(scene)' = Changes(scene)
         /\ bounds' = bounds => Interior' = Interior /\ \A b : Alike(b)' = Alike(b)
         /\ \A b \in Interior : bounds' = bounds \ {b} => Interior' = Interior \ {b}
<1>1. N' = N /\ Changes(scene)' = Changes(scene)
  BY DEF N, Changes
<1>2. Steady' = Steady
  BY <1>1 DEF Steady
<1>3. \A m : Cutaway(m)' = Cutaway(m)
  BY <1>1 DEF Cutaway
<1>4. bounds' = bounds => Interior' = Interior /\ \A b : Alike(b)' = Alike(b)
  BY <1>1 DEF Interior, Alike, Left, Right, Rep, Before, After
<1>5. \A b \in Interior : bounds' = bounds \ {b} => Interior' = Interior \ {b}
  BY <1>1 DEF Interior
<1> QED BY <1>1, <1>2, <1>3, <1>4, <1>5

LEMMA InitCuts == Init => Cuts
<1> SUFFICES ASSUME Init PROVE Cuts
  OBVIOUS
<1>1. TypeOK /\ rest = Outliers(scene) /\ bounds = {0, N} /\ pc = "cluster"
  BY InitHolds DEF IInv, Init
<1>2. rest \subseteq Changes(scene) /\ Interior = {}
  BY <1>1 DEF Outliers, Interior
<1>3. Found
  BY <1>1, <1>2, ChangesAreFew DEF Found
<1> QED BY <1>1, <1>2, <1>3 DEF Cuts, Ignored

LEMMA NextCuts == IInv /\ Cuts /\ [Next]_vars => Cuts'
<1> SUFFICES ASSUME IInv, Cuts, [Next]_vars PROVE Cuts'
  OBVIOUS
<1>0. TypeOK /\ rest \subseteq Changes(scene) /\ Found /\ Ignored
  BY DEF IInv, Cuts
<1>1. CASE TakeCluster
  <2>1. PICK peak \in Cluster(rest) : bounds' = bounds \cup {peak}
    BY <1>1 DEF TakeCluster
  <2>2. /\ pc = "cluster" /\ pc' = pc /\ rest # {} /\ rest' = rest \ Cluster(rest)
        /\ scene' = scene /\ still' = still
    BY <1>1 DEF TakeCluster
  <2>3. peak \in rest /\ peak \in 1 .. N - 1 /\ N \in Nat
    BY <1>0, <2>1, FramesAre DEF Cluster
  <2>4. /\ N' = N /\ Steady' = Steady /\ (\A m : Cutaway(m)' = Cutaway(m))
        /\ Changes(scene)' = Changes(scene)
    BY <2>2, SameVideo
  <2>5. Interior' = Interior \cup {peak}
    BY <2>1, <2>3, <2>4 DEF Interior
  <2>6. Found'
    <3>1. Steady => Cluster(rest) = {peak}
      BY <1>0, <2>1, ClustersAreSingle
    <3>2. Steady => rest' \cup Interior' = rest \cup Interior
      BY <2>2, <2>3, <2>5, <3>1
    <3> QED BY <1>0, <2>2, <2>4, <3>2 DEF Found
  <2>7. Ignored'
    <3>1. ASSUME NEW m \in 0 .. N, Cutaway(m)
          PROVE  rest' = {} /\ Interior' = {peak} /\ peak \in m .. m + Gap
      <4>1. Cluster(rest) = rest /\ rest \subseteq m .. m + Gap
        BY <1>0, <3>1, CutawayIsOneCluster
      <4>2. Interior = {}
        BY <1>0, <2>2, <3>1 DEF Ignored
      <4> QED BY <2>2, <2>3, <2>5, <4>1, <4>2
    <3> QED BY <2>2, <2>4, <3>1 DEF Ignored
  <2> QED BY <1>0, <2>2, <2>4, <2>6, <2>7 DEF Cuts
<1>2. CASE Clustered
  <2>1. /\ N' = N /\ Steady' = Steady /\ (\A m : Cutaway(m)' = Cutaway(m))
        /\ Changes(scene)' = Changes(scene) /\ Interior' = Interior
    BY <1>2, SameVideo DEF Clustered
  <2> QED BY <1>0, <1>2, <2>1 DEF Cuts, Found, Ignored, Clustered
<1>3. ASSUME NEW b \in Interior, bounds' = bounds \ {b}, UNCHANGED <<scene, still, rest, pc>>,
             pc \in {"merge", "shorten"}, ~Steady
      PROVE  Cuts'
  <2>1. /\ N' = N /\ Steady' = Steady /\ (\A m : Cutaway(m)' = Cutaway(m))
        /\ Changes(scene)' = Changes(scene) /\ Interior' = Interior \ {b}
    BY <1>3, SameVideo
  <2>2. \A m \in 0 .. N : Cutaway(m) => Interior' = {}
    BY <1>0, <1>3, <2>1 DEF Ignored
  <2> QED BY <1>0, <1>3, <2>1, <2>2 DEF Cuts, Found, Ignored
<1>4. CASE Merge
  <2>1. PICK b \in Interior : ~Unlike(b) /\ bounds' = bounds \ {b}
    BY <1>4 DEF Merge
  <2>2. UNCHANGED <<scene, still, rest, pc>> /\ pc = "merge"
    BY <1>4 DEF Merge
  <2>3. ~Steady
    BY <1>0, <2>1, <2>2, ChangeDivides DEF Found
  <2> QED BY <1>3, <2>1, <2>2, <2>3
<1>5. CASE Merged
  <2>1. /\ N' = N /\ Steady' = Steady /\ (\A m : Cutaway(m)' = Cutaway(m))
        /\ Changes(scene)' = Changes(scene)
        /\ Interior' = Interior /\ \A b : Alike(b)' = Alike(b)
    BY <1>5, SameVideo DEF Merged
  <2> QED BY <1>0, <1>5, <2>1 DEF Cuts, Found, Ignored, Merged
<1>6. CASE Shorten
  <2>1. /\ Shortest \in Starts /\ Length(Shortest) < MinLen
        /\ UNCHANGED <<scene, still, rest, pc>> /\ pc = "shorten"
    BY <1>0, <1>6, FramesAre, ShortestIsShortest DEF Shorten
  <2>2. ~Steady
    <3>1. Length(Shortest) \in Nat /\ MinLen \in Nat
      BY <1>0, <2>1, FramesAre, LengthType, SongsAssumption
    <3>2. Steady => Length(Shortest) >= MinLen
      BY <1>0, <2>1, SegmentsAreLong DEF Found
    <3> QED BY <2>1, <3>1, <3>2
  <2>3. PICK b \in Interior : bounds' = bounds \ {b}
    BY <1>0, <1>6, ShortenDropsInterior
  <2> QED BY <1>3, <2>1, <2>2, <2>3
<1>7. CASE Segmented
  <2>1. /\ N' = N /\ Steady' = Steady /\ (\A m : Cutaway(m)' = Cutaway(m))
        /\ Changes(scene)' = Changes(scene)
        /\ Interior' = Interior
    BY <1>7, SameVideo DEF Segmented
  <2>2. ASSUME NEW m \in 0 .. N, Cutaway(m), ~still, Interior # {} PROVE FALSE
    <3>1. PICK p : Interior = {p}
      BY <1>0, <2>2 DEF Ignored
    <3>2. ~Alike(p) /\ Length(Shortest) >= MinLen
      BY <1>0, <1>7, <2>2, <3>1 DEF Ignored, Segmented
    <3>3. PICK a \in Starts : Length(a) < MinLen
      BY <1>0, <2>2, <3>1, <3>2, CutawayIsShort
    <3>4. Length(Shortest) <= Length(a) /\ Shortest \in Starts
      BY <1>0, FramesAre, ShortestIsShortest
    <3>5. Length(Shortest) \in Nat /\ Length(a) \in Nat /\ MinLen \in Nat
      BY <1>0, <3>4, FramesAre, LengthType, SongsAssumption
    <3> QED BY <3>2, <3>3, <3>4, <3>5
  <2> QED BY <1>0, <1>7, <2>1, <2>2 DEF Cuts, Found, Ignored, Segmented
<1>8. CASE Finished \/ UNCHANGED vars
  <2>1. UNCHANGED <<scene, still, rest, bounds, pc>>
    BY <1>8 DEF Finished, vars
  <2>2. /\ N' = N /\ Steady' = Steady /\ (\A m : Cutaway(m)' = Cutaway(m))
        /\ Changes(scene)' = Changes(scene)
        /\ Interior' = Interior /\ \A b : Alike(b)' = Alike(b)
    BY <2>1, SameVideo
  <2> QED BY <1>0, <2>1, <2>2 DEF Cuts, Found, Ignored
<1> QED BY <1>1, <1>2, <1>4, <1>5, <1>6, <1>7, <1>8 DEF Next

-----------------------------------------------------------------------------
(* The segmentation as the last stage of an analysis *)

SongStages == {"cluster", "merge", "shorten", "done"}

\* From the moment the video is opened for it.
Segmenting == pc \in SongStages => IInv /\ Cuts

\* A stage that is not one of the segmentation leads to another such.
LEMMA OtherStages ==
  ASSUME MatchProfile \/ Sample \/ DetectRegion \/ ReportAdvance
         \/ (\E d \in Vectors : Measure(d)) \/ Classify \/ ReportSongs
  PROVE  pc' \notin SongStages
BY DEF MatchProfile, Sample, DetectRegion, ReportAdvance, Measure, Classify, ReportSongs,
       Goto, Modes, SongStages, vars

LEMMA StepSegmenting ==
  Segmenting /\ [AnalysisNext]_<<vars, detection>> => Segmenting'
<1> SUFFICES ASSUME Segmenting, [AnalysisNext]_<<vars, detection>> PROVE Segmenting'
  OBVIOUS
<1>1. CASE MatchProfile \/ Sample \/ DetectRegion \/ ReportAdvance
           \/ (\E d \in Vectors : Measure(d)) \/ Classify \/ ReportSongs
  BY <1>1, OtherStages DEF Segmenting
<1>2. CASE OpenVideo
  <2>1. PICK n \in 1 .. MaxFrames : scene' \in [0 .. n - 1 -> Scenes]
    BY <1>2 DEF OpenVideo
  <2>2. N' = Cardinality(DOMAIN scene')
    BY DEF N
  <2>3. Init'
    BY <1>2, <2>1, <2>2 DEF OpenVideo, Init
  <2>4. (Init => IInv)'
    BY InitHolds, PTL
  <2>5. (Init => Cuts)'
    BY InitCuts, PTL
  <2> QED BY <2>3, <2>4, <2>5 DEF Segmenting
<1>3. CASE SegmentSongs
  <2>1. Next
    BY <1>3 DEF SegmentSongs
  <2>2. pc \in SongStages
    BY <2>1 DEF Next, TakeCluster, Clustered, Merge, Merged, Shorten, Segmented, Finished, SongStages
  <2> QED BY <2>1, <2>2, NextHolds, NextCuts DEF Segmenting
<1>4. CASE Failed \/ UNCHANGED <<vars, detection>>
  <2>1. UNCHANGED vars /\ pc' = pc
    BY <1>4 DEF Failed, vars
  <2> QED BY <2>1, NextHolds, NextCuts DEF Segmenting
<1> QED BY <1>1, <1>2, <1>3, <1>4 DEF AnalysisNext

LEMMA AlwaysSegmenting == AnalysisSpec => []Segmenting
<1>1. AnalysisInit => Segmenting
  BY DEF AnalysisInit, Segmenting, SongStages
<1> QED BY <1>1, StepSegmenting, PTL DEF AnalysisSpec

(* Whatever the stages before it came to, a video in which every scene      *)
(* stays as long as a song lasts is cut where the scene changes and nowhere *)
(* else: no two changes are in one cluster, no boundary has the same scene  *)
(* on both sides, and no segment is short (songs.py:86-136).                *)
THEOREM SongsAreFound == AnalysisSpec => []SongsFound
<1>1. Segmenting => SongsFound
  BY DEF Segmenting, SongStages, Cuts, Found, SongsFound
<1> QED BY <1>1, AlwaysSegmenting, PTL

(* A cutaway of at most Gap frames leaves a single boundary, at the cutaway; *)
(* and unless the video is still that goes, because it has the same on both *)
(* sides or is too close to an end of the video (songs.py:86-136).          *)
THEOREM CutawayIsIgnored == AnalysisSpec => []CutawayIgnored
<1>1. Segmenting => CutawayIgnored
  BY DEF Segmenting, SongStages, Cuts, Ignored, CutawayIgnored
<1> QED BY <1>1, AlwaysSegmenting, PTL

-----------------------------------------------------------------------------
(* Bags of what was seen: counting, ranks and medians                       *)

\* A bag, or any other finite function to the naturals.
Weights(B) == IsFiniteSet(DOMAIN B) /\ B \in [DOMAIN B -> Nat]

(* A count is a number, because the copies are finite in number.            *)
LEMMA CountType ==
  ASSUME NEW B, Weights(B), NEW S \in SUBSET DOMAIN B
  PROVE  IsFiniteSet(Copies(B, S)) /\ Count(B, S) \in Nat
<1> DEFINE Of(x) == {x} \X (1 .. B[x])
           f == [x \in S |-> Of(x)]
           T == {Of(x) : x \in S}
<1>1. IsFiniteSet(S)
  BY FS_Subset DEF Weights
<1>2. f \in Surjection(S, T)
  BY DEF Surjection
<1>3. IsFiniteSet(T)
  BY <1>1, <1>2, FS_Surjection
<1>4. \A x \in S : IsFiniteSet(Of(x))
  <2> TAKE x \in S
  <2>1. IsFiniteSet({x})
    BY FS_Singleton
  <2>2. B[x] \in Nat
    BY DEF Weights
  <2>3. IsFiniteSet(1 .. B[x])
    BY <2>2, FS_Interval
  <2> QED BY <2>1, <2>3, FS_Product
<1>5. \A s \in T : IsFiniteSet(s)
  BY <1>4
<1> HIDE DEF T
<1>6. IsFiniteSet(UNION T)
  BY <1>3, <1>5, FS_UNION
<1>7. UNION T = Copies(B, S)
  BY DEF T, Copies
<1> QED BY <1>6, <1>7, FS_CardinalityType DEF Count

(* More members, no fewer copies.                                           *)
LEMMA CountGrows ==
  ASSUME NEW B, Weights(B), NEW T \in SUBSET DOMAIN B, NEW S \in SUBSET T
  PROVE  Count(B, S) <= Count(B, T)
<1>1. Copies(B, S) \subseteq Copies(B, T)
  BY DEF Copies
<1>2. IsFiniteSet(Copies(B, T))
  BY CountType
<1> QED BY <1>1, <1>2, FS_Subset DEF Count

(* Counts of disjoint sets of members add up.                               *)
LEMMA CountAdds ==
  ASSUME NEW B, Weights(B), NEW S \in SUBSET DOMAIN B, NEW T \in SUBSET DOMAIN B,
         S \cap T = {}
  PROVE  Count(B, S \cup T) = Count(B, S) + Count(B, T)
<1>1. Copies(B, S \cup T) = Copies(B, S) \cup Copies(B, T)
  BY DEF Copies
<1>2. Copies(B, S) \cap Copies(B, T) = {}
  BY DEF Copies
<1>3. IsFiniteSet(Copies(B, S)) /\ IsFiniteSet(Copies(B, T))
  BY CountType
<1>4. Cardinality(Copies(B, S)) \in Nat /\ Cardinality(Copies(B, T)) \in Nat
  BY <1>3, FS_CardinalityType
<1>5. Cardinality(Copies(B, S) \cup Copies(B, T))
      = Cardinality(Copies(B, S)) + Cardinality(Copies(B, T))
        - Cardinality(Copies(B, S) \cap Copies(B, T))
  BY <1>3, FS_Union
<1>6. Cardinality(Copies(B, S) \cap Copies(B, T)) = 0
  BY <1>2, FS_EmptySet
<1>7. Count(B, S \cup T) = Cardinality(Copies(B, S) \cup Copies(B, T))
  BY <1>1, Zenon DEF Count
<1> QED BY <1>4, <1>5, <1>6, <1>7 DEF Count

(* A count is 0 when no member of the set has a copy.                       *)
LEMMA CountZero ==
  ASSUME NEW B, Weights(B), NEW S \in SUBSET DOMAIN B
  PROVE  Count(B, S) = 0 <=> \A x \in S : B[x] = 0
<1>1. IsFiniteSet(Copies(B, S))
  BY CountType
<1>2. Count(B, S) = 0 <=> Copies(B, S) = {}
  BY <1>1, FS_EmptySet DEF Count
<1>3. \A x \in S : B[x] \in Nat
  BY DEF Weights
<1>4. Copies(B, S) = {} <=> \A x \in S : B[x] = 0
  <2>1. ASSUME NEW x \in S, B[x] # 0 PROVE <<x, 1>> \in Copies(B, S)
    <3>1. 1 \in 1 .. B[x]
      BY <1>3, <2>1
    <3> QED BY <3>1 DEF Copies
  <2>2. ASSUME NEW c \in Copies(B, S) PROVE \E x \in S : B[x] # 0
    <3>1. PICK x \in S : c \in {x} \X (1 .. B[x])
      BY DEF Copies
    <3>2. c[2] \in 1 .. B[x]
      BY <3>1
    <3> QED BY <1>3, <3>2
  <2> QED BY <2>1, <2>2
<1> QED BY <1>2, <1>4

-----------------------------------------------------------------------------
(* Finitely many naturals are bounded. *)
LEMMA FiniteIsBounded ==
  ASSUME NEW S \in SUBSET Nat, IsFiniteSet(S)
  PROVE  \E m \in Nat : \A x \in S : x <= m
<1>1. PICK n \in Nat : ExistsBijection(1 .. n, S)
  BY FS_NatBijection
<1>2. PICK f : f \in Bijection(1 .. n, S)
  BY <1>1 DEF ExistsBijection
<1>3. f \in [1 .. n -> S] /\ \A x \in S : \E i \in 1 .. n : f[i] = x
  BY <1>2 DEF Bijection, Injection, Surjection
<1> DEFINE Bounds(k) == {m \in Nat : \A i \in 1 .. k : f[i] <= m}
           Wrong == {k \in 0 .. n : Bounds(k) = {}}
<1>4. \A i \in 1 .. n : f[i] \in Nat
  BY <1>3
<1>5. Wrong = {}
  <2> SUFFICES ASSUME Wrong # {} PROVE FALSE
    OBVIOUS
  <2>1. Wrong \subseteq Nat
    OBVIOUS
  <2>2. PICK k \in Wrong : \A j \in Wrong : k <= j
    <3> HIDE DEF Wrong
    <3> QED BY <2>1, LeastMember
  <2>3. k \in 0 .. n /\ Bounds(k) = {}
    BY <2>2
  <2>4. k # 0
    <3>1. 0 \in Bounds(0)
      OBVIOUS
    <3> QED BY <2>3, <3>1
  <2>5. k - 1 \in 0 .. n /\ Bounds(k - 1) # {}
    <3>1. k - 1 \in 0 .. n /\ ~ (k <= k - 1)
      BY <2>3, <2>4
    <3> HIDE DEF Bounds
    <3> QED BY <2>2, <3>1
  <2>6. PICK m \in Nat : \A i \in 1 .. k - 1 : f[i] <= m
    BY <2>5
  <2>7. k \in 1 .. n /\ f[k] \in Nat
    BY <1>4, <2>3, <2>4
  <2>8. m + f[k] \in Nat
    BY <2>6, <2>7
  <2>9. ASSUME NEW i \in 1 .. k PROVE f[i] <= m + f[k]
    <3>1. CASE i = k
      BY <2>6, <2>7, <3>1
    <3>2. CASE i # k
      <4>1. i \in 1 .. k - 1 /\ i \in 1 .. n
        BY <2>7, <3>2
      <4>2. f[i] <= m /\ f[i] \in Nat
        BY <1>4, <2>6, <4>1
      <4> QED BY <2>6, <2>7, <4>2
    <3> QED BY <3>1, <3>2
  <2>10. m + f[k] \in Bounds(k)
    BY <2>8, <2>9
  <2> QED BY <2>3, <2>10
<1>6. Bounds(n) # {}
  <2>1. n \in 0 .. n
    OBVIOUS
  <2> HIDE DEF Bounds
  <2> QED BY <1>5, <2>1
<1>7. PICK m \in Nat : \A i \in 1 .. n : f[i] <= m
  BY <1>6
<1> QED BY <1>3, <1>7

\* A bag with something in it, and what each member counts for.
Valued(B, f) == Weights(B) /\ f \in [DOMAIN B -> Nat]

(* There is a value of each rank: the least one that enough members do not  *)
(* exceed.                                                                  *)
LEMMA RankedIs ==
  ASSUME NEW B, NEW f, Valued(B, f), NEW k \in 1 .. Number(B)
  PROVE  LET r == Ranked(B, f, k) IN
         /\ r \in Nat
         /\ Below(f, r) \subseteq DOMAIN B /\ UpTo(f, r) \subseteq DOMAIN B
         /\ Count(B, Below(f, r)) < k /\ k <= Count(B, UpTo(f, r))
<1> DEFINE V == {f[x] : x \in DOMAIN B}
           T == {t \in Nat : k <= Count(B, UpTo(f, t))}
<1>1. /\ Weights(B) /\ DOMAIN f = DOMAIN B /\ \A x \in DOMAIN B : f[x] \in Nat
      /\ V \in SUBSET Nat
  BY DEF Valued
<1>2. \A v : Below(f, v) \in SUBSET DOMAIN B /\ UpTo(f, v) \in SUBSET DOMAIN B
  BY <1>1 DEF Below, UpTo
<1>3. /\ Number(B) \in Nat /\ k \in Nat /\ 1 <= k /\ k <= Count(B, DOMAIN B)
      /\ \A v : Count(B, Below(f, v)) \in Nat /\ Count(B, UpTo(f, v)) \in Nat
  BY <1>1, <1>2, CountType DEF Number
<1>4. T # {}
  <2>1. f \in Surjection(DOMAIN B, V)
    BY <1>1 DEF Surjection, Valued
  <2>2. IsFiniteSet(V)
    BY <1>1, <2>1, FS_Surjection DEF Weights
  <2> HIDE DEF V
  <2>3. PICK m \in Nat : \A v \in V : v <= m
    BY <1>1, <2>2, FiniteIsBounded
  <2>4. UpTo(f, m) = DOMAIN B
    BY <1>1, <2>3 DEF UpTo, V
  <2> QED BY <1>3, <2>4
<1>5. PICK r \in T : \A t \in T : r <= t
  BY <1>4, LeastMember
<1>6. r \in Nat /\ k <= Count(B, UpTo(f, r))
  BY <1>5
<1>7. Count(B, {}) = 0
  BY <1>1, CountZero
<1>8. Count(B, Below(f, r)) < k
  <2>1. CASE r = 0
    <3>1. Below(f, r) = {}
      BY <1>1, <2>1 DEF Below
    <3> QED BY <1>3, <1>7, <3>1
  <2>2. CASE r # 0
    <3>1. r - 1 \in Nat /\ r - 1 \notin T
      BY <1>5, <1>6, <2>2
    <3>2. Below(f, r) = UpTo(f, r - 1)
      BY <1>1, <1>6 DEF Below, UpTo
    <3> QED BY <1>3, <3>1, <3>2
  <2> QED BY <2>1, <2>2
<1>9. r \in V
  <2> SUFFICES ASSUME r \notin V PROVE FALSE
    OBVIOUS
  <2>1. UpTo(f, r) = Below(f, r)
    BY <1>1, <1>6 DEF UpTo, Below
  <2> QED BY <1>3, <1>6, <1>8, <2>1
<1>10. \E v \in V : Count(B, Below(f, v)) < k /\ k <= Count(B, UpTo(f, v))
  BY <1>6, <1>8, <1>9
<1> HIDE DEF T
<1>11. /\ Ranked(B, f, k) \in V /\ Count(B, Below(f, Ranked(B, f, k))) < k
       /\ k <= Count(B, UpTo(f, Ranked(B, f, k)))
  BY <1>10 DEF Ranked
<1> QED BY <1>1, <1>2, <1>11

(* The two in the middle.                                                   *)
LEMMA MiddleRanks ==
  ASSUME NEW n \in Nat, n > 0
  PROVE  (n + 1) \div 2 \in 1 .. n /\ n \div 2 + 1 \in 1 .. n
OBVIOUS

(* No set of members counts more than all.                                  *)
LEMMA NumberIs ==
  ASSUME NEW B, Weights(B)
  PROVE  /\ Number(B) \in Nat
         /\ \A S \in SUBSET DOMAIN B : Count(B, S) \in Nat /\ Count(B, S) <= Number(B)
<1>1. DOMAIN B \in SUBSET DOMAIN B
  OBVIOUS
<1> QED BY <1>1, CountType, CountGrows DEF Number

(* The median is the sum of the values of two ranks near the middle.        *)
LEMMA MedianIs ==
  ASSUME NEW B, NEW f, Valued(B, f), Number(B) > 0
  PROVE  \E j, k \in 1 .. Number(B) :
           /\ Number(B) <= 2 * j /\ 2 * j <= Number(B) + 2
           /\ Number(B) <= 2 * k /\ 2 * k <= Number(B) + 2
           /\ Median2(B, f) = Ranked(B, f, j) + Ranked(B, f, k)
           /\ j = (Number(B) + 1) \div 2 /\ k = Number(B) \div 2 + 1
           /\ Ranked(B, f, j) \in Nat /\ Ranked(B, f, k) \in Nat
<1> DEFINE n == Number(B)
           j == (n + 1) \div 2
           k == n \div 2 + 1
<1>1. n \in Nat /\ n > 0
  BY NumberIs DEF Valued
<1>2. Median2(B, f) = Ranked(B, f, j) + Ranked(B, f, k)
  BY DEF Median2
<1> HIDE DEF n
<1>3. /\ j \in 1 .. n /\ k \in 1 .. n
      /\ n <= 2 * j /\ 2 * j <= n + 2 /\ n <= 2 * k /\ 2 * k <= n + 2
  BY <1>1
<1> HIDE DEF j, k
<1>4. Ranked(B, f, j) \in Nat /\ Ranked(B, f, k) \in Nat
  BY <1>3, RankedIs DEF n
<1> QED BY <1>2, <1>3, <1>4 DEF n, j, k

(* What most members of a bag do not exceed, its median does not exceed; and  *)
(* what they reach, it reaches.                                              *)
LEMMA RankedFollowsMost ==
  ASSUME NEW B, NEW f, Valued(B, f), NEW S \in SUBSET DOMAIN B,
         2 * Count(B, S) > Number(B), NEW c \in Nat, NEW k \in 1 .. Number(B)
  PROVE  /\ (\A x \in S : f[x] <= c) /\ 2 * k <= Number(B) + 2 => Ranked(B, f, k) <= c
         /\ (\A x \in S : f[x] >= c) /\ 2 * k >= Number(B) => Ranked(B, f, k) >= c
<1> DEFINE r == Ranked(B, f, k)
<1>1. /\ r \in Nat
      /\ Below(f, r) \in SUBSET DOMAIN B /\ UpTo(f, r) \in SUBSET DOMAIN B
      /\ Count(B, Below(f, r)) < k /\ k <= Count(B, UpTo(f, r))
  BY RankedIs
<1> HIDE DEF r
<1>2. /\ Weights(B) /\ DOMAIN f = DOMAIN B /\ \A x \in DOMAIN B : f[x] \in Nat
      /\ Number(B) \in Nat /\ Count(B, S) \in Nat
      /\ Count(B, Below(f, r)) \in Nat /\ Count(B, UpTo(f, r)) \in Nat
  BY <1>1, NumberIs DEF Valued
<1>3. ASSUME \A x \in S : f[x] <= c, 2 * k <= Number(B) + 2, r > c PROVE FALSE
  <2>1. S \subseteq Below(f, r)
    BY <1>1, <1>2, <1>3 DEF Below
  <2>2. Count(B, S) <= Count(B, Below(f, r))
    BY <1>1, <1>2, <2>1, CountGrows
  <2> QED BY <1>1, <1>2, <1>3, <2>2
<1>4. ASSUME \A x \in S : f[x] >= c, 2 * k >= Number(B), r < c PROVE FALSE
  <2>1. S \cap UpTo(f, r) = {}
    BY <1>1, <1>2, <1>4 DEF UpTo
  <2>2. Count(B, S \cup UpTo(f, r)) = Count(B, S) + Count(B, UpTo(f, r))
    BY <1>1, <1>2, <2>1, CountAdds
  <2>3. Count(B, S \cup UpTo(f, r)) <= Number(B)
    BY <1>1, <1>2, NumberIs
  <2> QED BY <1>1, <1>2, <1>4, <2>2, <2>3
<1> QED BY <1>1, <1>3, <1>4 DEF r

(* So does the median.                                                      *)
LEMMA MedianFollowsMost ==
  ASSUME NEW B, NEW f, Valued(B, f), NEW S \in SUBSET DOMAIN B,
         2 * Count(B, S) > Number(B), NEW c \in Nat
  PROVE  /\ Median2(B, f) \in Nat
         /\ (\A x \in S : f[x] <= c) => Median2(B, f) <= 2 * c
         /\ (\A x \in S : f[x] >= c) => Median2(B, f) >= 2 * c
<1>1. Number(B) \in Nat /\ Count(B, S) \in Nat /\ Count(B, S) <= Number(B)
  BY NumberIs DEF Valued
<1>2. Number(B) > 0
  BY <1>1
<1>3. PICK j, k \in 1 .. Number(B) :
           /\ Number(B) <= 2 * j /\ 2 * j <= Number(B) + 2
           /\ Number(B) <= 2 * k /\ 2 * k <= Number(B) + 2
           /\ Median2(B, f) = Ranked(B, f, j) + Ranked(B, f, k)
           /\ Ranked(B, f, j) \in Nat /\ Ranked(B, f, k) \in Nat
  BY <1>2, MedianIs
<1>4. ASSUME \A x \in S : f[x] <= c PROVE Median2(B, f) <= 2 * c
  <2>1. Ranked(B, f, j) <= c /\ Ranked(B, f, k) <= c
    BY <1>3, <1>4, RankedFollowsMost
  <2> QED BY <1>3, <2>1
<1>5. ASSUME \A x \in S : f[x] >= c PROVE Median2(B, f) >= 2 * c
  <2>1. Ranked(B, f, j) >= c /\ Ranked(B, f, k) >= c
    <3>1. 2 * j >= Number(B) /\ 2 * k >= Number(B)
      BY <1>1, <1>3
    <3> QED BY <1>5, <3>1, RankedFollowsMost
  <2> QED BY <1>3, <2>1
<1> QED BY <1>3, <1>4, <1>5

(* Medians of values that are apart are as far apart.                       *)
LEMMA MediansApart ==
  ASSUME NEW B, NEW f, NEW g, Valued(B, f), Valued(B, g), Number(B) > 0,
         NEW c \in Nat, \A x \in DOMAIN B : g[x] >= f[x] + c
  PROVE  Median2(B, g) >= Median2(B, f) + 2 * c
<1>1. ASSUME NEW k \in 1 .. Number(B) PROVE Ranked(B, g, k) >= Ranked(B, f, k) + c
  <2> DEFINE r == Ranked(B, f, k)
             s == Ranked(B, g, k)
  <2>1. /\ r \in Nat /\ s \in Nat
        /\ Below(f, r) \in SUBSET DOMAIN B /\ UpTo(g, s) \in SUBSET DOMAIN B
        /\ Count(B, Below(f, r)) < k /\ k <= Count(B, UpTo(g, s))
    BY RankedIs
  <2> HIDE DEF r, s
  <2>2. /\ Weights(B) /\ DOMAIN f = DOMAIN B /\ DOMAIN g = DOMAIN B
        /\ \A x \in DOMAIN B : f[x] \in Nat /\ g[x] \in Nat
        /\ Count(B, Below(f, r)) \in Nat /\ Count(B, UpTo(g, s)) \in Nat
    BY <2>1, NumberIs DEF Valued
  <2>3. ASSUME s < r + c PROVE FALSE
    <3>1. UpTo(g, s) \subseteq Below(f, r)
      BY <2>1, <2>2, <2>3 DEF UpTo, Below
    <3>2. Count(B, UpTo(g, s)) <= Count(B, Below(f, r))
      BY <2>1, <2>2, <3>1, CountGrows
    <3> QED BY <2>1, <2>2, <3>2
  <2> QED BY <2>1, <2>3 DEF r, s
<1> DEFINE n == Number(B)
           j == (n + 1) \div 2
           k == n \div 2 + 1
<1>2. n \in Nat /\ n > 0
  BY NumberIs DEF Valued
<1>3. /\ Median2(B, f) = Ranked(B, f, j) + Ranked(B, f, k)
      /\ Median2(B, g) = Ranked(B, g, j) + Ranked(B, g, k)
  BY DEF Median2
<1>4. j \in 1 .. n /\ k \in 1 .. n
  <2> HIDE DEF n
  <2> QED BY <1>2, MiddleRanks
<1> HIDE DEF j, k
<1>5. /\ Ranked(B, f, j) \in Nat /\ Ranked(B, f, k) \in Nat
      /\ Ranked(B, g, j) \in Nat /\ Ranked(B, g, k) \in Nat
  BY <1>4, RankedIs
<1>6. Ranked(B, g, j) >= Ranked(B, f, j) + c /\ Ranked(B, g, k) >= Ranked(B, f, k) + c
  BY <1>1, <1>4
<1> QED BY <1>3, <1>5, <1>6

\* Rounding keeps the order and shifts of an even number.
LEMMA Rounding ==
  ASSUME NEW m \in Nat, NEW p \in Nat, NEW c \in Nat, c % 2 = 0, p >= m + 2 * c
  PROVE  /\ HalfEven(m) \in Nat
         /\ HalfEven(p) >= HalfEven(m) + c
<1>1. PICK d \in Nat : c = 2 * d
  <2>1. c = 2 * (c \div 2) /\ c \div 2 \in Nat
    OBVIOUS
  <2> QED BY <2>1
<1> QED BY <1>1 DEF HalfEven

\* A whole number is not rounded.
LEMMA RoundingExact ==
  ASSUME NEW c \in Nat
  PROVE  HalfEven(2 * c) = c
BY DEF HalfEven

(* Of the naturals of a set that are below n one is the last.               *)
LEMMA LastBefore ==
  ASSUME NEW T \in SUBSET Nat, NEW n \in Nat, \E x \in T : x < n
  PROVE  \E p \in T : p < n /\ \A y \in T : y < n => y <= p
<1> DEFINE D == {d \in Nat : \E x \in T : x < n /\ d = n - x}
<1>1. D # {} /\ D \subseteq Nat
  <2>1. PICK x \in T : x < n
    OBVIOUS
  <2>2. n - x \in D
    BY <2>1
  <2> QED BY <2>2
<1>2. PICK d \in D : \A e \in D : d <= e
  <2> HIDE DEF D
  <2> QED BY <1>1, LeastMember
<1>3. PICK p \in T : p < n /\ d = n - p
  BY <1>2
<1>4. ASSUME NEW y \in T, y < n PROVE y <= p
  <2>1. n - y \in D
    BY <1>4
  <2>2. d <= n - y
    <3> HIDE DEF D
    <3> QED BY <1>2, <2>1
  <2> QED BY <1>3, <2>2
<1> QED BY <1>3, <1>4

-----------------------------------------------------------------------------
(* The box of a frame                                                       *)

\* What can be a region.
Places == {s \in Line \X (1 .. Side) \X Line \X (1 .. Side) :
             s[2] - s[1] >= MinSide /\ s[4] - s[3] >= MinSide}

(* Rows and the constants are naturals.                                     *)
LEMMA SizesAre == /\ Side \in Nat /\ MaxGap \in Nat /\ MinSide \in Nat /\ MinSide > 0
                  /\ MinSide % 2 = 0
                  /\ Line \subseteq Nat /\ \A i \in Int : i \in Line <=> 0 <= i /\ i < Side
BY DetectionAssumption DEF Line

(* The ends of a run are naturals.                                          *)
LEMMA InFrame ==
  ASSUME NEW i \in Line, NEW k \in 1 .. Side
  PROVE  i \in Nat /\ k \in Nat
BY SizesAre

(* Where the paper shows, what crosses it is closed.                        *)
LEMMA ClosedFills ==
  ASSUME NEW mask \in SUBSET Line, NEW a \in Line, NEW b \in 1 .. Side,
         ShowsRun(mask, a, b), NEW i \in a .. b - 1
  PROVE  i \in Closed(mask)
<1>1. /\ a \in mask /\ b - 1 \in mask
      /\ \A j \in a .. b - 2 : \E k \in j + 1 .. j + 1 + MaxGap : k \in mask /\ k < b
  BY DEF ShowsRun
<1>2. mask \subseteq Nat /\ i \in Nat /\ a \in Nat /\ b \in Nat /\ MaxGap \in Nat /\ i \in Line
  BY SizesAre
<1>3. CASE i \in mask
  BY <1>3 DEF Closed
<1>4. CASE i \notin mask
  <2>1. a < i /\ i < b - 1
    BY <1>1, <1>2, <1>4
  <2>2. PICK p \in mask : p < i /\ \A y \in mask : y < i => y <= p
    BY <1>1, <1>2, <2>1, LastBefore
  <2>3. p \in a .. b - 2 /\ a <= p
    BY <1>1, <1>2, <2>1, <2>2
  <2>4. PICK k \in p + 1 .. p + 1 + MaxGap : k \in mask /\ k < b
    BY <1>1, <2>3
  <2>5. k > i
    BY <1>2, <1>4, <2>2, <2>4
  <2> DEFINE Later == {x \in mask : x > i}
  <2>6. PICK q \in Later : \A y \in Later : q <= y
    <3>1. Later # {} /\ Later \subseteq Nat
      BY <1>2, <2>4, <2>5
    <3> HIDE DEF Later
    <3> QED BY <3>1, LeastMember
  <2>7. q \in mask /\ i < q /\ q <= k
    BY <2>4, <2>5, <2>6
  <2>8. q - p - 1 <= MaxGap
    BY <1>2, <2>2, <2>4, <2>7
  <2>9. \A y \in p + 1 .. q - 1 : y \notin mask
    <3> SUFFICES ASSUME NEW y \in p + 1 .. q - 1, y \in mask PROVE FALSE
      OBVIOUS
    <3>1. y \in Nat /\ y # i /\ p < y /\ y < q
      BY <1>2, <1>4, <2>2, <2>7
    <3>2. CASE y < i
      BY <1>2, <2>2, <3>1, <3>2
    <3>3. CASE y > i
      BY <1>2, <2>6, <2>7, <3>1, <3>3
    <3> QED BY <1>2, <3>1, <3>2, <3>3
  <2> QED BY <1>2, <2>2, <2>7, <2>8, <2>9 DEF Closed
<1> QED BY <1>3, <1>4

(* Where the paper ends, nothing bridges the gap beyond.                    *)
LEMMA ClosedEnds ==
  ASSUME NEW mask \in SUBSET Line, NEW a \in Line, NEW b \in 1 .. Side, a < b,
         ShowsRun(mask, a, b)
  PROVE  a - 1 \notin Closed(mask) /\ b \notin Closed(mask)
<1>1. /\ mask \subseteq Nat /\ a \in Nat /\ b \in Nat /\ MaxGap \in Nat
      /\ a \in mask /\ b - 1 \in mask
  BY SizesAre DEF ShowsRun
<1>2. /\ \A y \in mask : ~ (a - 1 - MaxGap <= y /\ y <= a - 1)
      /\ \A y \in mask : ~ (b <= y /\ y <= b + MaxGap)
  BY <1>1 DEF ShowsRun
<1>3. ASSUME a - 1 \in Closed(mask) PROVE FALSE
  <2>1. a - 1 \notin mask
    BY <1>1, <1>2
  <2>2. PICK p, q \in mask : p < a - 1 /\ a - 1 < q /\ q - p - 1 <= MaxGap
    BY <1>3, <2>1 DEF Closed
  <2>3. p < a - 1 - MaxGap
    BY <1>1, <1>2, <2>2
  <2> QED BY <1>1, <2>2, <2>3
<1>4. ASSUME b \in Closed(mask) PROVE FALSE
  <2>1. b \notin mask
    BY <1>1, <1>2
  <2>2. PICK p, q \in mask : p < b /\ b < q /\ q - p - 1 <= MaxGap
    BY <1>4, <2>1 DEF Closed
  <2>3. q > b + MaxGap
    BY <1>1, <1>2, <2>2
  <2> QED BY <1>1, <2>2, <2>3
<1> QED BY <1>3, <1>4

\* A run ends where the mask did before gaps were closed.
LEMMA RunEnds ==
  ASSUME NEW mask \in SUBSET Line, NEW r \in Runs(Closed(mask))
  PROVE  r[1] \in mask /\ r[2] - 1 \in mask
<1>1. /\ r[1] \in Line /\ r[2] \in 1 .. Side /\ r[1] < r[2]
      /\ r[1] .. r[2] - 1 \subseteq Closed(mask)
      /\ r[1] - 1 \notin Closed(mask) /\ r[2] \notin Closed(mask)
  BY DEF Runs
<1>a. mask \subseteq Closed(mask)
  BY DEF Closed
<1>2. /\ mask \subseteq Nat /\ r[1] \in Nat /\ r[2] \in Nat
      /\ \A i \in Int : i \in Line <=> 0 <= i /\ i < Side
      /\ Side \in Nat /\ mask \subseteq Closed(mask)
  <2>1. r[1] \in Nat /\ r[2] \in Nat
    BY <1>1, InFrame
  <2>2. mask \subseteq Nat
    BY SizesAre
  <2> QED BY <1>a, <2>1, <2>2, SizesAre
<1>3. r[1] \in Closed(mask) /\ r[2] - 1 \in Closed(mask)
  <2>1. r[1] \in r[1] .. r[2] - 1 /\ r[2] - 1 \in r[1] .. r[2] - 1
    BY <1>1, <1>2
  <2> QED BY <1>1, <2>1
<1>4. ASSUME NEW i \in Closed(mask), i \notin mask
      PROVE  i - 1 \in Closed(mask) /\ i + 1 \in Closed(mask)
  <2>1. PICK p, q \in mask : /\ p < i /\ i < q /\ q - p - 1 <= MaxGap
                             /\ \A k \in p + 1 .. q - 1 : k \notin mask
    BY <1>4 DEF Closed
  <2>2. i \in Line /\ p \in Line /\ q \in Line /\ i \in Nat /\ p \in Nat /\ q \in Nat
    BY <1>2, <1>4 DEF Closed
  <2>3. i - 1 \in Closed(mask)
    <3>1. CASE i - 1 = p
      BY <1>2, <3>1
    <3>2. CASE i - 1 # p
      <4>1. i - 1 \in Line /\ p < i - 1 /\ i - 1 < q
        BY <1>2, <2>1, <2>2, <3>2
      <4> QED BY <2>1, <4>1 DEF Closed
    <3> QED BY <3>1, <3>2
  <2>4. i + 1 \in Closed(mask)
    <3>1. CASE i + 1 = q
      BY <1>2, <3>1
    <3>2. CASE i + 1 # q
      <4>1. i + 1 \in Line /\ p < i + 1 /\ i + 1 < q
        BY <1>2, <2>1, <2>2, <3>2
      <4> QED BY <2>1, <4>1 DEF Closed
    <3> QED BY <3>1, <3>2
  <2> QED BY <2>3, <2>4
<1>5. r[1] \in mask
  BY <1>1, <1>3, <1>4
<1>6. r[2] - 1 \in mask
  <2>1. (r[2] - 1) + 1 = r[2]
    BY <1>2
  <2> QED BY <1>1, <1>3, <1>4, <2>1
<1> QED BY <1>5, <1>6

(* The paper of a score is the largest run, and the only candidate.         *)
LEMMA SideFound ==
  ASSUME NEW mask \in SUBSET Line, NEW a \in Line, NEW b \in 1 .. Side,
         b - a >= MinSide, ShowsRun(mask, a, b)
  PROVE  Side1D(mask) = {<<a, b>>}
<1> DEFINE M == Closed(mask)
<1>1. /\ a \in Nat /\ b \in Nat /\ a < b
      /\ \A i, k \in mask : (k < a \/ b <= i) => k - i + 1 < b - a
  BY SizesAre DEF ShowsRun
<1>2. /\ \A i \in a .. b - 1 : i \in M
      /\ a - 1 \notin M /\ b \notin M
  BY <1>1, ClosedFills, ClosedEnds
<1>3. <<a, b>> \in Runs(M)
  BY <1>1, <1>2 DEF Runs
<1>4. ASSUME NEW r \in Runs(M), r # <<a, b>>
      PROVE  /\ r[2] - r[1] < b - a /\ r[1] \in Nat /\ r[2] \in Nat /\ r[1] < r[2]
             /\ Longer(<<a, b>>, r) /\ ~ Longer(r, <<a, b>>)
  <2>1. /\ r \in Line \X (1 .. Side)
        /\ r[1] \in Nat /\ r[2] \in Nat /\ r[1] < r[2]
        /\ r[1] - 1 \notin M /\ r[2] \notin M
        /\ \A i \in r[1] .. r[2] - 1 : i \in M
    <3> HIDE DEF M
    <3>1. /\ r \in Line \X (1 .. Side) /\ r[1] < r[2]
          /\ \A i \in r[1] .. r[2] - 1 : i \in M
          /\ r[1] - 1 \notin M /\ r[2] \notin M
      BY <1>4 DEF Runs
    <3>2. r[1] \in Line /\ r[2] \in 1 .. Side
      BY <3>1
    <3>3. r[1] \in Nat /\ r[2] \in Nat
      BY <3>2, InFrame
    <3> QED BY <3>1, <3>3
  <2>2. r[1] \in mask /\ r[2] - 1 \in mask
    BY RunEnds
  <2> HIDE DEF M
  <2>3. r[1] # a \/ r[2] # b
    <3> SUFFICES ASSUME r[1] = a, r[2] = b PROVE FALSE
      OBVIOUS
    <3>1. r = <<r[1], r[2]>>
      BY <2>1
    <3> QED BY <1>4, <3>1
  <2>4. r[1] < a \/ b <= r[1]
    <3> SUFFICES ASSUME a <= r[1], r[1] < b PROVE FALSE
      BY <1>1, <2>1
    <3>1. r[1] = a
      <4> SUFFICES ASSUME r[1] # a PROVE FALSE
        OBVIOUS
      <4>1. r[1] - 1 \in a .. b - 1
        BY <1>1, <2>1
      <4> QED BY <1>2, <2>1, <4>1
    <3>2. ~ (r[2] < b)
      <4> SUFFICES ASSUME r[2] < b PROVE FALSE
        OBVIOUS
      <4>1. r[2] \in a .. b - 1
        BY <1>1, <2>1, <3>1
      <4> QED BY <1>2, <2>1, <4>1
    <3>3. ~ (r[2] > b)
      <4> SUFFICES ASSUME r[2] > b PROVE FALSE
        OBVIOUS
      <4>1. b \in r[1] .. r[2] - 1
        BY <1>1, <2>1, <3>1
      <4> QED BY <1>2, <2>1, <4>1
    <3> QED BY <1>1, <2>1, <2>3, <3>1, <3>2, <3>3
  <2>5. r[1] < a => r[2] - 1 < a
    <3> SUFFICES ASSUME r[1] < a, r[2] - 1 >= a PROVE FALSE
      BY <1>1, <2>1
    <3>1. a - 1 \in r[1] .. r[2] - 1
      BY <1>1, <2>1
    <3> QED BY <1>2, <2>1, <3>1
  <2>6. (r[2] - 1) - r[1] + 1 < b - a
    BY <1>1, <2>2, <2>4, <2>5
  <2>7. r[2] - r[1] < b - a
    BY <1>1, <2>1, <2>6
  <2> QED BY <1>1, <2>1, <2>7 DEF Longer
<1>5. LargestRun(M) = {<<a, b>>}
  <2> HIDE DEF M
  <2>1. <<a, b>> \in LargestRun(M)
    BY <1>3, <1>4 DEF LargestRun
  <2>2. ASSUME NEW r \in LargestRun(M), r # <<a, b>> PROVE FALSE
    <3>1. r \in Runs(M) /\ Longer(r, <<a, b>>)
      BY <1>3, <2>2 DEF LargestRun
    <3> QED BY <1>4, <2>2, <3>1
  <2> QED BY <2>1, <2>2
<1>6. Side1D(mask) = {r \in {<<a, b>>} : r[2] - r[1] >= MinSide}
  BY <1>5, Zenon DEF Side1D
<1> QED BY <1>6

(* A candidate lies in the frame and is long enough.                        *)
LEMMA Side1DIs ==
  ASSUME NEW mask, NEW r \in Side1D(mask)
  PROVE  r \in Line \X (1 .. Side) /\ r[2] - r[1] >= MinSide
BY DEF Side1D, LargestRun, Runs

(* What is found in any frame can be a region.                              *)
LEMMA BoxesArePlaces ==
  ASSUME NEW f
  PROVE  Boxes(f) \subseteq Places
<1> SUFFICES ASSUME NEW p \in Boxes(f) PROVE p \in Places
  OBVIOUS
<1>1. PICK y \in Side1D(f.rows), x \in Side1D(f.cols) : p = <<y[1], y[2], x[1], x[2]>>
  BY DEF Boxes
<1> QED BY <1>1, Side1DIs DEF Places

(* A frame that shows the sheet yields the sheet.                           *)
LEMMA SheetIsBox ==
  ASSUME NEW f \in Frames, NEW s \in Sheets, Shows(f, s)
  PROVE  Boxes(f) = {s}
<1>1. /\ s \in Line \X (1 .. Side) \X Line \X (1 .. Side)
      /\ s[2] - s[1] >= MinSide /\ s[4] - s[3] >= MinSide
      /\ f.rows \in SUBSET Line /\ f.cols \in SUBSET Line
  BY AnalysisAssumption DEF Frames
<1>2. Side1D(f.rows) = {<<s[1], s[2]>>} /\ Side1D(f.cols) = {<<s[3], s[4]>>} /\ f.lined
  BY <1>1, SideFound DEF Shows
<1>3. s = <<s[1], s[2], s[3], s[4]>>
  BY <1>1
<1>4. <<s[1], s[2], s[3], s[4]>> \in Boxes(f)
  <2>1. <<s[1], s[2]>> \in Side1D(f.rows) /\ <<s[3], s[4]>> \in Side1D(f.cols)
    BY <1>2
  <2> QED BY <1>2, <2>1 DEF Boxes
<1>5. ASSUME NEW p \in Boxes(f) PROVE p = <<s[1], s[2], s[3], s[4]>>
  <2>1. PICK y \in Side1D(f.rows), x \in Side1D(f.cols) : p = <<y[1], y[2], x[1], x[2]>>
    BY <1>2 DEF Boxes
  <2>2. y = <<s[1], s[2]>> /\ x = <<s[3], s[4]>>
    BY <1>2, <2>1
  <2> QED BY <2>1, <2>2
<1> QED BY <1>3, <1>4, <1>5

-----------------------------------------------------------------------------
(* Bags grow                                                                *)

\* A bag, and how often it has a member.
Bagged(B)   == Weights(B) /\ \A x \in DOMAIN B : B[x] > 0
Times(B, x) == IF x \in DOMAIN B THEN B[x] ELSE 0

(* The empty bag is one.                                                    *)
LEMMA NoBag == Bagged(EmptyBag) /\ DOMAIN EmptyBag = {}
BY FS_EmptySet DEF EmptyBag, SetToBag, Bagged, Weights

(* What is added to a bag is counted once more.                             *)
LEMMA BagGrows ==
  ASSUME NEW B, Bagged(B), NEW F, IsFiniteSet(F)
  PROVE  /\ Bagged(B (+) SetToBag(F))
         /\ DOMAIN (B (+) SetToBag(F)) = DOMAIN B \cup F
         /\ \A x : Times(B (+) SetToBag(F), x) = Times(B, x) + (IF x \in F THEN 1 ELSE 0)
<1> DEFINE C == B (+) SetToBag(F)
<1>1. /\ DOMAIN C = DOMAIN B \cup F
      /\ \A x \in DOMAIN B \cup F :
           C[x] = (IF x \in DOMAIN B THEN B[x] ELSE 0) + (IF x \in F THEN 1 ELSE 0)
      /\ C = [x \in DOMAIN B \cup F |->
               (IF x \in DOMAIN B THEN B[x] ELSE 0) + (IF x \in F THEN 1 ELSE 0)]
  BY DEF (+), SetToBag
<1> HIDE DEF C
<1>2. IsFiniteSet(DOMAIN B) /\ \A x \in DOMAIN B : B[x] \in Nat /\ B[x] > 0
  BY DEF Bagged, Weights
<1>3. IsFiniteSet(DOMAIN C)
  BY <1>1, <1>2, FS_Union
<1>4. \A x \in DOMAIN C : C[x] \in Nat /\ C[x] > 0
  BY <1>1, <1>2
<1>5. C \in [DOMAIN C -> Nat]
  BY <1>1, <1>4
<1>6. \A x : Times(C, x) = Times(B, x) + (IF x \in F THEN 1 ELSE 0)
  BY <1>1, <1>2 DEF Times
<1> QED BY <1>1, <1>3, <1>4, <1>5, <1>6 DEF C, Bagged, Weights

(* The copies of one member.                                                *)
LEMMA CountOne ==
  ASSUME NEW B, Weights(B), NEW x \in DOMAIN B
  PROVE  Count(B, {x}) = B[x]
<1>1. B[x] \in Nat
  BY DEF Weights
<1>2. Copies(B, {x}) = {x} \X (1 .. B[x])
  BY DEF Copies
<1>3. IsFiniteSet({x}) /\ Cardinality({x}) = 1
  BY FS_Singleton
<1>4. IsFiniteSet(1 .. B[x]) /\ Cardinality(1 .. B[x]) = B[x]
  BY <1>1, FS_Interval
<1>5. Cardinality({x} \X (1 .. B[x])) = 1 * B[x]
  <2>1. Cardinality({x} \X (1 .. B[x])) = Cardinality({x}) * Cardinality(1 .. B[x])
    BY <1>3, <1>4, FS_Product
  <2> QED BY <1>3, <1>4, <2>1, Zenon
<1>6. Count(B, {x}) = Cardinality({x} \X (1 .. B[x]))
  BY <1>2, Zenon DEF Count
<1> QED BY <1>1, <1>5, <1>6

(* A bag with a member has a copy.                                          *)
LEMMA SomeMember ==
  ASSUME NEW B, Bagged(B)
  PROVE  Number(B) \in Nat /\ (DOMAIN B # {} => Number(B) > 0)
<1>1. DOMAIN B \in SUBSET DOMAIN B
  OBVIOUS
<1>2. Count(B, DOMAIN B) = 0 <=> \A x \in DOMAIN B : B[x] = 0
  BY <1>1, CountZero DEF Bagged
<1>3. Count(B, DOMAIN B) \in Nat
  BY <1>1, CountType DEF Bagged
<1> QED BY <1>2, <1>3 DEF Number, Bagged

-----------------------------------------------------------------------------
(* The region                                                               *)

\* The bag of boxes has a copy of the sheet for each clean sample, and the region
\* is that of the bag.
Located ==
  /\ Bagged(boxes) /\ DOMAIN boxes \subseteq Places
  /\ clean \in Nat
  /\ pc \in {"match", "sample", "region"} =>
       sheet \in Sheets /\ clean <= Times(boxes, sheet)
  /\ pc = "region" =>
       /\ DOMAIN boxes # {}
       /\ region = [box |-> RegionOf(boxes), agree |-> Agreeing(boxes)]

(* There are finitely many places in a frame.                               *)
LEMMA PlacesFinite == IsFiniteSet(Places)
<1>1. IsFiniteSet(Line) /\ IsFiniteSet(1 .. Side)
  BY SizesAre, FS_Interval DEF Line
<1>2. /\ Side \in Nat
      /\ IsFiniteSet(Line \X (1 .. Side))
      /\ IsFiniteSet((Line \X (1 .. Side)) \X (Line \X (1 .. Side)))
  BY <1>1, SizesAre, FS_Product
<1> DEFINE F == [s \in Places |-> <<<<s[1], s[2]>>, <<s[3], s[4]>>>>]
           T == (Line \X (1 .. Side)) \X (Line \X (1 .. Side))
<1>3. ASSUME NEW s \in Places
      PROVE  s = <<s[1], s[2], s[3], s[4]>> /\ s[1] \in Line /\ s[2] \in 1 .. Side
             /\ s[3] \in Line /\ s[4] \in 1 .. Side
  BY DEF Places
<1>4. F \in [Places -> T]
  BY <1>3
<1>5. ASSUME NEW s \in Places, NEW t \in Places, F[s] = F[t] PROVE s = t
  <2>1. s[1] = t[1] /\ s[2] = t[2] /\ s[3] = t[3] /\ s[4] = t[4]
    BY <1>5
  <2> QED BY <1>3, <2>1
<1>6. F \in Injection(Places, T)
  <2> HIDE DEF F, T
  <2> QED BY <1>4, <1>5 DEF Injection, IsInjective
<1> QED BY <1>2, <1>6, FS_Injection

(* Nothing was found before the first sample.                               *)
LEMMA InitLocated == AnalysisInit => Located
BY NoBag DEF AnalysisInit, Located, Times

(* A clean sample adds a copy of the sheet.                                 *)
LEMMA SampleLocated == ASSUME Located, Sample PROVE Located'
<1>1. /\ pc = "sample" /\ pc' = "sample" /\ UNCHANGED sheet
      /\ sheet \in Sheets /\ clean \in Nat
      /\ Bagged(boxes) /\ DOMAIN boxes \subseteq Places /\ clean <= Times(boxes, sheet)
  BY DEF Sample, Located, vars
<1>2. PICK o \in Outcomes[sheet] :
        /\ boxes' = boxes (+) SetToBag(o.found)
        /\ clean' = IF o.shows THEN clean + 1 ELSE clean
  BY DEF Sample
<1>3. PICK f \in Frames : o = [found |-> Boxes(f), shows |-> Shows(f, sheet)]
  BY <1>1, <1>2 DEF Outcomes
<1>4. o.found \subseteq Places /\ (o.shows => o.found = {sheet})
  BY <1>1, <1>3, BoxesArePlaces, SheetIsBox
<1>5. IsFiniteSet(o.found)
  BY <1>4, PlacesFinite, FS_Subset
<1>6. /\ Bagged(boxes') /\ DOMAIN boxes' = DOMAIN boxes \cup o.found
      /\ Times(boxes', sheet) = Times(boxes, sheet) + (IF sheet \in o.found THEN 1 ELSE 0)
  <2> DEFINE C == boxes (+) SetToBag(o.found)
  <2>1. /\ Bagged(C) /\ DOMAIN C = DOMAIN boxes \cup o.found
        /\ Times(C, sheet) = Times(boxes, sheet) + (IF sheet \in o.found THEN 1 ELSE 0)
    <3>1. Bagged(C)
      BY <1>1, <1>5, BagGrows
    <3>2. DOMAIN C = DOMAIN boxes \cup o.found
      BY <1>1, <1>5, BagGrows
    <3>3. \A x : Times(C, x) = Times(boxes, x) + (IF x \in o.found THEN 1 ELSE 0)
      BY <1>1, <1>5, BagGrows
    <3> QED BY <3>1, <3>2, <3>3
  <2>2. boxes' = C
    BY <1>2
  <2> HIDE DEF C
  <2> QED BY <2>1, <2>2, Zenon
<1>7. Times(boxes, sheet) \in Nat
  BY <1>1 DEF Times, Bagged, Weights
<1>8. clean' \in Nat /\ clean' <= Times(boxes', sheet)
  BY <1>1, <1>2, <1>4, <1>6, <1>7
<1>9. Times(boxes, sheet)' = Times(boxes', sheet)
  BY <1>1 DEF Times
<1> QED BY <1>1, <1>4, <1>6, <1>8, <1>9 DEF Located

(* The other stages forget the boxes or leave them alone.                   *)
LEMMA StepLocated ==
  Located /\ [AnalysisNext]_<<vars, detection>> => Located'
<1> SUFFICES ASSUME Located, [AnalysisNext]_<<vars, detection>> PROVE Located'
  OBVIOUS
<1>1. CASE Sample
  BY <1>1, SampleLocated
<1>2. ASSUME Forget, pc' \notin {"match", "sample", "region"} PROVE Located'
  BY <1>2, NoBag DEF Forget, Located
<1>3. ASSUME UNCHANGED <<boxes, clean, sheet, region>>,
             pc' \in {"match", "sample", "region"} => pc \in {"match", "sample"} /\ pc' = "sample"
      PROVE  Located'
  BY <1>3 DEF Located, Times
<1>4. CASE MatchProfile
  <2>1. CASE \E p \in Profiles : /\ Goto(IF p \in Modes THEN "mode" ELSE "failed")
                                 /\ Forget
    BY <1>2, <2>1 DEF Goto
  <2>2. CASE pc = "match" /\ Goto("sample") /\ UNCHANGED detection
    BY <1>3, <2>2 DEF Goto, detection
  <2> QED BY <1>4, <2>1, <2>2 DEF MatchProfile
<1>5. CASE DetectRegion
  <2>1. CASE boxes = EmptyBag
    BY <1>2, <1>5, <2>1 DEF DetectRegion, Goto
  <2>2. CASE boxes # EmptyBag
    <3>1. /\ pc = "sample" /\ pc' = "region" /\ UNCHANGED <<sheet, boxes, clean>>
          /\ region' = [box |-> RegionOf(boxes), agree |-> Agreeing(boxes)]
      BY <1>5, <2>2 DEF DetectRegion, Goto
    <3>2. DOMAIN boxes # {}
      <4> SUFFICES ASSUME DOMAIN boxes = {} PROVE boxes = EmptyBag
        BY <2>2
      <4>1. boxes = [x \in DOMAIN boxes |-> boxes[x]]
        BY DEF Located, Bagged, Weights
      <4> QED BY <4>1 DEF EmptyBag, SetToBag
    <3>3. region' = [box |-> RegionOf(boxes'), agree |-> Agreeing(boxes')]
      BY <3>1
    <3>4. Times(boxes', sheet') = Times(boxes, sheet)
      BY <3>1
    <3> QED BY <3>1, <3>2, <3>3, <3>4 DEF Located
  <2> QED BY <2>1, <2>2
<1>6. CASE ReportAdvance \/ ReportSongs
  BY <1>2, <1>6 DEF ReportAdvance, ReportSongs, Goto
<1>7. CASE (\E d \in Vectors : Measure(d)) \/ Classify
  BY <1>3, <1>7 DEF Measure, Classify, Goto, vars, detection
<1>8. CASE OpenVideo \/ SegmentSongs
  BY <1>3, <1>8 DEF OpenVideo, SegmentSongs, detection, Next, TakeCluster, Clustered, Merge,
                    Merged, Shorten, Segmented, Finished, vars
<1>9. CASE Failed \/ UNCHANGED <<vars, detection>>
  <2>1. UNCHANGED <<pc, boxes, clean, sheet, region>>
    BY <1>9 DEF Failed, vars, detection
  <2> QED BY <2>1 DEF Located
<1> QED BY <1>1, <1>4, <1>5, <1>6, <1>7, <1>8, <1>9 DEF AnalysisNext

(* It holds in every state.                                                 *)
LEMMA AlwaysLocated == AnalysisSpec => []Located
BY InitLocated, StepLocated, PTL DEF AnalysisSpec

-----------------------------------------------------------------------------
(* The sides of a place.                                                    *)
LEMMA PlaceIs ==
  ASSUME NEW b \in Places
  PROVE  /\ b[1] \in 0 .. Side /\ b[2] \in 0 .. Side /\ b[3] \in 0 .. Side /\ b[4] \in 0 .. Side
         /\ b[1] \in Nat /\ b[2] \in Nat /\ b[3] \in Nat /\ b[4] \in Nat
         /\ b[2] >= b[1] + MinSide /\ b[4] >= b[3] + MinSide
         /\ b = <<b[1], b[2], b[3], b[4]>>
<1>1. /\ b[1] \in Line /\ b[2] \in 1 .. Side /\ b[3] \in Line /\ b[4] \in 1 .. Side
      /\ b[2] - b[1] >= MinSide /\ b[4] - b[3] >= MinSide
      /\ b = <<b[1], b[2], b[3], b[4]>>
  BY DEF Places
<1> QED BY <1>1, SizesAre

\* The sides of the boxes that are medians are taken of.
Along(B, k) == [b \in DOMAIN B |-> b[k]]

(* Each side of the boxes can be ranked.                                    *)
LEMMA SidesAre ==
  ASSUME NEW B, Bagged(B), DOMAIN B \subseteq Places, NEW k \in 1 .. 4
  PROVE  Valued(B, Along(B, k)) /\ \A b \in DOMAIN B : b[k] \in 0 .. Side /\ b[k] \in Nat
<1>1. \A b \in DOMAIN B : b[k] \in 0 .. Side /\ b[k] \in Nat
  <2>1. k = 1 \/ k = 2 \/ k = 3 \/ k = 4
    OBVIOUS
  <2> QED BY <2>1, PlaceIs
<1>2. Along(B, k) \in [DOMAIN B -> Nat]
  BY <1>1 DEF Along
<1> QED BY <1>1, <1>2 DEF Valued, Bagged

(* The medians of the two ends stay as far apart as the ends are.           *)
LEMMA RegionFits ==
  ASSUME NEW B, Bagged(B), DOMAIN B \subseteq Places, DOMAIN B # {}
  PROVE  /\ \A k \in 1 .. 4 : Box2(B, k) \in Nat /\ HalfEven(Box2(B, k)) \in 0 .. Side
         /\ HalfEven(Box2(B, 2)) >= HalfEven(Box2(B, 1)) + MinSide
         /\ HalfEven(Box2(B, 4)) >= HalfEven(Box2(B, 3)) + MinSide
<1>1. /\ Number(B) \in Nat /\ Number(B) > 0 /\ Number(B) = Count(B, DOMAIN B)
      /\ 2 * Count(B, DOMAIN B) > Number(B) /\ DOMAIN B \in SUBSET DOMAIN B
  BY SomeMember DEF Number
<1>2. ASSUME NEW k \in 1 .. 4
      PROVE  /\ Box2(B, k) \in Nat /\ Box2(B, k) <= 2 * Side
             /\ HalfEven(Box2(B, k)) \in 0 .. Side
  <2>1. \A b \in DOMAIN B : Along(B, k)[b] <= Side
    <3> TAKE b \in DOMAIN B
    <3>1. b[k] \in 0 .. Side
      BY SidesAre
    <3> QED BY <3>1, SizesAre DEF Along
  <2>2. Median2(B, Along(B, k)) \in Nat /\ Median2(B, Along(B, k)) <= 2 * Side
    BY <1>1, <2>1, SidesAre, SizesAre, MedianFollowsMost
  <2>3. Box2(B, k) \in Nat /\ Box2(B, k) <= 2 * Side
    BY <2>2 DEF Box2, Along
  <2>4. /\ HalfEven(Box2(B, k)) \in Nat
        /\ HalfEven(2 * Side) >= HalfEven(Box2(B, k)) + 0
    <3>1. /\ 2 * Side \in Nat /\ 0 \in Nat /\ 0 % 2 = 0
          /\ 2 * Side >= Box2(B, k) + 2 * 0
      BY <2>3, SizesAre
    <3> QED BY <2>3, <3>1, Rounding
  <2>5. HalfEven(2 * Side) = Side
    BY SizesAre, RoundingExact
  <2> QED BY <2>3, <2>4, <2>5, SizesAre
<1>3. ASSUME NEW j \in 1 .. 4, NEW k \in 1 .. 4, \A b \in DOMAIN B : b[k] >= b[j] + MinSide
      PROVE  HalfEven(Box2(B, k)) >= HalfEven(Box2(B, j)) + MinSide
  <2>1. \A b \in DOMAIN B : Along(B, k)[b] >= Along(B, j)[b] + MinSide
    BY <1>3 DEF Along
  <2>2. Median2(B, Along(B, k)) >= Median2(B, Along(B, j)) + 2 * MinSide
    BY <1>1, <2>1, SidesAre, SizesAre, MediansApart
  <2>3. Box2(B, k) >= Box2(B, j) + 2 * MinSide
    BY <2>2 DEF Box2, Along
  <2> QED BY <1>2, <2>3, SizesAre, Rounding
<1>4. \A b \in DOMAIN B : b[2] >= b[1] + MinSide /\ b[4] >= b[3] + MinSide
  BY PlaceIs
<1> QED BY <1>2, <1>3, <1>4

(* A box that most copies are of is the region.                             *)
LEMMA MostDecide ==
  ASSUME NEW B, Bagged(B), DOMAIN B \subseteq Places, NEW s \in DOMAIN B,
         2 * B[s] > Number(B)
  PROVE  RegionOf(B) = s /\ Agreeing(B) >= B[s]
<1>1. /\ {s} \in SUBSET DOMAIN B /\ 2 * Count(B, {s}) > Number(B)
      /\ Count(B, {s}) = B[s]
  BY CountOne DEF Bagged
<1>2. ASSUME NEW k \in 1 .. 4 PROVE Box2(B, k) = 2 * s[k] /\ HalfEven(Box2(B, k)) = s[k]
  <2>1. s[k] \in Nat
    BY SidesAre
  <2>2. /\ \A b \in {s} : Along(B, k)[b] <= s[k]
        /\ \A b \in {s} : Along(B, k)[b] >= s[k]
    BY <2>1 DEF Along
  <2>3. /\ Median2(B, Along(B, k)) \in Nat
        /\ Median2(B, Along(B, k)) <= 2 * s[k] /\ Median2(B, Along(B, k)) >= 2 * s[k]
    BY <1>1, <2>1, <2>2, SidesAre, MedianFollowsMost
  <2>4. Box2(B, k) = 2 * s[k]
    BY <2>1, <2>3 DEF Box2, Along
  <2> QED BY <2>1, <2>4, RoundingExact
<1>3. RegionOf(B) = <<s[1], s[2], s[3], s[4]>>
  BY <1>2 DEF RegionOf
<1>4. RegionOf(B) = s
  BY <1>3, PlaceIs
<1> DEFINE A == {b \in DOMAIN B : \A k \in 1..4 :
                   2 * b[k] - Box2(B, k) \in -(2 * Tolerance) .. 2 * Tolerance}
<1>5. {s} \subseteq A
  <2>1. Tolerance \in Nat
    BY DetectionAssumption
  <2>2. ASSUME NEW k \in 1..4
        PROVE  2 * s[k] - Box2(B, k) \in -(2 * Tolerance) .. 2 * Tolerance
    <3>1. s[k] \in Nat /\ Box2(B, k) = 2 * s[k]
      BY <1>2, SidesAre
    <3> QED BY <2>1, <3>1
  <2> QED BY <2>2
<1>6. Count(B, {s}) <= Count(B, A)
  <2>1. A \in SUBSET DOMAIN B
    OBVIOUS
  <2> HIDE DEF A
  <2> QED BY <1>5, <2>1, CountGrows DEF Bagged
<1>7. B[s] \in Nat /\ Agreeing(B) \in Nat
  <2>1. A \in SUBSET DOMAIN B
    OBVIOUS
  <2>2. Agreeing(B) = Count(B, A)
    BY DEF Agreeing
  <2> HIDE DEF A
  <2> QED BY <2>1, <2>2, CountType DEF Bagged, Weights
<1> QED BY <1>1, <1>4, <1>6, <1>7 DEF Agreeing

(* A score that more than half of the boxes come from is located to the     *)
(* unit, however the others disagree, and every sample that shows it counts *)
(* as agreeing: the closed mask of such a sample has the paper as its       *)
(* largest run, and each median is then that side of the sheet              *)
(* (region.py:58-69, 114-142).                                              *)
THEOREM SheetIsFound == AnalysisSpec => []RegionIsSheet
<1>1. Located => RegionIsSheet
  <2> SUFFICES ASSUME Located, pc = "region", 2 * clean > Number(boxes)
               PROVE  region.box = sheet /\ region.agree >= clean
    BY DEF RegionIsSheet
  <2>1. /\ Bagged(boxes) /\ DOMAIN boxes \subseteq Places /\ clean \in Nat
        /\ clean <= Times(boxes, sheet)
        /\ region.box = RegionOf(boxes) /\ region.agree = Agreeing(boxes)
    BY DEF Located
  <2>2. Number(boxes) \in Nat
    BY <2>1, SomeMember
  <2>3. sheet \in DOMAIN boxes /\ clean <= boxes[sheet] /\ boxes[sheet] \in Nat
    BY <2>1, <2>2 DEF Times, Bagged, Weights
  <2>4. RegionOf(boxes) = sheet /\ Agreeing(boxes) >= boxes[sheet]
    BY <2>1, <2>2, <2>3, MostDecide
  <2>5. Agreeing(boxes) \in Nat
    BY <2>1, CountType DEF Agreeing, Bagged
  <2> QED BY <2>1, <2>3, <2>4, <2>5
<1> QED BY <1>1, AlwaysLocated, PTL

(* The sides of the region are medians taken one by one, and need not be    *)
(* the sides of any box; still they lie in the frame and are no closer to   *)
(* each other than the sides of a box have to be (region.py:131-142).       *)
THEOREM RegionIsLarge == AnalysisSpec => []RegionKeepsSize
<1>1. Located => RegionKeepsSize
  <2> SUFFICES ASSUME Located, pc = "region" PROVE RegionKeepsSize
    BY DEF RegionKeepsSize
  <2>1. /\ Bagged(boxes) /\ DOMAIN boxes \subseteq Places /\ DOMAIN boxes # {}
        /\ region.box = RegionOf(boxes)
    BY DEF Located
  <2>2. /\ region.box[1] = HalfEven(Box2(boxes, 1)) /\ region.box[2] = HalfEven(Box2(boxes, 2))
        /\ region.box[3] = HalfEven(Box2(boxes, 3)) /\ region.box[4] = HalfEven(Box2(boxes, 4))
    BY <2>1 DEF RegionOf
  <2>3. /\ \A k \in 1 .. 4 : HalfEven(Box2(boxes, k)) \in 0 .. Side
        /\ HalfEven(Box2(boxes, 2)) >= HalfEven(Box2(boxes, 1)) + MinSide
        /\ HalfEven(Box2(boxes, 4)) >= HalfEven(Box2(boxes, 3)) + MinSide
    BY <2>1, RegionFits
  <2>4. \A k \in 1 .. 4 : region.box[k] \in 0 .. Side
    <3> TAKE k \in 1 .. 4
    <3>1. k = 1 \/ k = 2 \/ k = 3 \/ k = 4
      OBVIOUS
    <3> QED BY <2>2, <2>3, <3>1
  <2>5. /\ region.box[1] \in Nat /\ region.box[2] \in Nat
        /\ region.box[3] \in Nat /\ region.box[4] \in Nat
    BY <2>4, SizesAre
  <2>6. /\ region.box[2] - region.box[1] >= MinSide
        /\ region.box[4] - region.box[3] >= MinSide
    BY <2>2, <2>3, <2>5, SizesAre
  <2> QED BY <2>4, <2>6 DEF RegionKeepsSize
<1> QED BY <1>1, AlwaysLocated, PTL

-----------------------------------------------------------------------------
(* The mode                                                                 *)

\* The bag of displacements, and what it decides.
Measured ==
  /\ Bagged(shifts) /\ DOMAIN shifts \subseteq [x : Int, y : Int]
  /\ pc = "mode" /\ shifts # EmptyBag => mode = ModeOf(shifts)

(* No pair was measured before the first.                                   *)
LEMMA InitMeasured == AnalysisInit => Measured
BY NoBag DEF AnalysisInit, Measured

(* The mode is that of the pairs measured, while they are remembered.       *)
LEMMA StepMeasured ==
  Measured /\ [AnalysisNext]_<<vars, detection>> => Measured'
<1> SUFFICES ASSUME Measured, [AnalysisNext]_<<vars, detection>> PROVE Measured'
  OBVIOUS
<1>1. ASSUME Forget PROVE Measured'
  BY <1>1, NoBag DEF Forget, Measured
<1>2. ASSUME UNCHANGED shifts, pc' # "mode" PROVE Measured'
  BY <1>2 DEF Measured
<1>3. CASE MatchProfile
  <2>1. CASE pc = "match" /\ Goto("sample") /\ UNCHANGED detection
    BY <1>2, <2>1 DEF Goto, detection
  <2>2. CASE Forget
    BY <1>1, <2>2
  <2> QED BY <1>3, <2>1, <2>2 DEF MatchProfile
<1>4. CASE Sample
  BY <1>2, <1>4 DEF Sample, vars
<1>5. CASE DetectRegion
  BY <1>1, <1>2, <1>5 DEF DetectRegion, Goto
<1>6. CASE ReportAdvance \/ ReportSongs
  BY <1>1, <1>6 DEF ReportAdvance, ReportSongs
<1>7. ASSUME NEW d \in Vectors, Measure(d) PROVE Measured'
  <2> DEFINE C == shifts (+) SetToBag({d})
  <2>1. d \in [x : Int, y : Int] /\ IsFiniteSet({d})
    BY AnalysisAssumption, FS_Singleton
  <2>2. Bagged(C) /\ DOMAIN C = DOMAIN shifts \cup {d}
    BY <2>1, BagGrows DEF Measured
  <2>3. shifts' = C /\ pc' = "advance"
    BY <1>7 DEF Measure, vars
  <2> HIDE DEF C
  <2>4. Bagged(shifts') /\ DOMAIN shifts' = DOMAIN shifts \cup {d}
    BY <2>2, <2>3, Zenon
  <2> QED BY <2>1, <2>3, <2>4 DEF Measured
<1>8. CASE Classify
  BY <1>8 DEF Classify, Goto, Measured, detection
<1>9. CASE OpenVideo
  BY <1>2, <1>9 DEF OpenVideo, detection
<1>10. CASE SegmentSongs
  BY <1>2, <1>10 DEF SegmentSongs, detection, Next, TakeCluster, Clustered, Merge,
                    Merged, Shorten, Segmented, Finished, vars
<1>11. CASE Failed \/ UNCHANGED <<vars, detection>>
  BY <1>11 DEF Failed, vars, detection, Measured
<1> QED BY <1>3, <1>4, <1>5, <1>6, <1>7, <1>8, <1>9, <1>10, <1>11 DEF AnalysisNext

(* It holds in every state.                                                 *)
LEMMA AlwaysMeasured == AnalysisSpec => []Measured
BY InitMeasured, StepMeasured, PTL DEF AnalysisSpec

-----------------------------------------------------------------------------
(* The size of a displacement.                                              *)
LEMMA SizeIs ==
  ASSUME NEW v \in Int
  PROVE  Size(v) \in Nat /\ (Size(v) = 0 <=> v = 0)
         /\ \A n \in Nat : Size(v) > n <=> (v > n \/ v < -n)
BY DEF Size

\* What the lemmas below are about: a bag of displacements, not empty, and an axis.
Vector(D, k) == /\ Bagged(D) /\ DOMAIN D \subseteq [x : Int, y : Int] /\ Number(D) > 0
                /\ k \in {"x", "y"}

(* The displacements along an axis can be ranked by size.                   *)
LEMMA SizesOf ==
  ASSUME NEW D, NEW k, Vector(D, k)
  PROVE  /\ Valued(D, Sizes(D, k))
         /\ \A d \in DOMAIN D : /\ d[k] \in Int /\ Size(d[k]) \in Nat
                                /\ Sizes(D, k)[d] = Size(d[k])
<1>1. \A d \in DOMAIN D : d[k] \in Int
  BY DEF Vector
<1>2. \A d \in DOMAIN D : Size(d[k]) \in Nat
  BY <1>1, SizeIs
<1>3. /\ Sizes(D, k) \in [DOMAIN D -> Nat]
      /\ \A d \in DOMAIN D : Sizes(D, k)[d] = Size(d[k])
  BY <1>2 DEF Sizes
<1> QED BY <1>1, <1>2, <1>3 DEF Valued, Vector, Bagged

\* Most pairs are longer, or shorter, than the threshold.
LEMMA MedianOfSizes ==
  ASSUME NEW D, NEW k, Vector(D, k), NEW S \in SUBSET DOMAIN D,
         2 * Count(D, S) > Number(D)
  PROVE  /\ Median2(D, Sizes(D, k)) \in Nat
         /\ (\A d \in S : Size(d[k]) > Static) => Median2(D, Sizes(D, k)) > 2 * Static
         /\ (\A d \in S : Size(d[k]) <= Static) => Median2(D, Sizes(D, k)) <= 2 * Static
<1>1. Static \in Nat /\ Static + 1 \in Nat
  BY DetectionAssumption
<1>2. Median2(D, Sizes(D, k)) \in Nat
  BY <1>1, SizesOf, MedianFollowsMost
<1>3. ASSUME \A d \in S : Size(d[k]) > Static
      PROVE  Median2(D, Sizes(D, k)) > 2 * Static
  <2>1. \A d \in S : Sizes(D, k)[d] >= Static + 1
    BY <1>1, <1>3, SizesOf
  <2>2. Median2(D, Sizes(D, k)) >= 2 * (Static + 1)
    BY <1>1, <2>1, SizesOf, MedianFollowsMost
  <2> QED BY <1>1, <1>2, <2>2
<1>4. ASSUME \A d \in S : Size(d[k]) <= Static
      PROVE  Median2(D, Sizes(D, k)) <= 2 * Static
  <2>1. \A d \in S : Sizes(D, k)[d] <= Static
    BY <1>4, SizesOf
  <2> QED BY <1>1, <2>1, SizesOf, MedianFollowsMost
<1> QED BY <1>2, <1>3, <1>4

(* The medians decide when most pairs move along one axis only.             *)
LEMMA FlowDecides ==
  ASSUME NEW D, NEW k, Vector(D, k),
         NEW S \in SUBSET DOMAIN D, 2 * Count(D, S) > Number(D),
         NEW T \in SUBSET DOMAIN D, 2 * Count(D, T) > Number(D),
         \A d \in S : Size(d[k]) > Static, \A d \in T : Size(d[Other(k)]) <= Static
  PROVE  ModeOf(D) = ModeAlong(k)
<1>0. Vector(D, Other(k)) /\ Static \in Nat /\ k \in {"x", "y"}
  BY DetectionAssumption DEF Vector, Other
<1>1. Median2(D, Sizes(D, k)) \in Nat /\ Median2(D, Sizes(D, k)) > 2 * Static
  BY MedianOfSizes
<1>2. Median2(D, Sizes(D, Other(k))) \in Nat /\ Median2(D, Sizes(D, Other(k))) <= 2 * Static
  BY <1>0, MedianOfSizes
<1>3. CASE k = "x"
  <2>1. Other(k) = "y"
    BY <1>3 DEF Other
  <2>2. /\ Median2(D, Sizes(D, "x")) \in Nat /\ Median2(D, Sizes(D, "x")) > 2 * Static
        /\ Median2(D, Sizes(D, "y")) \in Nat /\ Median2(D, Sizes(D, "y")) <= 2 * Static
    BY <1>1, <1>2, <1>3, <2>1, Zenon
  <2>3. ModeOf(D) = "horizontal"
    BY <1>0, <2>2 DEF ModeOf
  <2> QED BY <1>3, <2>3 DEF ModeAlong
<1>4. CASE k = "y"
  <2>1. Other(k) = "x"
    BY <1>4 DEF Other
  <2>2. /\ Median2(D, Sizes(D, "y")) \in Nat /\ Median2(D, Sizes(D, "y")) > 2 * Static
        /\ Median2(D, Sizes(D, "x")) \in Nat /\ Median2(D, Sizes(D, "x")) <= 2 * Static
    BY <1>1, <1>2, <1>4, <2>1, Zenon
  <2>3. ModeOf(D) = "vertical"
    BY <1>0, <2>2 DEF ModeOf
  <2> QED BY <1>4, <2>3 DEF ModeAlong
<1> QED BY <1>0, <1>3, <1>4

\* When most pairs are still, the votes decide.
LEMMA VotesDecide ==
  ASSUME NEW D, Vector(D, "x"),
         NEW S \in SUBSET DOMAIN D, 2 * Count(D, S) > Number(D), \A d \in S : Still(d)
  PROVE  ModeOf(D) = CASE CoherentAxis(D) = {"y"} -> "vertical"
                       [] CoherentAxis(D) = {"x"} -> "horizontal"
                       [] OTHER -> "paginated"
<1>0. Vector(D, "y") /\ Static \in Nat
  BY DetectionAssumption DEF Vector
<1>1. \A d \in S : Size(d["x"]) <= Static /\ Size(d["y"]) <= Static
  BY <1>0 DEF Still, Size
<1>2. /\ Median2(D, Sizes(D, "x")) \in Nat /\ Median2(D, Sizes(D, "x")) <= 2 * Static
      /\ Median2(D, Sizes(D, "y")) \in Nat /\ Median2(D, Sizes(D, "y")) <= 2 * Static
  BY <1>0, <1>1, MedianOfSizes
<1>3. /\ ~ (Median2(D, Sizes(D, "y")) > 2 * Static)
      /\ ~ (Median2(D, Sizes(D, "x")) > 2 * Static)
  BY <1>0, <1>2
<1> QED BY <1>3 DEF ModeOf

-----------------------------------------------------------------------------
(* The way along an axis is 0 when nothing moves along it.                  *)
LEMMA WayIs ==
  ASSUME NEW D, NEW k, Vector(D, k)
  PROVE  /\ Way(D, DOMAIN D, k) \in Nat
         /\ Way(D, DOMAIN D, k) = 0 <=> \A d \in DOMAIN D : d[k] = 0
<1> DEFINE W == [c \in Copies(D, DOMAIN D) |-> Size(c[1][k])]
<1>1. Weights(D) /\ DOMAIN D \in SUBSET DOMAIN D
  BY DEF Vector, Bagged
<1>2. IsFiniteSet(Copies(D, DOMAIN D))
  BY <1>1, CountType
<1>3. \A c \in Copies(D, DOMAIN D) : c[1] \in DOMAIN D
  BY DEF Copies
<1>4. \A d \in DOMAIN D : <<d, 1>> \in Copies(D, DOMAIN D)
  <2> TAKE d \in DOMAIN D
  <2>1. D[d] \in Nat /\ D[d] > 0
    BY DEF Vector, Bagged, Weights
  <2>2. 1 \in 1 .. D[d]
    BY <2>1
  <2> QED BY <2>2 DEF Copies
<1>5. \A d \in DOMAIN D : d[k] \in Int /\ Size(d[k]) \in Nat /\ (Size(d[k]) = 0 <=> d[k] = 0)
  BY SizesOf, SizeIs
<1>6. Weights(W) /\ DOMAIN W \in SUBSET DOMAIN W
  BY <1>2, <1>3, <1>5 DEF Weights
<1>7. Way(D, DOMAIN D, k) = Count(W, DOMAIN W)
  BY DEF Way, Number
<1>8. (\A c \in DOMAIN W : W[c] = 0) <=> \A d \in DOMAIN D : d[k] = 0
  <2>1. ASSUME NEW d \in DOMAIN D, d[k] # 0 PROVE \E c \in DOMAIN W : W[c] # 0
    <3>1. <<d, 1>> \in DOMAIN W /\ W[<<d, 1>>] = Size(d[k])
      BY <1>4
    <3> QED BY <1>5, <2>1, <3>1
  <2>2. ASSUME NEW c \in DOMAIN W, W[c] # 0 PROVE \E d \in DOMAIN D : d[k] # 0
    <3>1. c[1] \in DOMAIN D /\ W[c] = Size(c[1][k])
      BY <1>3
    <3> QED BY <1>5, <2>2, <3>1
  <2> QED BY <2>1, <2>2
<1> HIDE DEF W
<1> QED BY <1>6, <1>7, <1>8, CountType, CountZero

(* Events have one sign or the other.                                       *)
LEMMA VotesAre ==
  ASSUME NEW D, NEW k, Vector(D, k)
  PROVE  LET up   == {d \in DOMAIN D : d[k] > Event[k]}
             down == {d \in DOMAIN D : d[k] < -Event[k]}
         IN  /\ Events(D, k) = up \cup down
             /\ {d \in Events(D, k) : d[k] > 0} = up
             /\ {d \in Events(D, k) : d[k] < 0} = down
             /\ Count(D, Events(D, k)) = Count(D, up) + Count(D, down)
             /\ Count(D, up) \in Nat /\ Count(D, down) \in Nat
<1> DEFINE up   == {d \in DOMAIN D : d[k] > Event[k]}
           down == {d \in DOMAIN D : d[k] < -Event[k]}
<1>1. Event[k] \in Nat /\ \A d \in DOMAIN D : d[k] \in Int
  BY DetectionAssumption, SizesOf DEF Vector
<1>2. \A d \in DOMAIN D : Size(d[k]) > Event[k] <=> (d[k] > Event[k] \/ d[k] < -Event[k])
  BY <1>1, SizeIs
<1>3. Events(D, k) = up \cup down
  BY <1>2 DEF Events
<1>4. {d \in Events(D, k) : d[k] > 0} = up /\ {d \in Events(D, k) : d[k] < 0} = down
  BY <1>1, <1>3
<1>5. up \cap down = {} /\ up \in SUBSET DOMAIN D /\ down \in SUBSET DOMAIN D /\ Weights(D)
  BY <1>1 DEF Vector, Bagged
<1>6. Count(D, up \cup down) = Count(D, up) + Count(D, down)
  <2> HIDE DEF up, down
  <2> QED BY <1>5, CountAdds
<1>7. Count(D, up) \in Nat /\ Count(D, down) \in Nat
  <2> HIDE DEF up, down
  <2> QED BY <1>5, CountType
<1>8. Count(D, Events(D, k)) = Count(D, up) + Count(D, down)
  <2> HIDE DEF up, down
  <2> QED BY <1>3, <1>6, Zenon
<1> QED BY <1>3, <1>4, <1>7, <1>8

(* Enough steps of one sign, on the only axis that moves, are coherent.     *)
LEMMA StepsDecide ==
  ASSUME NEW D, NEW k, Vector(D, k),
         \A d \in DOMAIN D : d[Other(k)] = 0,
         NEW u \in Nat, NEW w \in Nat,
         \/ /\ u = Count(D, {d \in DOMAIN D : d[k] > Event[k]})
            /\ w = Count(D, {d \in DOMAIN D : d[k] < -Event[k]})
         \/ /\ w = Count(D, {d \in DOMAIN D : d[k] > Event[k]})
            /\ u = Count(D, {d \in DOMAIN D : d[k] < -Event[k]}),
         u >= MinEvents, 100 * w <= (100 - Coherence) * (u + w)
  PROVE  CoherentAxis(D) = {k}
<1> DEFINE up   == {d \in DOMAIN D : d[k] > Event[k]}
           down == {d \in DOMAIN D : d[k] < -Event[k]}
           a == Count(D, up)
           b == Count(D, down)
<1>1. /\ {d \in Events(D, k) : d[k] > 0} = up /\ {d \in Events(D, k) : d[k] < 0} = down
      /\ Count(D, Events(D, k)) = a + b /\ a \in Nat /\ b \in Nat
      /\ Events(D, k) = up \cup down
  BY VotesAre
<1>2. \/ u = a /\ w = b
      \/ w = a /\ u = b
  OBVIOUS
<1>3. /\ MinEvents \in Nat /\ MinEvents > 0 /\ Event[k] \in Nat
      /\ Coherence \in Nat /\ Coherence <= 100
  BY DetectionAssumption DEF Vector
<1>4. Dominant(D) = k
  <2>1. \E d \in DOMAIN D : d[k] # 0
    <3> SUFFICES ASSUME \A d \in DOMAIN D : d[k] = 0 PROVE FALSE
      OBVIOUS
    <3>1. up = {} /\ down = {}
      BY <1>3
    <3>2. Count(D, {}) = 0
      BY CountZero DEF Vector, Bagged
    <3>3. a = 0 /\ b = 0
      BY <3>1, <3>2, Zenon
    <3> QED BY <1>2, <1>3, <3>3
  <2>2. Way(D, DOMAIN D, k) \in Nat /\ Way(D, DOMAIN D, k) # 0
    BY <2>1, WayIs
  <2>3. Vector(D, Other(k)) /\ k \in {"x", "y"}
    BY DEF Vector, Other
  <2>4. Way(D, DOMAIN D, Other(k)) = 0
    BY <2>3, WayIs
  <2>5. CASE k = "x"
    <3>1. Other(k) = "y"
      BY <2>5 DEF Other
    <3>2. Way(D, DOMAIN D, "x") \in Nat /\ Way(D, DOMAIN D, "y") = 0
      BY <2>2, <2>4, <2>5, <3>1, Zenon
    <3> QED BY <2>5, <3>2 DEF Dominant
  <2>6. CASE k = "y"
    <3>1. Other(k) = "x"
      BY <2>6 DEF Other
    <3>2. /\ Way(D, DOMAIN D, "y") \in Nat /\ Way(D, DOMAIN D, "y") # 0
          /\ Way(D, DOMAIN D, "x") = 0
      BY <2>2, <2>4, <2>6, <3>1, Zenon
    <3> QED BY <2>6, <3>2 DEF Dominant
  <2> QED BY <2>3, <2>5, <2>6
<1>5. Count(D, Events(D, k)) >= MinEvents
  <2> HIDE DEF a, b
  <2> QED BY <1>1, <1>2, <1>3
<1>6. Shared(D, k) <=> 100 * Most(a, b) >= Coherence * (a + b)
  <2> HIDE DEF a, b
  <2>1. /\ Count(D, {d \in Events(D, k) : d[k] > 0}) = a
        /\ Count(D, {d \in Events(D, k) : d[k] < 0}) = b
    BY <1>1, Zenon DEF a, b
  <2> QED BY <1>1, <2>1, Zenon DEF Shared
<1>7. 100 * Most(a, b) >= Coherence * (a + b)
  <2> HIDE DEF a, b
  <2>1. a + b = u + w /\ Most(a, b) \in Nat /\ Most(a, b) >= u
    BY <1>1, <1>2 DEF Most
  <2> DEFINE n == u + w
             p == Coherence * n
  <2>2. n \in Nat /\ p \in Nat
    BY <1>3
  <2>3. (100 - Coherence) * n = 100 * n - p
    BY <1>3, <2>2
  <2>4. 100 * u >= p
    <3>1. 100 * w <= 100 * n - p /\ n = u + w
      BY <2>3
    <3> HIDE DEF p, n
    <3> QED BY <2>2, <3>1
  <2>5. 100 * Most(a, b) >= p
    <3> HIDE DEF p
    <3> QED BY <2>1, <2>2, <2>4
  <2> QED BY <2>1, <2>5
<1> QED BY <1>4, <1>5, <1>6, <1>7 DEF CoherentAxis

(* Without enough events or without a common sign no axis is coherent.      *)
LEMMA TurnsDecide ==
  ASSUME NEW D, Vector(D, "x"),
         \A k \in {"x", "y"} :
            LET u == Count(D, {d \in DOMAIN D : d[k] > Event[k]})
                w == Count(D, {d \in DOMAIN D : d[k] < -Event[k]})
                all == Count(D, Events(D, k))
            IN  \/ all < MinEvents
                \/ 100 * u < Coherence * all /\ 100 * w < Coherence * all
  PROVE  CoherentAxis(D) = {}
<1> DEFINE k == Dominant(D)
<1>1. Vector(D, k) /\ k \in {"x", "y"}
  BY DEF Vector, Dominant
<1> HIDE DEF k
<1> DEFINE up   == {d \in DOMAIN D : d[k] > Event[k]}
           down == {d \in DOMAIN D : d[k] < -Event[k]}
           a == Count(D, up)
           b == Count(D, down)
           all == Count(D, Events(D, k))
<1>2. /\ {d \in Events(D, k) : d[k] > 0} = up /\ {d \in Events(D, k) : d[k] < 0} = down
      /\ all = a + b /\ a \in Nat /\ b \in Nat
  BY <1>1, VotesAre
<1>3. all < MinEvents \/ (100 * a < Coherence * all /\ 100 * b < Coherence * all)
  BY <1>1
<1>4. Shared(D, k) <=> 100 * Most(a, b) >= Coherence * all
  <2> HIDE DEF a, b, all
  <2>1. /\ Count(D, {d \in Events(D, k) : d[k] > 0}) = a
        /\ Count(D, {d \in Events(D, k) : d[k] < 0}) = b
    BY <1>2, Zenon DEF a, b
  <2> QED BY <2>1, Zenon DEF Shared, all
<1> HIDE DEF a, b, all
<1>5. MinEvents \in Nat /\ Coherence \in Nat /\ all \in Nat /\ Coherence * all \in Nat
  BY <1>2, DetectionAssumption
<1>6. ~ (all >= MinEvents /\ Shared(D, k))
  <2>1. Most(a, b) = a \/ Most(a, b) = b
    BY DEF Most
  <2> QED BY <1>2, <1>3, <1>4, <1>5, <2>1
<1> QED BY <1>6, Zenon DEF CoherentAxis, k, all

(* The same of the pairs measured: a flow,                                  *)
LEMMA FlowFound ==
  ASSUME NEW k, Vector(shifts, k), Flows(k)
  PROVE  ModeOf(shifts) = ModeAlong(k)
<1> DEFINE S == {d \in DOMAIN shifts : Size(d[k]) > Static}
           T == {d \in DOMAIN shifts : Size(d[Other(k)]) <= Static}
<1>1. 2 * Count(shifts, S) > Number(shifts) /\ 2 * Count(shifts, T) > Number(shifts)
  BY DEF Flows, Pairs, N2
<1>2. S \in SUBSET DOMAIN shifts /\ T \in SUBSET DOMAIN shifts
  OBVIOUS
<1>3. (\A d \in S : Size(d[k]) > Static) /\ (\A d \in T : Size(d[Other(k)]) <= Static)
  OBVIOUS
<1> HIDE DEF S, T
<1> QED BY <1>1, <1>2, <1>3, FlowDecides

(* the vote when most pairs are still,                                      *)
LEMMA StillVotes ==
  ASSUME NEW k, Vector(shifts, k), 2 * Pairs(Still) > N2
  PROVE  ModeOf(shifts) = CASE CoherentAxis(shifts) = {"y"} -> "vertical"
                            [] CoherentAxis(shifts) = {"x"} -> "horizontal"
                            [] OTHER -> "paginated"
<1> DEFINE S == {d \in DOMAIN shifts : Still(d)}
<1>1. 2 * Count(shifts, S) > Number(shifts)
  BY DEF Pairs, N2
<1>2. S \in SUBSET DOMAIN shifts /\ (\A d \in S : Still(d)) /\ Vector(shifts, "x")
  BY DEF Vector
<1> HIDE DEF S
<1> QED BY <1>1, <1>2, VotesDecide

\* A sign, and the displacements that have it.
LEMMA Signed ==
  ASSUME NEW k, Vector(shifts, k), NEW sign \in {1, -1}
  PROVE  LET up   == {d \in DOMAIN shifts : d[k] > Event[k]}
             down == {d \in DOMAIN shifts : d[k] < -Event[k]}
         IN  /\ sign = 1 => /\ {d \in DOMAIN shifts : sign * d[k] > Event[k]} = up
                            /\ {d \in DOMAIN shifts : sign * d[k] < -Event[k]} = down
             /\ sign = -1 => /\ {d \in DOMAIN shifts : sign * d[k] > Event[k]} = down
                             /\ {d \in DOMAIN shifts : sign * d[k] < -Event[k]} = up
<1>1. Event[k] \in Nat /\ \A d \in DOMAIN shifts : d[k] \in Int
  BY DetectionAssumption, SizesOf DEF Vector
<1>2. ASSUME NEW d \in DOMAIN shifts
      PROVE  /\ 1 * d[k] = d[k]
             /\ (-1) * d[k] > Event[k] <=> d[k] < -Event[k]
             /\ (-1) * d[k] < -Event[k] <=> d[k] > Event[k]
  BY <1>1
<1> QED BY <1>2

(* steps,                                                                   *)
LEMMA StepFound ==
  ASSUME NEW k, Vector(shifts, k), Steps(k)
  PROVE  ModeOf(shifts) = ModeAlong(k)
<1>1. PICK sign \in {1, -1} :
        LET steps == Pairs(LAMBDA d : sign * d[k] > Event[k])
            wrong == Pairs(LAMBDA d : sign * d[k] < -Event[k]) IN
        /\ 2 * Pairs(Still) > N2
        /\ Pairs(LAMBDA d : d[Other(k)] # 0) = 0
        /\ steps >= MinEvents
        /\ 100 * wrong <= (100 - Coherence) * (steps + wrong)
  BY DEF Steps
<1> DEFINE U == {d \in DOMAIN shifts : sign * d[k] > Event[k]}
           W == {d \in DOMAIN shifts : sign * d[k] < -Event[k]}
           Z == {d \in DOMAIN shifts : d[Other(k)] # 0}
           up   == {d \in DOMAIN shifts : d[k] > Event[k]}
           down == {d \in DOMAIN shifts : d[k] < -Event[k]}
<1>2. /\ 2 * Pairs(Still) > N2
      /\ Count(shifts, Z) = 0
      /\ Count(shifts, U) >= MinEvents
      /\ 100 * Count(shifts, W) <= (100 - Coherence) * (Count(shifts, U) + Count(shifts, W))
  BY <1>1 DEF Pairs
<1>3. /\ U \in SUBSET DOMAIN shifts /\ W \in SUBSET DOMAIN shifts
      /\ Z \in SUBSET DOMAIN shifts /\ Weights(shifts)
  BY DEF Vector, Bagged
<1>4. \A d \in DOMAIN shifts : d[Other(k)] = 0
  <2>1. \A d \in Z : shifts[d] = 0
    <3> HIDE DEF Z
    <3> QED BY <1>2, <1>3, CountZero
  <2>2. \A d \in DOMAIN shifts : shifts[d] > 0 /\ shifts[d] \in Nat
    BY DEF Vector, Bagged, Weights
  <2> QED BY <2>1, <2>2
<1>5. \/ U = up /\ W = down
      \/ W = up /\ U = down
  BY Signed
<1> DEFINE u == Count(shifts, U)
           w == Count(shifts, W)
<1>6. u \in Nat /\ w \in Nat
  <2> HIDE DEF U, W
  <2> QED BY <1>3, CountType
<1>7. \/ u = Count(shifts, up) /\ w = Count(shifts, down)
      \/ w = Count(shifts, up) /\ u = Count(shifts, down)
  <2> HIDE DEF U, W, up, down
  <2> QED BY <1>5, Zenon
<1>8. u >= MinEvents /\ 100 * w <= (100 - Coherence) * (u + w)
  BY <1>2
<1> HIDE DEF u, w
<1>9. CoherentAxis(shifts) = {k}
  BY <1>4, <1>6, <1>7, <1>8, StepsDecide
<1>10. k \in {"x", "y"}
  BY DEF Vector
<1> QED BY <1>2, <1>9, <1>10, StillVotes DEF ModeAlong

(* and page turns.                                                          *)
LEMMA TurnFound ==
  ASSUME Vector(shifts, "x"), Turns
  PROVE  ModeOf(shifts) = "paginated"
<1>1. /\ 2 * Pairs(Still) > N2
      /\ \A k \in {"x", "y"}, sign \in {1, -1} :
              LET one == Pairs(LAMBDA d : sign * d[k] > Event[k])
                  all == Pairs(LAMBDA d : Size(d[k]) > Event[k]) IN
              all < MinEvents \/ 100 * one < Coherence * all
  BY DEF Turns
<1>2. ASSUME NEW k \in {"x", "y"}
      PROVE  LET u == Count(shifts, {d \in DOMAIN shifts : d[k] > Event[k]})
                 w == Count(shifts, {d \in DOMAIN shifts : d[k] < -Event[k]})
                 all == Count(shifts, Events(shifts, k))
             IN  \/ all < MinEvents
                 \/ 100 * u < Coherence * all /\ 100 * w < Coherence * all
  <2> DEFINE one(sign) == Count(shifts, {d \in DOMAIN shifts : sign * d[k] > Event[k]})
             u == Count(shifts, {d \in DOMAIN shifts : d[k] > Event[k]})
             w == Count(shifts, {d \in DOMAIN shifts : d[k] < -Event[k]})
             all == Count(shifts, Events(shifts, k))
  <2>1. \A sign \in {1, -1} : all < MinEvents \/ 100 * one(sign) < Coherence * all
    BY <1>1 DEF Pairs, Events
  <2>2. Vector(shifts, k)
    BY DEF Vector
  <2>3. one(1) = u /\ one(-1) = w
    <3>1. /\ {d \in DOMAIN shifts : 1 * d[k] > Event[k]} = {d \in DOMAIN shifts : d[k] > Event[k]}
          /\ {d \in DOMAIN shifts : (-1) * d[k] > Event[k]} = {d \in DOMAIN shifts : d[k] < -Event[k]}
      BY <2>2, Signed
    <3> QED BY <3>1, Zenon
  <2>4. /\ all < MinEvents \/ 100 * one(1) < Coherence * all
        /\ all < MinEvents \/ 100 * one(-1) < Coherence * all
    BY <2>1
  <2> HIDE DEF one, u, w, all
  <2>5. all < MinEvents \/ (100 * u < Coherence * all /\ 100 * w < Coherence * all)
    BY <2>3, <2>4
  <2> QED BY <2>5 DEF u, w, all
<1>3. CoherentAxis(shifts) = {}
  BY <1>2, TurnsDecide
<1> QED BY <1>1, <1>3, StillVotes

(* Any number of pairs of any displacements: a video that flows or steps    *)
(* along an axis is a scroll along it, whatever few pairs were misread      *)
(* along it, and one that turns pages is paged (advance.py:76-129).         *)
THEOREM ModeIsFound == AnalysisSpec => []ModeFound
<1>1. Measured => ModeFound
  <2> SUFFICES ASSUME Measured, pc = "mode", shifts # EmptyBag
               PROVE  /\ \A k \in {"x", "y"} : Flows(k) \/ Steps(k) => mode = ModeAlong(k)
                      /\ Turns => mode = "paginated"
    BY DEF ModeFound
  <2>1. Bagged(shifts) /\ DOMAIN shifts \subseteq [x : Int, y : Int] /\ mode = ModeOf(shifts)
    BY DEF Measured
  <2>2. DOMAIN shifts # {}
    <3> SUFFICES ASSUME DOMAIN shifts = {} PROVE shifts = EmptyBag
      OBVIOUS
    <3>1. shifts = [x \in DOMAIN shifts |-> shifts[x]]
      BY <2>1 DEF Bagged, Weights
    <3> QED BY <3>1 DEF EmptyBag, SetToBag
  <2>3. \A k \in {"x", "y"} : Vector(shifts, k)
    BY <2>1, <2>2, SomeMember DEF Vector
  <2> QED BY <2>1, <2>3, FlowFound, StepFound, TurnFound
<1> QED BY <1>1, AlwaysMeasured, PTL
=============================================================================
