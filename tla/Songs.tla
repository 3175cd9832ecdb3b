-------------------------------- MODULE Songs --------------------------------
(***************************************************************************)
(* Segmentation of a video into songs (tabextract/songs.py).               *)
(*                                                                         *)
(* What lies outside the tablature is reduced to the scene that each frame *)
(* shows (a title card, a camera), two frames of one scene being alike and *)
(* two of different scenes far apart.  Frames that open a new scene are    *)
(* outliers, neighbouring outliers become one boundary, boundaries between *)
(* segments that look alike are dropped, and segments too short for a song *)
(* are merged into a neighbour.                                            *)
(***************************************************************************)
EXTENDS Integers, FiniteSets

CONSTANTS
    Scenes,      \* what the area outside the tablature may show
    MaxFrames,   \* bound: frames of the video
    Gap,         \* CLUSTER_GAP_FRAMES
    MinLen       \* MIN_SEGMENT_FRAMES

ASSUME SongsAssumption ==
    /\ MaxFrames \in Nat \ {0}
    /\ Gap \in Nat
    /\ MinLen \in Nat \ {0, 1}
    /\ 2 * Gap < MinLen

VARIABLES
    scene,       \* the scene of each frame, 0 .. n-1
    still,       \* whether most frames are the one before them, to the pixel
    rest,        \* outliers that no candidate stands for yet
    bounds,      \* the list `bounds`, as the set of its members
    pc           \* "cluster", "merge", "shorten" or "done"

vars == <<scene, still, rest, bounds, pc>>

N == Cardinality(DOMAIN scene)

-----------------------------------------------------------------------------
(* Frames at which the scene changes.                                       *)
Changes(s) == {i \in DOMAIN s \ {0} : s[i] # s[i - 1]}

(* The distances of consecutive frames are measured against their median:   *)
(* while changes are the exception they are outliers, and once half of the  *)
(* frames change nothing stands out any more.                               *)
Outliers(s) ==
    IF 2 * Cardinality(Changes(s)) < Cardinality(DOMAIN s) - 1
    THEN Changes(s) ELSE {}

Init ==
    /\ \E n \in 1 .. MaxFrames : scene \in [0 .. n - 1 -> Scenes]
    /\ still \in BOOLEAN
    /\ rest = Outliers(scene)
    /\ bounds = {0, N}
    /\ pc = "cluster"

(* Mutant of Cluster: every outlier is a boundary. *)
Alone(S) == {i \in S : \A k \in S : i <= k}

(* The first cluster of a set of outliers: each at most Gap frames after    *)
(* the one before it.                                                       *)
Cluster(S) ==
    {i \in S : \A k \in S :
        k < i => \E m \in S : k < m /\ m <= i /\ m - k <= Gap}

(* Mutant of TakeCluster: the last frame of the old scene is the boundary. *)
TakeClusterBefore ==
    /\ pc = "cluster"
    /\ rest # {}
    /\ \E peak \in Cluster(rest) : bounds' = bounds \cup {peak - 1}
    /\ rest' = rest \ Cluster(rest)
    /\ UNCHANGED <<scene, still, pc>>

(* The outlier of the cluster with the highest score is a candidate.        *)
TakeCluster ==
    /\ pc = "cluster"
    /\ rest # {}
    /\ \E peak \in Cluster(rest) : bounds' = bounds \cup {peak}
    /\ rest' = rest \ Cluster(rest)
    /\ UNCHANGED <<scene, still, pc>>

Clustered ==
    /\ pc = "cluster"
    /\ rest = {}
    /\ pc' = "merge"
    /\ UNCHANGED <<scene, still, rest, bounds>>

-----------------------------------------------------------------------------
(* The boundaries next to b. *)
Before(b) ==
    CHOOSE a \in bounds : a < b /\ \A d \in bounds : d < b => d <= a

After(b) ==
    CHOOSE c \in bounds : b < c /\ \A d \in bounds : b < d => c <= d

Interior == bounds \ {0, N}

(* What a segment shows, by the median of its frames: the scene that most   *)
(* of them show, or a mixture of which nothing is known.                    *)
Rep(a, b) ==
    LET Shows(s) == {i \in a .. b - 1 : scene[i] = s}
    IN  {s \in Scenes : 2 * Cardinality(Shows(s)) > b - a}

(* The segments on both sides of b. *)
Left(b) == Rep(Before(b), b)
Right(b) == Rep(b, After(b))

Alike(b) == Left(b) # {} /\ Left(b) = Right(b)
Unlike(b) == Left(b) # {} /\ Right(b) # {} /\ Left(b) # Right(b)

(* Mutant of Merge: the boundary stays and the scan starts again. *)
MergeNothing ==
    /\ pc = "merge" /\ ~still
    /\ \E b \in Interior : Alike(b)
    /\ UNCHANGED vars

(* The first boundary with the same scene on both sides goes, and the scan  *)
(* starts again.  Two pictures are the same if they differ by less than 1.5 *)
(* times the median distance of consecutive frames, which two pictures of   *)
(* one scene are taken to do: they are medians, and vary less than frames.  *)
(* In a still video that median is 0, and no two pictures differ by less.   *)
Merge ==
    /\ pc = "merge" /\ ~still
    /\ \E b \in Interior :
        /\ ~Unlike(b)
        /\ \A a \in Interior : a < b => ~Alike(a)
        /\ bounds' = bounds \ {b}
    /\ UNCHANGED <<scene, still, rest, pc>>

Merged ==
    /\ pc = "merge"
    /\ still \/ \A b \in Interior : ~Alike(b)
    /\ pc' = "shorten"
    /\ UNCHANGED <<scene, still, rest, bounds>>

-----------------------------------------------------------------------------
(* Segments are named by the frame they start at.                           *)
Starts == bounds \ {N}

Length(a) == After(a) - a

(* The first of the shortest segments. *)
Shortest ==
    CHOOSE a \in Starts : \A b \in Starts :
        Length(a) < Length(b) \/ (Length(a) = Length(b) /\ a <= b)

(* The boundaries that merge segment a into a neighbour: at the ends of the *)
(* video there is one, in between the one to the neighbour it resembles     *)
(* most.                                                                    *)
Dropped(a) ==
    IF a = 0 THEN {After(a)}
    ELSE IF After(a) = N \/ (Alike(a) /\ Unlike(After(a))) THEN {a}
    ELSE IF Unlike(a) /\ Alike(After(a)) THEN {After(a)}
    ELSE {a, After(a)}

Shorten ==
    /\ pc = "shorten"
    /\ Interior # {}
    /\ Length(Shortest) < MinLen
    /\ \E b \in Dropped(Shortest) : bounds' = bounds \ {b}
    /\ UNCHANGED <<scene, still, rest, pc>>

Segmented ==
    /\ pc = "shorten"
    /\ Interior = {} \/ Length(Shortest) >= MinLen
    /\ pc' = "done"
    /\ UNCHANGED <<scene, still, rest, bounds>>

Finished == pc = "done" /\ UNCHANGED vars

Next ==
    \/ TakeCluster \/ Clustered
    \/ Merge \/ Merged
    \/ Shorten \/ Segmented
    \/ Finished

Spec == Init /\ [][Next]_vars /\ WF_vars(Next)

-----------------------------------------------------------------------------
(* Type invariant; the songs always cover the video from its first frame to *)
(* its last (the list that songs.py:95 builds and 112-136 pops from).       *)
TypeOK ==
    /\ \E n \in 1 .. MaxFrames : scene \in [0 .. n - 1 -> Scenes]
    /\ still \in BOOLEAN
    /\ rest \subseteq 1 .. N - 1
    /\ {0, N} \subseteq bounds
    /\ bounds \subseteq 0 .. N
    /\ pc \in {"cluster", "merge", "shorten", "done"}

(* When a video is cut into songs at all, none of them is shorter than a    *)
(* plausible song (songs.py:121-136).                                       *)
LongEnough ==
    pc = "done" /\ Interior # {} => \A a \in Starts : Length(a) >= MinLen

(* A video in which every scene stays as long as a song lasts is cut where  *)
(* the scene changes, and nowhere else: neither the clusters nor the two    *)
(* rounds of merging take a real boundary away (songs.py:86-136).           *)
Steady ==
    \A a, b \in Changes(scene) \cup {0, N} : a < b => b - a >= MinLen

SongsFound ==
    pc = "done" /\ Steady => Interior = Changes(scene)

(* A cutaway of at most Gap frames, wherever it falls, does not divide a    *)
(* song in two (the clusters of songs.py:86-93, and the merging after).  In *)
(* a still video, where nothing is merged for being alike, it may: but in   *)
(* two songs at most, and at the cutaway.                                   *)
Cutaway(m) ==
    \E s \in Scenes : \A i \in DOMAIN scene : i < m \/ i >= m + Gap => scene[i] = s

CutawayIgnored == pc = "done" => \A m \in 0 .. N : Cutaway(m) =>
    \/ Interior = {}
    \/ still /\ \E p \in m .. m + Gap : Interior = {p}

(* The segmentation ends: every round takes a boundary away                 *)
(* (songs.py:102 and 121).                                                  *)
Ends == <>(pc = "done")

(* A cutaway that is too short for a song does not divide one, because      *)
(* "false positives from camera cuts are filtered by merging adjacent       *)
(* segments whose title signature matches" (songs.py:5-7).  It does not hold: *)
(* two clusters with less than a song between them may keep a boundary, and *)
(* in a still video a single cluster does.                                  *)
BriefCutaway ==
    \E s \in Scenes, m \in 0 .. N : \A i \in DOMAIN scene :
        i < m \/ i >= m + MinLen - 1 => scene[i] = s

CameraCutsFiltered == pc = "done" /\ ~still /\ BriefCutaway => Interior = {}

StillCutsFiltered == pc = "done" /\ still /\ BriefCutaway => Interior = {}
=============================================================================
