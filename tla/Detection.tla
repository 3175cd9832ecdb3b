------------------------------ MODULE Detection ------------------------------
(***************************************************************************)
(* Where the tablature is (tabextract/region.py, with the runs of          *)
(* geometry.py) and how it advances (tabextract/advance.py).               *)
(*                                                                         *)
(* A frame is reduced to the rows that are mostly paper, to the columns    *)
(* that are, within the rows chosen, and to whether lines of a staff are   *)
(* found there; two frames to the displacement that the phase correlation  *)
(* returns.  Pixels become coarse units.                                   *)
(***************************************************************************)
EXTENDS Integers, Bags, FiniteSets

CONSTANTS Side,       \* rows, and columns, of a frame
          MaxGap,     \* row_gap and col_gap
          MinSide,    \* the smallest side a region can have (even)
          Tolerance,  \* STABILITY_TOLERANCE_FRAC of the frame
          Static,     \* STATIC_THRESHOLD_PX
          Event,      \* by axis: EVENT_MIN_PX, or EVENT_MIN_FRAC of the side of the region
          MinEvents,  \* MIN_EVENTS
          Coherence   \* COHERENCE_MIN, in percent

ASSUME DetectionAssumption ==
  /\ {Side, MaxGap, Tolerance, Static} \subseteq Nat
  /\ Event \in [{"x", "y"} -> Nat]
  /\ MinEvents \in Nat \ {0}
  /\ MinSide \in Nat \ {0} /\ MinSide % 2 = 0
  /\ Coherence \in 51..100

Line == 0 .. Side - 1

-----------------------------------------------------------------------------
(* Bags of boxes and of displacements, and their medians *)

\* Each copy of the members that are in S, numbered.
Copies(B, S) == UNION {{x} \X (1 .. B[x]) : x \in S}
Count(B, S)  == Cardinality(Copies(B, S))
Number(B)    == Count(B, DOMAIN B)

\* The k-th of the values that f gives to the members of B.
Below(f, v)     == {x \in DOMAIN f : f[x] < v}
UpTo(f, v)      == {x \in DOMAIN f : f[x] <= v}
Ranked(B, f, k) == CHOOSE v \in {f[x] : x \in DOMAIN B} :
                     Count(B, Below(f, v)) < k /\ k <= Count(B, UpTo(f, v))

\* Twice the median: the two in the middle, which may be one.
Median2(B, f) == LET n == Number(B)
                 IN  Ranked(B, f, (n + 1) \div 2) + Ranked(B, f, n \div 2 + 1)

\* round(m / 2): a half goes to the even neighbour.
HalfEven(m) == (m + (IF m % 4 = 3 THEN 1 ELSE 0)) \div 2

-----------------------------------------------------------------------------
(* The region of one frame *)

\* Mutant of Closed: what crosses the paper divides it.
Torn(mask) == mask

\* close_short_gaps_1d
Closed(mask) == mask \cup {i \in Line : \E a, b \in mask :
  /\ a < i /\ i < b /\ b - a - 1 <= MaxGap
  /\ \A k \in a + 1 .. b - 1 : k \notin mask}

\* The runs [from, to) of a mask, and the first of the longest (none or one).
Runs(mask) == {r \in Line \X (1 .. Side) : /\ r[1] < r[2] /\ r[1] .. r[2] - 1 \subseteq mask
                                         /\ {r[1] - 1, r[2]} \cap mask = {}}
Longer(r, s) == r[2] - r[1] > s[2] - s[1] \/ (r[2] - r[1] = s[2] - s[1] /\ r[1] < s[1])
LargestRun(mask) == {r \in Runs(mask) : \A s \in Runs(mask) \ {r} : Longer(r, s)}

\* Mutant of Side1D: one unit short of the smallest side will do.
Side1DLoose(mask) == {r \in LargestRun(Closed(mask)) : r[2] - r[1] >= MinSide - 1}

\* The side of the region, if its paper is wide enough.
Side1D(mask) == {r \in LargestRun(Closed(mask)) : r[2] - r[1] >= MinSide}

\* _candidate_bbox, none or one <<y0, y1, x0, x1>>; without a staff there is none.
Boxes(f) == {<<y[1], y[2], x[1], x[2]>> : y \in IF f.lined THEN Side1D(f.rows) ELSE {},
                                          x \in Side1D(f.cols)}

-----------------------------------------------------------------------------
(* The region of the video: the median of each side over the boxes found *)

Box2(B, k) == Median2(B, [b \in DOMAIN B |-> b[k]])

RegionOf(B) == <<HalfEven(Box2(B, 1)), HalfEven(Box2(B, 2)),
                 HalfEven(Box2(B, 3)), HalfEven(Box2(B, 4))>>

\* The boxes that agree with the median on every side.
Agreeing(B) == Count(B, {b \in DOMAIN B : \A k \in 1..4 :
  2 * b[k] - Box2(B, k) \in -(2 * Tolerance) .. 2 * Tolerance})

-----------------------------------------------------------------------------
(* The advance mode: D is a bag of displacements [x |-> dx, y |-> dy] *)

Size(v) == IF v < 0 THEN -v ELSE v

Sizes(D, k) == [d \in DOMAIN D |-> Size(d[k])]

\* The way that the members of S make along k: a sum, counted unit by unit.
Way(D, S, k) == Number([c \in Copies(D, S) |-> Size(c[1][k])])

\* max() over the dictionary of the axes, where x comes first.
Dominant(D) == IF Way(D, DOMAIN D, "x") >= Way(D, DOMAIN D, "y") THEN "x" ELSE "y"

Events(D, k) == {d \in DOMAIN D : Size(d[k]) > Event[k]}
Most(a, b)   == IF a > b THEN a ELSE b

\* Mutant of Shared: each event has the weight of its size.
SharedBySize(D, k) == LET up   == Way(D, {d \in Events(D, k) : d[k] > 0}, k)
                          down == Way(D, {d \in Events(D, k) : d[k] < 0}, k)
                      IN  100 * Most(up, down) >= Coherence * (up + down)

\* Enough of the events have the sign that most of them have.
Shared(D, k) == LET up   == Count(D, {d \in Events(D, k) : d[k] > 0})
                    down == Count(D, {d \in Events(D, k) : d[k] < 0})
                IN  100 * Most(up, down) >= Coherence * Count(D, Events(D, k))

\* _coherent_axis: none or one.
CoherentAxis(D) == {k \in {Dominant(D)} : Count(D, Events(D, k)) >= MinEvents /\ Shared(D, k)}

\* classify_advance_mode
ModeOf(D) ==
  LET mx == Median2(D, Sizes(D, "x"))  my == Median2(D, Sizes(D, "y")) IN
  CASE my > 2 * Static /\ my >= mx -> "vertical"
    [] mx > 2 * Static /\ mx > my  -> "horizontal"
    [] OTHER -> CASE CoherentAxis(D) = {"y"} -> "vertical"
                  [] CoherentAxis(D) = {"x"} -> "horizontal"
                  [] OTHER -> "paginated"
=============================================================================
