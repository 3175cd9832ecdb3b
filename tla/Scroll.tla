------------------------------- MODULE Scroll --------------------------------
(***************************************************************************)
(* A song of a scrolling video (tabextract/compose.py, layout.py,          *)
(* verify.py): the motion between frames is measured and added up, the     *)
(* frames are merged into one canvas band by band, the canvas is cut into  *)
(* systems, and these become the bands of the sheets.                      *)
(*                                                                         *)
(* The score is a column of rows, numbered from 0; each frame shows L of   *)
(* them.  A vertical scroll; the canvas of a horizontal one comes about in *)
(* the same way, transposed, and is cut along its staves.                  *)
(***************************************************************************)
EXTENDS Layout, FiniteSets

CONSTANTS
    MaxMotion,        \* bound: rows that the score moves between two frames
    L,                \* rows of the region
    Half,             \* half the height of the template
    BandRows,         \* BAND
    BlankRows,        \* rows of the score without ink
    MinInk            \* MIN_INK_PER_BLOCK, counted in rows with ink

ASSUME ScrollAssumption ==
    /\ {MaxMotion, L, Half, BandRows, MinInk} \subseteq Nat
    /\ 0 < L /\ 0 < BandRows /\ 0 < Half /\ 2 * Half <= L
    /\ BlankRows \subseteq Nat

VARIABLES
    at,          \* the first row that each frame shows
    offsets,     \* where it was measured to be
    unresolved,  \* the pairs of frames that could not be measured
    canvas,      \* what each row of the canvas shows, as far as it is composed
    few          \* the first rows of the bands with few contributors

scrollVars == <<at, offsets, unresolved, canvas, few>>
vars == <<scrollVars, pc, layoutVars>>

White == -1      \* no ink
Black == -2      \* nothing was written there
Mixed == -3      \* different rows on top of each other

N == Len(at)

Init ==
    /\ at = <<0>>
    /\ offsets = <<0>>
    /\ unresolved = {}
    /\ canvas = <<>>
    /\ few = {}
    /\ pc = "film"
    /\ LayoutInit

-----------------------------------------------------------------------------
(* The template is the strip of 2 * Half rows at the bottom of a frame, so  *)
(* that a motion of up to Base can be found by it.                          *)
Base == L - 2 * Half

(* How a motion of m may come out.  The template is found where it is, if   *)
(* it is still in sight.  Otherwise the second estimator has a say: it is   *)
(* right or out of range as long as the frames have rows in common, and     *)
(* arbitrary when they have none.                                           *)
Matched(m) == IF m <= Base THEN {m} ELSE {}

(* Mutant of Correlated: the range of the second estimator is not checked.  *)
CorrelatedAnyhow(m) == IF m < L THEN {m} ELSE 0 .. 2 * L

Correlated(m) == IF m < L THEN {m} ELSE 0 .. L - 1

Measured(m) == Matched(m) \cup Correlated(m)

(* Mutant of Unmeasured: the pair is taken to show no motion. *)
Forgotten == unresolved

Unmeasured == unresolved \cup {N}

Film ==
    /\ pc = "film"
    /\ N < MaxFrames
    /\ \E m \in 0 .. MaxMotion :
        /\ at' = Append(at, at[N] + m)
        /\ \/ /\ \E d \in Measured(m) : offsets' = Append(offsets, offsets[N] + d)
              /\ UNCHANGED unresolved
           \/ /\ offsets' = Append(offsets, offsets[N])
              /\ unresolved' = Unmeasured
    /\ UNCHANGED <<canvas, few, pc, layoutVars>>

Filmed ==
    /\ pc = "film"
    /\ pc' = "compose"
    /\ UNCHANGED <<at, offsets, unresolved, canvas, few, layoutVars>>

-----------------------------------------------------------------------------
Total == offsets[N] + L

Smaller(a, b) == IF a <= b THEN a ELSE b

(* Frames that reach the whole of the rows y0 .. y1 - 1, or some of them.   *)
Whole(y0, y1) == {i \in 1 .. N : offsets[i] <= y0 /\ offsets[i] + L >= y1}
Part(y0, y1) == {i \in 1 .. N : offsets[i] < y1 /\ offsets[i] + L > y0}

(* The row of the score that frame i has at row y of the canvas, white when *)
(* the frame does not reach it.                                             *)
RowOf(i, y) ==
    IF offsets[i] <= y /\ y < offsets[i] + L THEN at[i] + y - offsets[i] ELSE White

(* The median of a row shows what most frames show there. *)
MedianRow(g, y) ==
    LET most == {r \in {RowOf(i, y) : i \in g} :
                    2 * Cardinality({i \in g : RowOf(i, y) = r}) > Cardinality(g)}
    IN  IF most = {} THEN Mixed ELSE CHOOSE r \in most : TRUE

(* The maximum shows the lightest: any white leaves nothing else.           *)
LightestRow(g, y) ==
    LET all == {RowOf(i, y) : i \in g}
    IN  IF all = {} THEN Black
        ELSE IF White \in all THEN White
        ELSE IF Cardinality(all) = 1 THEN CHOOSE r \in all : TRUE
        ELSE Mixed

ComposeBand ==
    LET y0 == Len(canvas)
        y1 == Smaller(y0 + BandRows, Total)
        whole == Whole(y0, y1)
        scarce == Cardinality(whole) < MinContributors
        Row(y) == IF scarce THEN LightestRow(Part(y0, y1), y) ELSE MedianRow(whole, y)
    IN  /\ pc = "compose"
        /\ y0 < Total
        /\ canvas' = canvas \o [k \in 1 .. y1 - y0 |-> Row(y0 + k - 1)]
        /\ few' = IF scarce THEN few \cup {y0} ELSE few
        /\ UNCHANGED <<at, offsets, unresolved, pc, layoutVars>>

-----------------------------------------------------------------------------
Blank(y) == canvas[y + 1] \in {White} \cup BlankRows

Rows == 0 .. Len(canvas) - 1

Ink(a, b) == {y \in a .. b - 1 : ~Blank(y)}

(* Runs of blank rows [a, b), and the centres at which they may be cut.     *)
Gaps ==
    {g \in Rows \X (1 .. Len(canvas)) :
        /\ g[1] < g[2] /\ Ink(g[1], g[2]) = {}
        /\ g[1] = 0 \/ ~Blank(g[1] - 1)
        /\ g[2] = Len(canvas) \/ ~Blank(g[2])}

(* Mutant of Centre: the cut is where the gap ends. *)
GapEnd(g) == g[2]

Centre(g) == (g[1] + g[2]) \div 2

(* Which gaps divide systems depends on their sizes and on the barlines     *)
(* that bridge them.  Blocks with next to no ink are dropped, if not all    *)
(* are.                                                                     *)
Blocks(gaps) ==
    LET cuts == {0, Len(canvas)} \cup {Centre(g) : g \in gaps}
        pairs == {p \in cuts \X cuts :
                    p[1] < p[2] /\ \A c \in cuts : c <= p[1] \/ p[2] <= c}
        inked == {p \in pairs : Cardinality(Ink(p[1], p[2])) > MinInk}
    IN  IF inked = {} THEN {<<0, Len(canvas)>>} ELSE inked

(* The blocks from top to bottom: there is one such sequence. *)
InOrder(blocks) ==
    {s \in [1 .. Cardinality(blocks) -> blocks] :
        \A j, k \in DOMAIN s : j < k => s[j][1] < s[k][1]}

Cut ==
    /\ pc = "compose"
    /\ Len(canvas) = Total
    /\ \E gaps \in SUBSET Gaps : \E s \in InOrder(Blocks(gaps)) :
        todo' = [k \in DOMAIN s |-> [rows |-> s[k], height |-> s[k][2] - s[k][1]]]
    /\ pc' = "layout"
    /\ UNCHANGED <<at, offsets, unresolved, canvas, few, rows, used, sheets>>

Next ==
    \/ Film \/ Filmed \/ ComposeBand \/ Cut
    \/ (LayOut \/ Save) /\ UNCHANGED scrollVars
    \/ Finished /\ UNCHANGED vars

Spec == Init /\ [][Next]_vars

-----------------------------------------------------------------------------
(* The report: a jump as large as the region, or a pair without measurement.*)
MaxJump ==
    LET jumps == {offsets[i + 1] - offsets[i] : i \in 1 .. N - 1}
    IN  IF jumps = {} THEN 0 ELSE CHOOSE j \in jumps : \A k \in jumps : k <= j

OverlapOk == N < 2 \/ (MaxJump < L /\ unresolved = {})

(* Type invariant. *)
TypeOK ==
    /\ at \in Seq(Nat) /\ offsets \in Seq(Nat)
    /\ Len(offsets) = N /\ N \in 1 .. MaxFrames
    /\ unresolved \subseteq 1 .. N - 1
    /\ canvas \in Seq(Nat \cup {White, Black, Mixed})
    /\ few \subseteq 0 .. Total
    /\ pc \in {"film", "compose", "layout", "done", "failed"}

(* Every row of the canvas is in reach of some frame, so that none stays    *)
(* black (compose.py:178, 197-212).                                         *)
CanvasCovered ==
    /\ \A y \in 0 .. Total - 1 : \E i \in 1 .. N : offsets[i] <= y /\ y < offsets[i] + L
    /\ \A k \in DOMAIN canvas : canvas[k] # Black

(* When every band has enough frames, and no motion leaves the region, the  *)
(* canvas is the score as far as the video shows it, row by row; or the     *)
(* report says that a pair was not measured (compose.py:121-144,            *)
(* tests/test_scroll_offset_loss_is_loud.py).                               *)
ScoreOrReport ==
    /\ pc \in {"layout", "done"} /\ few = {}
    /\ \A i \in 1 .. N - 1 : at[i + 1] - at[i] < L
    => \/ ~OverlapOk
       \/ canvas = [k \in 1 .. at[N] + L |-> k - 1]

(* Rows with ink that touch each other, when they are more than next to     *)
(* nothing, are printed, all in one system; no system begins on ink; and    *)
(* the systems are printed in their order, none twice (layout.py:115-151,   *)
(* verify.py:296-313).                                                      *)
InkPrinted ==
    pc \in {"layout", "done"} =>
        LET B == [k \in DOMAIN Printed |-> Printed[k].rows]
        IN  /\ \A a \in Rows, b \in 1 .. Len(canvas) :
                  b - a > MinInk /\ Ink(a, b) = a .. b - 1
                  => \E k \in DOMAIN B : B[k][1] <= a /\ b <= B[k][2]
            /\ \A k \in 1 .. Len(B) - 1 : B[k][2] <= B[k + 1][1]
            /\ \A k \in DOMAIN B : B[k][1] = 0 \/ Blank(B[k][1])

(* Where there are too few frames for a median, the canvas shows the        *)
(* lightest of them or the report says so, because the code is to "fall     *)
(* back to per-pixel max and mark the region low-confidence"                *)
(* (ARCHITECTURE.md:127) and "Low coverage is flagged"                      *)
(* (README.md:169-170): every row that some frame showed, in the place that *)
(* was measured right, is on the canvas, or the report complains.           *)
(* It does not hold: the middle row of two frames may be blank.            *)
FewFramesTold ==
    pc \in {"layout", "done"} /\ offsets = at /\ OverlapOk =>
        \A y \in 0 .. Total - 1 : y \in Range(canvas)
=============================================================================
