------------------------------ MODULE Analysis ------------------------------
(***************************************************************************)
(* The analysis of a video (analyze in tabextract/pipeline.py): the region *)
(* of the tablature and the advance mode, found or taken from a profile,   *)
(* and then the songs (Songs).  No stage looks at what another found, so   *)
(* that what a stage saw of the video is forgotten when the next begins.   *)
(***************************************************************************)
EXTENDS Songs, Detection

CONSTANTS Samples,   \* frames in which the region is looked for
          Sheets,    \* where the paper of the score may be: <<y0, y1, x0, x1>>
          Columns,   \* sets of columns that a frame may show as paper
          Vectors,   \* displacements that a pair of frames may measure
          MaxPairs   \* bound on the pairs of frames

ASSUME AnalysisAssumption ==
  /\ Sheets \subseteq {s \in Line \X (1 .. Side) \X Line \X (1 .. Side) :
                        s[2] - s[1] >= MinSide /\ s[4] - s[3] >= MinSide}
  /\ Columns \subseteq SUBSET Line
  /\ Vectors \subseteq [x : Int, y : Int]

VARIABLES sheet,     \* where the paper of the score is
          boxes,     \* the boxes found so far, a bag
          missed,    \* sampled frames without one
          clean,     \* history: sampled frames that show the sheet
          region,    \* the region and the samples that agree with it, once found
          shifts,    \* the displacements measured so far, a bag
          mode       \* the advance mode, once known

detection == <<sheet, boxes, missed, clean, region, shifts, mode>>

Modes    == {"vertical", "horizontal", "paginated"}
Unknown  == "unknown"
NoSheet  == <<0, 0, 0, 0>>
NoRegion == [box |-> NoSheet, agree |-> 0]

\* A profile that was imported may name any mode.
Profiles == Modes \cup {Unknown}

AnalysisInit ==
  /\ scene = <<>> /\ still = FALSE /\ rest = {} /\ bounds = {}
  /\ pc = "match"
  /\ sheet \in Sheets
  /\ boxes = EmptyBag /\ missed = 0 /\ clean = 0
  /\ region = NoRegion
  /\ shifts = EmptyBag
  /\ mode = Unknown

Goto(p)  == pc' = p /\ UNCHANGED <<scene, still, rest, bounds>>

\* What was seen of the video is forgotten.
Forget == /\ sheet' = NoSheet
          /\ boxes' = EmptyBag /\ missed' = 0 /\ clean' = 0
          /\ region' = NoRegion
          /\ shifts' = EmptyBag

\* A profile for the resolution decides both; AdvanceMode(...) may raise.
MatchProfile ==
  /\ pc = "match"
  /\ \/ \E p \in Profiles : /\ Goto(IF p \in Modes THEN "mode" ELSE "failed")
                            /\ Forget
                            /\ mode' = p
     \/ Goto("sample") /\ UNCHANGED detection

-----------------------------------------------------------------------------
(* detect_region *)

Frames == [rows : SUBSET Line, cols : Columns, lined : BOOLEAN]

\* The mask shows paper from a to b: nothing wider than MaxGap crosses it, and
\* what else is light is not next to it and not as wide.
ShowsRun(mask, a, b) ==
  /\ {a, b - 1} \subseteq mask
  /\ \A i \in a .. b - 2 : \E k \in i + 1 .. i + 1 + MaxGap : k \in mask /\ k < b
  /\ mask \cap (a - 1 - MaxGap .. a - 1 \cup b .. b + MaxGap) = {}
  /\ \A i, k \in mask : (k < a \/ b <= i) => k - i + 1 < b - a

Shows(f, s) == f.lined /\ ShowsRun(f.rows, s[1], s[2]) /\ ShowsRun(f.cols, s[3], s[4])

\* What a frame comes to: the box found in it (none or one), and whether it
\* shows the sheet s.
Outcomes == [s \in Sheets |-> {[found |-> Boxes(f), shows |-> Shows(f, s)] : f \in Frames}]

Sampled == Number(boxes) + missed

Sample ==
  /\ pc = "sample" /\ Sampled < Samples
  /\ \E o \in Outcomes[sheet] :
       /\ boxes' = boxes (+) SetToBag(o.found)
       /\ missed' = IF o.found = {} THEN missed + 1 ELSE missed
       /\ clean' = IF o.shows THEN clean + 1 ELSE clean
  /\ UNCHANGED <<vars, sheet, region, shifts, mode>>

\* The frames that were sampled are those of a shorter video too.
DetectRegion ==
  /\ pc = "sample" /\ Sampled > 0
  /\ IF boxes = EmptyBag
     THEN Goto("failed") /\ Forget /\ UNCHANGED mode
     ELSE /\ region' = [box |-> RegionOf(boxes), agree |-> Agreeing(boxes)]
          /\ Goto("region")
          /\ UNCHANGED <<sheet, boxes, missed, clean, shifts, mode>>

-----------------------------------------------------------------------------
(* classify_advance_mode *)

ReportAdvance == /\ pc = "region"
                 /\ Goto("advance")
                 /\ Forget /\ UNCHANGED mode

Measure(d) ==
  /\ pc = "advance" /\ Number(shifts) < MaxPairs
  /\ shifts' = shifts (+) SetToBag({d})
  /\ UNCHANGED <<vars, sheet, boxes, missed, clean, region, mode>>

\* A single frame has no pair.
Classify ==
  /\ pc = "advance"
  /\ IF shifts = EmptyBag
     THEN Goto("failed") /\ UNCHANGED detection
     ELSE /\ mode' = ModeOf(shifts)
          /\ Goto("mode")
          /\ UNCHANGED <<sheet, boxes, missed, clean, region, shifts>>

-----------------------------------------------------------------------------
(* segment_songs, for whatever video it was *)

ReportSongs == /\ pc = "mode"
               /\ Goto("songs")
               /\ Forget /\ mode' = Unknown

OpenVideo ==
  /\ pc = "songs"
  /\ \E n \in 1 .. MaxFrames : scene' \in [0 .. n - 1 -> Scenes]
  /\ still' \in BOOLEAN
  /\ rest' = Outliers(scene')
  /\ bounds' = {0, Cardinality(DOMAIN scene')}
  /\ pc' = "cluster"
  /\ UNCHANGED detection

SegmentSongs == Next /\ UNCHANGED detection

Failed == pc = "failed" /\ UNCHANGED <<vars, detection>>

AnalysisNext ==
  \/ MatchProfile
  \/ Sample \/ DetectRegion
  \/ ReportAdvance \/ (\E d \in Vectors : Measure(d)) \/ Classify
  \/ ReportSongs \/ OpenVideo \/ SegmentSongs \/ Failed

AnalysisSpec == /\ AnalysisInit /\ [][AnalysisNext]_<<vars, detection>>
                /\ WF_<<vars, detection>>(AnalysisNext)

-----------------------------------------------------------------------------
(* What the analysis promises *)

\* A score that more than half of the boxes found come from is located to the
\* unit, whatever the other samples show, and counts as certain if they all
\* show it (region.py: close_short_gaps_1d, _largest_run and the medians).
RegionIsSheet == pc = "region" /\ 2 * clean > Number(boxes) =>
  /\ region.box = sheet
  /\ region.agree >= clean

\* However the samples disagree, the region is no smaller than that of a single
\* frame has to be, and within the frame (region.py:132-142).
RegionKeepsSize == pc = "region" =>
  /\ \A k \in 1..4 : region.box[k] \in 0 .. Side
  /\ region.box[2] - region.box[1] >= MinSide
  /\ region.box[4] - region.box[3] >= MinSide

\* Of the pairs measured, those that satisfy P.
Pairs(P(_)) == Count(shifts, {d \in DOMAIN shifts : P(d)})
N2 == Number(shifts)

Other(k)    == IF k = "x" THEN "y" ELSE "x"
Still(d)    == d.x = 0 /\ d.y = 0
ModeAlong(k) == IF k = "x" THEN "horizontal" ELSE "vertical"

\* Most pairs move along k, and most do not move along the other axis.
Flows(k) == /\ 2 * Pairs(LAMBDA d : Size(d[k]) > Static) > N2
            /\ 2 * Pairs(LAMBDA d : Size(d[Other(k)]) <= Static) > N2

\* Most pairs are still, and the others step one way along k, but for so few
\* misreadings along k that the steps remain the share that is asked for.
Steps(k) == \E sign \in {1, -1} :
  LET steps == Pairs(LAMBDA d : sign * d[k] > Event[k])
      wrong == Pairs(LAMBDA d : sign * d[k] < -Event[k]) IN
  /\ 2 * Pairs(Still) > N2
  /\ Pairs(LAMBDA d : d[Other(k)] # 0) = 0
  /\ steps >= MinEvents
  /\ 100 * wrong <= (100 - Coherence) * (steps + wrong)

\* Most pairs are still, and the page turns go every way or are too few.
Turns == /\ 2 * Pairs(Still) > N2
         /\ \A k \in {"x", "y"}, sign \in {1, -1} :
              LET one == Pairs(LAMBDA d : sign * d[k] > Event[k])
                  all == Pairs(LAMBDA d : Size(d[k]) > Event[k]) IN
              all < MinEvents \/ 100 * one < Coherence * all

\* A video that flows, or steps with a few misreadings, is a scroll along its
\* axis, and one that turns pages is paged (advance.py).
ModeFound == pc = "mode" /\ shifts # EmptyBag =>
  /\ \A k \in {"x", "y"} : Flows(k) \/ Steps(k) => mode = ModeAlong(k)
  /\ Turns => mode = "paginated"

\* The analysis ends, with songs or with an error.
AnalysisEnds == <>(pc \in {"done", "failed"})
=============================================================================
