-------------------------------- MODULE Pages --------------------------------
(***************************************************************************)
(* A song of a paged video (tabextract/cursor.py, compose.py, layout.py):  *)
(* the frames are divided at the wraps of the cursor, each group becomes a *)
(* page, and the pages become the bands of the sheets.                     *)
(*                                                                         *)
(* A frame shows a page of the score, a blend of two pages or the footage  *)
(* behind it, and the cursor in some column unless it is not seen.  Pages  *)
(* overlap: the bar that the right edge of a page cuts in two is whole at  *)
(* the left edge of the next one.                                          *)
(***************************************************************************)
EXTENDS Layout, FiniteSets

CONSTANTS
    MaxFootage,       \* bound: frames of footage among them
    MaxHidden,        \* bound: frames in which the cursor is not seen
    Score,            \* number of pages of the score
    Columns,          \* where the cursor may be
    Wrap,             \* how far back it jumps at least at a new page
    BandH             \* height of a page once it is scaled

ASSUME PagesAssumption ==
    /\ {MaxFootage, MaxHidden} \subseteq Nat
    /\ Score \in Nat \ {0}
    /\ Columns \subseteq Nat
    /\ Wrap \in Nat
    /\ BandH \in Nat \ {0}

VARIABLES
    frames,      \* the frames of the song, [shows, cursor]
    starts,      \* the frames at which a page begins
    pages        \* the pages composed so far

pageVars == <<frames, starts, pages>>
pagesVars == <<pageVars, pc, layoutVars>>

Blend == 0            \* a page turn caught halfway
Footage == -1         \* no tablature
Hidden == -1          \* no cursor
Mixture == -2         \* what a median of different pictures shows

Frame == [shows : {Footage, Blend} \cup 1 .. Score, cursor : {Hidden} \cup Columns]

Count == Len(frames)

Seen == {i \in 1 .. Count : frames[i].cursor # Hidden}

-----------------------------------------------------------------------------
(* The video plays the score once, from left to right and page by page; a   *)
(* turn may be caught in between, and footage may follow the last page.     *)
Of(p) == {i \in 1 .. Count : frames[i].shows = p}

Shown == {frames[i].shows : i \in 1 .. Count} \ {Footage, Blend}

Page == IF Shown = {} THEN 1 ELSE CHOOSE p \in Shown : \A q \in Shown : q <= p

Farthest == CHOOSE c \in Columns : \A d \in Columns : d <= c

Plays(f) ==
    /\ f.cursor = Hidden => Count - Cardinality(Seen) < MaxHidden
    /\ \/ Count = 0 /\ f.shows = 1
       \/ Count > 0 /\ LET last == frames[Count].shows
                       IN  \/ f.shows = Footage /\ Page = Score /\ Cardinality(Of(Footage)) < MaxFootage
                           \/ f.shows = Blend /\ Page < Score /\ last = Page
                           \/ f.shows = Page + 1 /\ last # Footage
                           \/ /\ f.shows = Page /\ last = Page
                              /\ \A i \in Of(Page) \cap Seen :
                                    f.cursor \in {Hidden} \cup frames[i].cursor .. Farthest

FilmPage ==
    /\ pc = "film"
    /\ Count < MaxFrames
    /\ \E f \in Frame : Plays(f) /\ frames' = Append(frames, f)
    /\ UNCHANGED <<starts, pages, pc, layoutVars>>

PagesInit ==
    /\ frames = <<>>
    /\ starts = {}
    /\ pages = <<>>
    /\ pc = "film"
    /\ LayoutInit

-----------------------------------------------------------------------------
(* The sample before i: the last frame before it in which the cursor is     *)
(* seen.                                                                    *)
Earlier(i) == {j \in Seen : j < i}

Previous(i) == CHOOSE j \in Earlier(i) : \A k \in Earlier(i) : k <= j

(* Mutant of Wraps: every step back is a new page. *)
StepsBack ==
    {i \in Seen : Earlier(i) = {} \/ frames[i].cursor <= frames[Previous(i)].cursor}

(* A page begins with the first sample, and with each that lies more than   *)
(* Wrap to the left of the one before.                                      *)
Wraps ==
    {i \in Seen : Earlier(i) = {}
                  \/ frames[i].cursor < frames[Previous(i)].cursor - Wrap}

DetectWraps ==
    /\ pc = "film"
    /\ Count > 0
    /\ starts' = IF Wraps = {} THEN {1} ELSE Wraps
    /\ pc' = "compose"
    /\ UNCHANGED <<frames, pages, layoutVars>>

(* The page that begins at frame s ends before the next one.                *)
End(s) == CHOOSE e \in s .. Count :
             /\ \A t \in starts : t > s => e < t
             /\ e = Count \/ e + 1 \in starts

(* The first and the last frame of a group are partial transitions.         *)
Interior(g) ==
    IF Cardinality(g) > 2
    THEN {i \in g : \E j, k \in g : j < i /\ i < k} ELSE g

(* The median shows what most frames show; the maximum what they all show.  *)
Median(g) ==
    LET most == {p \in {frames[i].shows : i \in g} :
                    2 * Cardinality({i \in g : frames[i].shows = p}) > Cardinality(g)}
    IN  IF most = {} THEN Mixture ELSE CHOOSE p \in most : TRUE

Lightest(g) ==
    LET all == {frames[i].shows : i \in g}
    IN  IF Cardinality(all) = 1 THEN CHOOSE p \in all : TRUE ELSE Mixture

Composite(s) ==
    LET group == s .. End(s)
        few == Cardinality(Interior(group)) < MinContributors
    IN  [first |-> s, last |-> End(s), low |-> few,
         shows |-> IF few THEN Lightest(group) ELSE Median(Interior(group))]

Composed == {pages[i].first : i \in DOMAIN pages}

ComposePage ==
    /\ pc = "compose"
    /\ starts # Composed
    /\ LET s == CHOOSE s \in starts \ Composed : \A t \in starts \ Composed : s <= t
       IN  pages' = Append(pages, Composite(s))
    /\ UNCHANGED <<frames, starts, pc, layoutVars>>

(* Pages without paper are transitions; whether a mixture is one depends on *)
(* what was mixed.  The other pages stay in their order.                    *)
Kept(light) ==
    {i \in DOMAIN pages : /\ pages[i].shows # Footage
                          /\ pages[i].shows = Mixture => pages[i].first \in light}

Nth(S, k) == CHOOSE i \in S : Cardinality({j \in S : j <= i}) = k

Usable(light) ==
    [k \in 1 .. Cardinality(Kept(light)) |-> pages[Nth(Kept(light), k)]]

(* Mutant of IsLast: the last page of all, transitions included. *)
IsLastOfAll(p, usable) == p = pages[Len(pages)]

IsLast(p, usable) == p = usable[Len(usable)]

(* A page is cut at its last barline, unless it is the last page, no        *)
(* barline is found, or it is in an odd place, which is marked.  The staves *)
(* of a song look alike: its pages fare alike.                              *)
Band(p, usable, barline) ==
    LET trim == ~IsLast(p, usable)
    IN  [shows |-> p.shows, cut |-> trim /\ barline = "right",
         low |-> p.low \/ (trim /\ barline = "odd"), height |-> BandH]

ToSystems ==
    /\ pc = "compose"
    /\ starts = Composed
    /\ \E light \in SUBSET {p.first : p \in {q \in Range(pages) : q.shows = Mixture}},
          barline \in {"none", "right", "odd"} :
        LET usable == Usable(light)
        IN  IF usable = <<>>
            THEN pc' = "failed" /\ UNCHANGED todo
            ELSE /\ pc' = "layout"
                 /\ todo' = [i \in DOMAIN usable |-> Band(usable[i], usable, barline)]
    /\ UNCHANGED <<frames, starts, pages, rows, used, sheets>>

PagesNext ==
    \/ FilmPage \/ DetectWraps \/ ComposePage \/ ToSystems
    \/ (LayOut \/ Save) /\ UNCHANGED pageVars
    \/ Finished /\ UNCHANGED pagesVars

PagesSpec == PagesInit /\ [][PagesNext]_pagesVars
-----------------------------------------------------------------------------
(* Type invariant. *)
PagesTypes ==
    /\ frames \in Seq(Frame) /\ Count <= MaxFrames
    /\ starts \subseteq 1 .. Count
    /\ \A i \in DOMAIN pages : pages[i].first \in starts /\ pages[i].last \in 1 .. Count
    /\ pc \in {"film", "compose", "layout", "done", "failed"}

(* No frame after the first sample is left out, and none belongs to two     *)
(* pages (compose.py:258-260).                                              *)
GroupsTile ==
    pc \notin {"film", "compose"} =>
        /\ pages[Len(pages)].last = Count
        /\ \A i \in 1 .. Len(pages) - 1 : pages[i].last + 1 = pages[i + 1].first

(* A page is clear when enough of its frames show the cursor, and at most   *)
(* one does not.                                                            *)
Clear(p) ==
    /\ Cardinality(Of(p) \cap Seen) >= MinContributors + 2
    /\ Cardinality(Of(p) \ Seen) <= 1

FirstSeen(p) == CHOOSE i \in Of(p) \cap Seen : \A j \in Of(p) \cap Seen : i <= j
LastSeen(p) == CHOOSE i \in Of(p) \cap Seen : \A j \in Of(p) \cap Seen : j <= i

(* The cursor wraps at a turn, and a blend belongs to one side of it.       *)
Turns(p) ==
    /\ frames[FirstSeen(p + 1)].cursor < frames[LastSeen(p)].cursor - Wrap
    /\ \A i \in Of(Blend) \cap Seen : LastSeen(p) < i /\ i < FirstSeen(p + 1) =>
          \/ frames[i].cursor >= frames[LastSeen(p)].cursor
          \/ frames[i].cursor <= frames[FirstSeen(p + 1)].cursor

WellPlayed ==
    /\ Of(Footage) \cap Seen = {}
    /\ Cardinality(Of(Footage)) <= 1
    /\ \A p \in 1 .. Score : Clear(p)
    /\ \A p \in 1 .. Score - 1 : Turns(p)

(* Every page of the score is printed, once, in order and with confidence   *)
(* in it, when its video is well played: what two pages look like plays no  *)
(* part (tests/test_lesson1_pagination.py, cursor.py:60-75).                *)
EveryPageOnce ==
    pc \in {"layout", "done"} /\ WellPlayed =>
        /\ [i \in DOMAIN Printed |-> Printed[i].shows] = [p \in 1 .. Score |-> p]
        /\ \A i \in DOMAIN pages : ~pages[i].low

(* Footage after the last page neither becomes a band nor has the last page *)
(* of the score cut at its last barline                                     *)
(* (tests/test_transition_pages_discarded.py:44-66).                        *)
LastPageWhole ==
    pc \in {"layout", "done"} =>
        /\ ~Printed[Len(Printed)].cut
        /\ \A i \in DOMAIN Printed : Printed[i].shows # Footage
=============================================================================
