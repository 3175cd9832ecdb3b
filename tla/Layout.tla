------------------------------- MODULE Layout --------------------------------
(***************************************************************************)
(* The sheets of a song (tabextract/layout.py): its bands are put under    *)
(* each other, in order, on as many sheets as it takes.  Pages and Scroll  *)
(* extend this module with the two ways in which bands come about; what    *)
(* both have of a render is here too.                                      *)
(***************************************************************************)
EXTENDS Integers, Sequences, SequencesExt

CONSTANTS
    MaxFrames,        \* bound: frames of the song
    MinContributors,  \* MIN_CONTRIBUTORS
    ContentH,    \* room for bands on a sheet
    SheetH,      \* from where the bands begin to the edge of the paper
    BandGap      \* space between two bands

ASSUME LayoutAssumption ==
    /\ MaxFrames \in Nat
    /\ MinContributors \in Nat \ {0}
    /\ ContentH \in Nat \ {0}
    /\ SheetH \in Nat
    /\ ContentH <= SheetH
    /\ BandGap \in Nat

VARIABLES
    todo,        \* the bands still to be placed
    rows,        \* the bands of the sheet at hand
    used,        \* how much of it they take
    sheets,      \* the sheets that are complete
    pc           \* "film", "compose", "layout", "done", "failed"

layoutVars == <<todo, rows, used, sheets>>

LayoutInit == todo = <<>> /\ rows = <<>> /\ used = 0 /\ sheets = <<>>

-----------------------------------------------------------------------------
(* Mutant of Fits: the space between two bands is forgotten. *)
FitsTightly(b) == used + b.height <= ContentH

(* The first band of a sheet is put there whatever its height. *)
Fits(b) == rows = <<>> \/ used + BandGap + b.height <= ContentH

Place ==
    /\ todo # <<>>
    /\ Fits(Head(todo))
    /\ rows' = Append(rows, Head(todo))
    /\ used' = used + Head(todo).height + IF rows = <<>> THEN 0 ELSE BandGap
    /\ todo' = Tail(todo)
    /\ UNCHANGED sheets

(* A sheet cannot be drawn when its only band is taller than the paper. *)
Drawable == used <= SheetH

NewSheet ==
    /\ todo # <<>>
    /\ ~Fits(Head(todo))
    /\ Drawable
    /\ sheets' = Append(sheets, rows)
    /\ rows' = <<Head(todo)>>
    /\ used' = Head(todo).height
    /\ todo' = Tail(todo)

LastSheet ==
    /\ todo = <<>>
    /\ rows # <<>>
    /\ Drawable
    /\ sheets' = Append(sheets, rows)
    /\ rows' = <<>>
    /\ used' = 0
    /\ UNCHANGED todo

(* The sheet at hand is finished and cannot be drawn. *)
Overfull == ~Drawable /\ (IF todo = <<>> THEN TRUE ELSE ~Fits(Head(todo)))

LaidOut == todo = <<>> /\ rows = <<>>

LayOut ==
    /\ pc = "layout"
    /\ Place \/ NewSheet \/ LastSheet
    /\ UNCHANGED pc

(* The sheets are written, or one of them cannot be drawn. *)
Save ==
    /\ pc = "layout"
    /\ LaidOut \/ Overfull
    /\ pc' = IF LaidOut THEN "done" ELSE "failed"
    /\ UNCHANGED layoutVars

Finished == pc \in {"done", "failed"}

(* The bands in the order in which they are printed. *)
Printed == FlattenSeq(sheets) \o rows \o todo

Height(sheet) ==
    FoldLeft(LAMBDA h, b : h + b.height, BandGap * (Len(sheet) - 1), sheet)

(* What lies on a sheet fits on it, a band that is taller than the room for *)
(* bands has a sheet of its own, and no sheet is begun while the last one   *)
(* has room (layout.py:279-303).                                            *)
SheetsFull ==
    \A i \in DOMAIN sheets :
        /\ Height(sheets[i]) <= ContentH \/ Len(sheets[i]) = 1
        /\ Height(sheets[i]) <= SheetH
        /\ LET next == IF i < Len(sheets) THEN sheets[i + 1] ELSE rows
           IN  next # <<>> =>
                  Height(sheets[i]) + BandGap + next[1].height > ContentH
=============================================================================
