---------------------------- MODULE ScreenProofs ----------------------------
(***************************************************************************)
(* The page: it never believes in a backend that does not listen, and the  *)
(* region and the songs that it submits for a job are those of the analysis *)
(* of that job, for any jobs and any number of polls and clicks in flight. *)
(***************************************************************************)
EXTENDS Screen, Startup, TLAPS

Views == [open : Jobs \cup {None}, row : [id : Jobs \cup {None}, stage : Life!Stages]]

\* The clicks and the polls in flight, and the rows the page holds.
Shape == /\ acts \in SUBSET [kind : {"create", "rerun", "cancel", "delete", "generate"}, job : Jobs,
                             of : Jobs \cup {None}, n : Nat, at : {"asked", "ok", "refused"}]
         /\ polls \in SUBSET [job : Jobs, got : Life!Existing \cup {"asked", "gone"}]
         /\ state \in Views /\ view \in Views
         /\ review \in [of : Jobs \cup {None}, act : Nat]
         /\ posts \in Nat

\* A row that is held is of the job that is open.
OwnRow(v) == v.row # NoRow => v.open # None /\ v.row.id = v.open

\* With nothing due, the polls that count are of the job that is rendered; with
\* no render due, what is set is what is rendered.
InStep == due = {} => \A p \in polls : p.job = view.open
Rendered == "render" \notin due => view = state

\* A row survives the answers to clicks only with the job it is of.
RowStays == state.row # NoRow /\ view.row # NoRow => state.open = view.open

\* The review screen has the analysis of the job that is rendered.
OwnReview == ShowsReview(view) => review.of = view.open

Straight == OwnRow(state) /\ OwnRow(view) /\ RowStays /\ OwnReview

Inv == /\ Shape /\ InStep /\ Rendered
       /\ ~crossed => Straight /\ \A a \in acts : a.of = a.job

-----------------------------------------------------------------------------
LEMMA InitInv == Init => Inv
<1> SUFFICES ASSUME Init PROVE Inv
  OBVIOUS
<1>1. Shape
  <2>1. Closed \in Views
    BY DEF Views, Closed, NoRow, Life!Stages
  <2>2. NoReview \in [of : Jobs \cup {None}, act : Nat]
    BY DEF NoReview
  <2> QED BY <2>1, <2>2 DEF Init, Shape
<1>2. Straight
  BY DEF Init, Straight, OwnRow, RowStays, OwnReview, Closed, ShowsReview, ShowsSources
<1>3. InStep /\ Rendered /\ \A a \in acts : a.of = a.job
  BY DEF Init, InStep, Rendered
<1> QED BY <1>1, <1>2, <1>3 DEF Inv

-----------------------------------------------------------------------------
\* The polls of an effect are of the job it was run for.
LEMMA PollingOwn ==
  ASSUME NEW v, v.open \in Jobs \cup {None}
  PROVE  /\ Polling(v) \in SUBSET [job : Jobs, got : Life!Existing \cup {"asked", "gone"}]
         /\ \A p \in Polling(v) : p.job = v.open
BY DEF Polling, Kept

\* A screen that is mounted for a view has the job of its row; one that was
\* there keeps the job it had.
LEMMA MountedOwn ==
  ASSUME NEW v, ShowsReview(v), OwnRow(v),
         ShowsReview(view) => review.of = v.open
  PROVE  Mounted(v).of = v.open
BY DEF Mounted, OwnRow, ShowsReview, ShowsSources

LEMMA MountedShape ==
  ASSUME Shape, NEW v, v.row.id \in Jobs \cup {None}
  PROVE  Mounted(v) \in [of : Jobs \cup {None}, act : Nat]
BY DEF Mounted, Shape, NoReview

\* Rendering what is set.
LEMMA CommitInv == ASSUME Inv, Commit PROVE Inv'
<1> USE DEF Inv
<1>1. /\ view' = state /\ review' = Mounted(state)
      /\ due' = (due \ {"render"}) \cup {"effects"}
      /\ UNCHANGED <<state, polls, acts, posts, crossed>>
  BY DEF Commit, history
<1>2. Shape'
  <2>1. Mounted(state) \in [of : Jobs \cup {None}, act : Nat]
    BY MountedShape DEF Shape, Views
  <2> QED BY <1>1, <2>1 DEF Shape
<1>3. InStep' /\ Rendered'
  BY <1>1 DEF InStep, Rendered
<1>4. ASSUME ~crossed PROVE Straight'
  <2>1. OwnRow(state) /\ OwnRow(state)' /\ OwnRow(view)' /\ RowStays'
    BY <1>1, <1>4 DEF Straight, OwnRow, RowStays
  <2>2. ASSUME ShowsReview(state) PROVE Mounted(state).of = state.open
    <3>1. ShowsReview(view) => review.of = state.open
      BY <1>4, <2>2 DEF Straight, OwnReview, RowStays, ShowsReview, ShowsSources
    <3> QED BY <2>1, <2>2, <3>1, MountedOwn
  <2>3. OwnReview'
    BY <1>1, <2>2 DEF OwnReview, ShowsReview, ShowsSources
  <2> QED BY <2>1, <2>3 DEF Straight
<1> QED BY <1>1, <1>2, <1>3, <1>4

LEMMA EffectsInv == ASSUME Inv, Effects PROVE Inv'
<1> USE DEF Inv
<1>1. /\ polls' = Polling(view)
      /\ due' = due \ {"effects"}
      /\ UNCHANGED <<state, view, review, acts, posts, crossed>>
  BY DEF Effects
<1>2. view.open \in Jobs \cup {None}
  BY DEF Shape, Views
<1>3. Shape'
  BY <1>1, <1>2, PollingOwn DEF Shape
<1>4. Rendered'
  BY <1>1 DEF Rendered
<1>5. InStep'
  BY <1>1, <1>2, PollingOwn DEF InStep
<1>6. Straight => Straight'
  BY <1>1 DEF Straight, OwnRow, RowStays, OwnReview, ShowsReview, ShowsSources
<1> QED BY <1>1, <1>3, <1>4, <1>5, <1>6

\* A tick polls the job on the screen; an answer takes its place.
LEMMA PollInv == ASSUME Inv, Tick \/ (\E p \in polls : Answer(p)) PROVE Inv'
<1> USE DEF Inv
<1>1. UNCHANGED <<state, view, due, review, acts, posts, crossed>>
  BY DEF Tick, Answer, react, history
<1>2. \A q \in polls' : q.job \in Jobs /\ q.got \in Life!Existing \cup {"asked", "gone"}
                        /\ q \in [job : Jobs, got : Life!Existing \cup {"asked", "gone"}]
                        /\ (q.job = view.open \/ \E p \in polls : q.job = p.job)
  <2>1. CASE Tick
    <3>1. view.open \in Jobs
      BY <2>1 DEF Tick, Due, Shape, Views
    <3> QED BY <2>1, <3>1 DEF Tick, Shape
  <2>2. ASSUME NEW p \in polls, Answer(p)
        PROVE  \A q \in polls' : /\ q \in [job : Jobs, got : Life!Existing \cup {"asked", "gone"}]
                                 /\ \E r \in polls : q.job = r.job
    <3>1. p \in [job : Jobs, got : Life!Existing \cup {"asked", "gone"}]
      BY DEF Shape
    <3>2. PICK s \in Life!Existing \cup {"gone"} :
            polls' = (polls \ {p}) \cup {[p EXCEPT !.got = s]}
      BY <2>2 DEF Answer, Exists
    <3>3. [p EXCEPT !.got = s] \in [job : Jobs, got : Life!Existing \cup {"asked", "gone"}]
          /\ [p EXCEPT !.got = s].job = p.job
      BY <3>1
    <3> QED BY <3>2, <3>3 DEF Shape
  <2> QED BY <2>1, <2>2
<1>3. Shape'
  BY <1>1, <1>2 DEF Shape
<1>4. InStep' /\ Rendered'
  BY <1>1, <1>2 DEF InStep, Rendered
<1>5. Straight => Straight'
  BY <1>1 DEF Straight, OwnRow, RowStays, OwnReview, ShowsReview, ShowsSources
<1> QED BY <1>1, <1>3, <1>4, <1>5

\* The answer to a poll is of the job that is open and rendered, unless something
\* was due.
LEMMA DeliverInv == ASSUME Inv, NEW p \in polls, Deliver(p) PROVE Inv'
<1> USE DEF Inv
<1>0. p.job \in Jobs /\ p.got \in Life!Existing \cup {"gone"}
  BY DEF Shape, Deliver
<1>1. polls' \subseteq polls /\ UNCHANGED <<view, review, acts, posts>>
  BY DEF Deliver
<1>2. CASE p.got = "gone"
  <2>1. UNCHANGED <<state, due, crossed>>
    BY <1>2 DEF Deliver
  <2> QED BY <1>1, <2>1 DEF Shape, InStep, Rendered, Straight, OwnRow, RowStays, OwnReview,
                           ShowsReview, ShowsSources
<1>3. CASE p.got # "gone"
  <2>1. state' = [state EXCEPT !.row = Row(p.job, p.got)] /\ due' = due \cup {"render"}
    BY <1>3 DEF Deliver, Fetched
  <2>2. ~crossed' => ~crossed /\ (due = {} \/ {p.job} = {state.open, view.open})
    BY <1>3, Zenon DEF Deliver
  <2>3. Row(p.job, p.got) \in [id : Jobs \cup {None}, stage : Life!Stages]
        /\ Row(p.job, p.got).id = p.job
    BY <1>0, <1>3 DEF Row, Life!Stages
  <2>4. state' \in Views /\ state'.open = state.open /\ state'.row.id = p.job
    BY <2>1, <2>3 DEF Shape, Views
  <2>5. Shape'
    BY <1>1, <2>4 DEF Shape
  <2>6. InStep' /\ Rendered'
    BY <1>1, <2>1, <2>4 DEF InStep, Rendered
  <2>7. ASSUME ~crossed, due = {} \/ {p.job} = {state.open, view.open} PROVE Straight'
    <3>1. p.job = state.open /\ view.open = state.open /\ state.open # None
      BY <1>0, <2>7, ScreenAssumption DEF InStep, Rendered, None
    <3>2. Straight
      BY <2>7
    <3> QED BY <1>1, <2>4, <3>1, <3>2
            DEF Straight, OwnRow, RowStays, OwnReview, ShowsReview, ShowsSources
  <2> QED BY <1>1, <2>2, <2>5, <2>6, <2>7
<1> QED BY <1>2, <1>3

\* A click that opens or closes a job leaves no row behind.
LEMMA FlipInv == ASSUME Inv, Reset \/ \E j \in Jobs : ViewReport(j) PROVE Inv'
<1> USE DEF Inv
<1>1. PICK v \in Views : /\ Flip(v)
                         /\ ~crossed => v.row = NoRow
  <2>1. CASE Reset
    <3>1. Closed \in Views /\ Closed.row = NoRow
      BY DEF Closed, Views, NoRow, Life!Stages
    <3> QED BY <2>1, <3>1 DEF Reset
  <2>2. ASSUME NEW j \in Jobs, ViewReport(j)
        PROVE  \E v \in Views : Flip(v) /\ (~crossed => v.row = NoRow)
    <3>1. [state EXCEPT !.open = j] \in Views /\ [state EXCEPT !.open = j].row = state.row
      BY DEF Shape, Views
    <3>2. view = state
      BY <2>2 DEF ViewReport, Flip, Rendered
    <3>3. ~crossed => state.row = NoRow
      BY <2>2, <3>2 DEF ViewReport, ShowsSources, Straight, OwnRow
    <3> QED BY <2>2, <3>1, <3>3 DEF ViewReport
  <2> QED BY <2>1, <2>2
<1>2. /\ due = {} /\ due' = due /\ state' = v /\ view' = v /\ review' = Mounted(v)
      /\ polls' = Polling(v) /\ UNCHANGED <<acts, posts, crossed>>
  BY <1>1 DEF Flip
<1>3. v.open \in Jobs \cup {None} /\ v.row.id \in Jobs \cup {None}
  BY DEF Views
<1>4. Shape'
  BY <1>2, <1>3, PollingOwn, MountedShape DEF Shape
<1>5. InStep' /\ Rendered'
  BY <1>2, <1>3, PollingOwn DEF InStep, Rendered
<1>6. ~crossed => Straight'
  BY <1>1, <1>2 DEF Straight, OwnRow, RowStays, OwnReview, ShowsReview, ShowsSources
<1> QED BY <1>2, <1>4, <1>5, <1>6

\* What is posted for the review screen is posted with the region it holds.
LEMMA PostInv ==
  ASSUME Inv, Cancel \/ Generate \/ \E j \in Jobs : New(j) \/ FromHistory(j)
  PROVE  Inv'
<1> USE DEF Inv
<1>1. PICK kind \in {"create", "rerun", "cancel", "delete", "generate"}, j \in Jobs,
           of \in Jobs \cup {None} :
        /\ Post(kind, j, of)
        /\ ~crossed => of = j
        /\ review' \in {review, [review EXCEPT !.act = posts + 1]}
  <2>1. CASE Cancel
    <3>1. view.open \in Jobs
      BY <2>1 DEF Cancel, ShowsProgress, ShowsSources, Shape, Views
    <3> QED BY <2>1, <3>1 DEF Cancel
  <2>2. CASE Generate
    <3>1. view.open \in Jobs /\ review.of \in Jobs \cup {None}
      BY <2>2 DEF Generate, ShowsReview, ShowsSources, Shape, Views
    <3>2. ~crossed => review.of = view.open
      BY <2>2 DEF Generate, Straight, OwnReview
    <3> QED BY <2>2, <3>1, <3>2 DEF Generate
  <2>3. CASE \E j \in Jobs : New(j) \/ FromHistory(j)
    BY <2>3 DEF New, FromHistory
  <2> QED BY <2>1, <2>2, <2>3
<1> DEFINE a == [kind |-> kind, job |-> j, of |-> of, n |-> posts + 1, at |-> "asked"]
<1>2. /\ acts' = acts \cup {a} /\ posts' = posts + 1
      /\ UNCHANGED <<state, view, due, polls, crossed>>
  BY <1>1 DEF Post, history
<1>3. posts + 1 \in Nat
  BY DEF Shape
<1>4. review' \in [of : Jobs \cup {None}, act : Nat] /\ review'.of = review.of
  BY <1>1, <1>3 DEF Shape
<1>5. Shape'
  BY <1>2, <1>3, <1>4 DEF Shape
<1>6. InStep' /\ Rendered'
  BY <1>2 DEF InStep, Rendered
<1>7. Straight => Straight'
  BY <1>2, <1>4 DEF Straight, OwnRow, RowStays, OwnReview, ShowsReview, ShowsSources
<1> QED BY <1>1, <1>2, <1>5, <1>6, <1>7

\* The server answers a click: it keeps its job and its region.
LEMMA HandleInv == ASSUME Inv, NEW a \in acts, Handle(a) PROVE Inv'
<1> USE DEF Inv
<1>1. PICK at \in {"ok", "refused"} : acts' = (acts \ {a}) \cup {[a EXCEPT !.at = at]}
  BY DEF Handle, Replied
<1>2. UNCHANGED <<state, view, due, review, polls, posts, crossed>>
  BY DEF Handle, react, history
<1> DEFINE A == [kind : {"create", "rerun", "cancel", "delete", "generate"}, job : Jobs,
                 of : Jobs \cup {None}, n : Nat, at : {"asked", "ok", "refused"}]
<1>3. a \in A
  BY DEF Shape
<1>4. /\ [a EXCEPT !.at = at] \in A
      /\ [a EXCEPT !.at = at].of = a.of /\ [a EXCEPT !.at = at].job = a.job
  BY <1>3
<1>5. Shape'
  BY <1>1, <1>2, <1>4 DEF Shape
<1>6. InStep' /\ Rendered'
  BY <1>2 DEF InStep, Rendered
<1>7. Straight => Straight'
  BY <1>2 DEF Straight, OwnRow, RowStays, OwnReview, ShowsReview, ShowsSources
<1> QED BY <1>1, <1>2, <1>4, <1>5, <1>6, <1>7

\* The page goes on: a job that is opened over none finds no row.
LEMMA ResumeInv == ASSUME Inv, NEW a \in acts, Resume(a) PROVE Inv'
<1> USE DEF Inv
<1>0. a.job \in Jobs
  BY DEF Shape
<1>1. acts' \subseteq acts /\ UNCHANGED <<view, polls, posts>>
  BY DEF Resume
<1>2. review' \in [of : Jobs \cup {None}, act : Nat] /\ review'.of = review.of
  BY DEF Resume, WithReview, Shape
<1>3. ~crossed' => ~crossed /\ (Opens(a) => state.open \in {None, a.job})
  BY Zenon DEF Resume
<1>u. ASSUME UNCHANGED <<state, due>> PROVE Inv'
  <2>1. Shape'
    BY <1>1, <1>2, <1>u DEF Shape
  <2>2. InStep' /\ Rendered'
    BY <1>1, <1>u DEF InStep, Rendered
  <2>3. Straight => Straight'
    BY <1>1, <1>2, <1>u DEF Straight, OwnRow, RowStays, OwnReview, ShowsReview, ShowsSources
  <2> QED BY <1>1, <1>3, <2>1, <2>2, <2>3
<1>o. ASSUME state' \in Views, "render" \in due',
             ~crossed' => OwnRow(state)' /\ RowStays'
      PROVE  Inv'
  <2>1. Shape'
    BY <1>1, <1>2, <1>o DEF Shape
  <2>2. InStep' /\ Rendered'
    BY <1>1, <1>o DEF InStep, Rendered
  <2>3. ~crossed' => Straight'
    BY <1>1, <1>2, <1>3, <1>o DEF Straight, OwnRow, OwnReview, ShowsReview, ShowsSources
  <2> QED BY <1>1, <1>3, <2>1, <2>2, <2>3
<1>4. CASE Opens(a) /\ Moved([state EXCEPT !.open = a.job])
  <2>1. /\ state' = [state EXCEPT !.open = a.job] /\ state' \in Views
        /\ state'.row = state.row /\ state'.open = a.job
        /\ UNCHANGED <<state, due>> \/ "render" \in due'
    BY <1>0, <1>4 DEF Moved, Shape, Views
  <2>2. ASSUME ~crossed' PROVE OwnRow(state)' /\ RowStays'
    <3>1. Straight /\ state.open \in {None, a.job}
      BY <1>3, <1>4, <2>2
    <3>2. state.row # NoRow => state.open = a.job
      BY <3>1 DEF Straight, OwnRow
    <3>3. state.row # NoRow => /\ a.job # None /\ state.row.id = a.job
                               /\ (view.row # NoRow => a.job = view.open)
      BY <3>1, <3>2 DEF Straight, OwnRow, RowStays
    <3>4. state'.row = state.row /\ state'.open = a.job /\ view' = view
      BY <1>1, <2>1
    <3> QED BY <3>3, <3>4 DEF OwnRow, RowStays
  <2> QED BY <1>o, <1>u, <2>1, <2>2
<1>5. CASE Closes(a) /\ Moved(Closed)
  <2>1. Closed \in Views /\ Closed.row = NoRow
    BY DEF Closed, Views, NoRow, Life!Stages
  <2>2. state' = Closed /\ (UNCHANGED <<state, due>> \/ "render" \in due')
    BY <1>5 DEF Moved
  <2> QED BY <1>o, <1>u, <2>1, <2>2 DEF OwnRow, RowStays
<1>6. CASE Optimistic(a) /\ state' = [state EXCEPT !.row.stage = "waiting"]
           /\ due' = due \cup {"render"}
  <2>1. /\ state' \in Views /\ state'.row.id = state.row.id /\ state'.open = state.open
        /\ "render" \in due' /\ state.row # NoRow
    BY <1>6 DEF Optimistic, Shape, Views, Life!Stages, Life!Existing
  <2>2. ~crossed' => OwnRow(state)' /\ RowStays'
    BY <1>1, <1>3, <2>1 DEF Straight, OwnRow, RowStays
  <2> QED BY <1>o, <2>1, <2>2
<1> QED BY <1>4, <1>5, <1>6, <1>u DEF Resume

LEMMA StepInv == Inv /\ [Next]_vars => Inv'
<1> SUFFICES ASSUME Inv, [Next]_vars PROVE Inv'
  OBVIOUS
<1>1. ASSUME UNCHANGED <<state, view, due, review, polls, acts, posts, crossed>> PROVE Inv'
  BY <1>1 DEF Inv, Shape, InStep, Rendered, Straight, OwnRow, RowStays, OwnReview,
              ShowsReview, ShowsSources
<1>2. CASE \E j \in Jobs : Run(j)
  BY <1>1, <1>2 DEF Run, react
<1>3. CASE UNCHANGED vars
  BY <1>1, <1>3 DEF vars, react, history
<1> QED BY <1>2, <1>3, CommitInv, EffectsInv, PollInv, DeliverInv, FlipInv, PostInv, HandleInv,
           ResumeInv DEF Next, Answers, Deliveries, Requests, Clicks

-----------------------------------------------------------------------------
(* Whatever polls of other jobs were in flight when a job was opened, what   *)
(* is submitted for it has the region and the songs of its own analysis      *)
(* (ReviewScreen.tsx:54-71, App.tsx:58-93), as long as no answer to a click  *)
(* opened a job over another, and none to a poll of another job came between *)
(* a change of the open job and its effects.                                 *)
THEOREM RegionIsOwn == Spec => []OwnRegion
<1>1. Inv => OwnRegion
  BY DEF Inv, OwnRegion
<1> QED BY <1>1, InitInv, StepInv, PTL DEF Spec

-----------------------------------------------------------------------------
(* The offers of the review screen *)

\* While the waiting screen of a job is there and the work has not settled, that
\* job is open, and its row is not a settled one on the server, on the page, or
\* in a poll that counts.
Told == told # None =>
  /\ state.open = told /\ state.row.stage \notin Settled
  /\ view.open = told /\ view.row.stage \notin Settled
  /\ stage[told] \notin Settled
  /\ \A p \in polls : p.job = told /\ p.got \notin Settled

ToldInv == /\ Inv /\ Told
           /\ stage \in [Jobs -> Life!Stages] /\ told \in Jobs \cup {None}

\* What the page, the polls and the clicks of a user do, but for answers.
LEMMA PageTold ==
  ASSUME ToldInv, \/ Commit \/ Effects \/ Tick \/ Reset \/ Cancel \/ Generate
                  \/ \E j \in Jobs : ViewReport(j) \/ New(j) \/ FromHistory(j)
  PROVE  Told' /\ UNCHANGED stage /\ told' \in Jobs \cup {None}
<1> USE DEF ToldInv
<1>1. CASE Commit
  BY <1>1 DEF Commit, server, history, Told
<1>2. CASE Effects
  <2>1. \A p \in polls' : p.got = "asked" /\ p.job = view.open
    BY <1>2 DEF Effects, Polling, Kept
  <2>2. UNCHANGED <<stage, state, view>> /\ told' = IF Waits THEN view.open ELSE told
    BY <1>2 DEF Effects, server
  <2>3. CASE Waits
    <3>1. /\ view = state /\ view.open \in Jobs /\ view.row.stage = "waiting"
          /\ stage[view.open] = "waiting"
      BY <2>3 DEF Waits, ShowsProgress, ShowsSources, Inv, Shape, Views
    <3> QED
      BY <2>1, <2>2, <2>3, <3>1, ScreenAssumption DEF Told
  <2>4. CASE ~Waits
    BY <2>1, <2>2, <2>4, ScreenAssumption DEF Told
  <2> QED
    BY <2>3, <2>4
<1>3. CASE Tick
  <2>1. /\ UNCHANGED <<stage, state, view, told>>
        /\ polls' = polls \cup {[job |-> view.open, got |-> "asked"]}
    BY <1>3 DEF Tick, server, react, history
  <2> QED
    BY <2>1, ScreenAssumption DEF Told
<1>4. CASE Reset \/ \E j \in Jobs : ViewReport(j)
  <2>1. told' = None /\ UNCHANGED stage
    BY <1>4 DEF Reset, ViewReport, Flip, server
  <2> QED
    BY <2>1 DEF Told
<1>5. CASE Cancel \/ Generate \/ \E j \in Jobs : New(j) \/ FromHistory(j)
  <2>1. UNCHANGED <<stage, state, view, polls, told>>
    BY <1>5 DEF Cancel, Generate, New, FromHistory, Post, server, history
  <2> QED
    BY <2>1 DEF Told
<1> QED
  BY <1>1, <1>2, <1>3, <1>4, <1>5

\* A poll brings the stage that the server has, and while the page waits that is
\* no settled one.
LEMMA PollTold ==
  ASSUME ToldInv, NEW p \in polls, Answer(p) \/ Deliver(p)
  PROVE  Told' /\ UNCHANGED stage /\ told' \in Jobs \cup {None}
<1> USE DEF ToldInv
<1>1. CASE Answer(p)
  <2>1. UNCHANGED <<stage, state, view, told>>
    BY <1>1 DEF Answer, server, react, history
  <2>2. PICK s : /\ polls' = (polls \ {p}) \cup {[p EXCEPT !.got = s]}
                 /\ s = "gone" \/ s = stage[p.job]
    BY <1>1 DEF Answer
  <2>3. [p EXCEPT !.got = s].got = s /\ [p EXCEPT !.got = s].job = p.job
    BY DEF Inv, Shape
  <2>4. ASSUME told # None PROVE p.job = told /\ s \notin Settled
    BY <2>2, <2>4, ScreenAssumption DEF Told
  <2> QED
    BY <2>1, <2>2, <2>3, <2>4 DEF Told
<1>2. CASE Deliver(p)
  <2>1. UNCHANGED <<stage, view, told>> /\ polls' \subseteq polls
    BY <1>2 DEF Deliver, server
  <2>2. CASE p.got = "gone"
    BY <1>2, <2>1, <2>2 DEF Deliver, Told
  <2>3. CASE p.got # "gone"
    <3>1. state' = [state EXCEPT !.row = Row(p.job, p.got)]
      BY <1>2, <2>3 DEF Deliver, Fetched
    <3>2. state'.open = state.open /\ state'.row.stage = p.got
      BY <3>1 DEF Inv, Shape, Views, Row
    <3> QED
      BY <2>1, <3>2 DEF Told
  <2> QED
    BY <2>2, <2>3
<1> QED
  BY <1>1, <1>2

\* The server: no request settles a job, and the page hears of a run that does.
LEMMA ServerTold ==
  ASSUME ToldInv, (\E a \in acts : Handle(a)) \/ \E j \in Jobs : Run(j)
  PROVE  Told' /\ stage' \in [Jobs -> Life!Stages] /\ told' \in Jobs \cup {None}
<1> USE DEF ToldInv
<1>1. ASSUME NEW a \in acts, Handle(a)
      PROVE  /\ UNCHANGED <<state, view, polls, told>>
             /\ \/ UNCHANGED stage
                \/ \E s \in {"waiting", "deleted"} : stage' = [stage EXCEPT ![a.job] = s]
  <2>1. UNCHANGED <<state, view, polls, told>>
    BY <1>1 DEF Handle, react, history
  <2>2. a.job \in Jobs
    BY DEF Inv, Shape
  <2>3. CASE UNCHANGED server
    BY <2>1, <2>3 DEF server
  <2>4. CASE Life!Create(a.job) \/ Life!Remove(a.job)
    BY <2>1, <2>4 DEF Life!Create, Life!Remove, Life!Becomes
  <2>5. CASE Started(a.job)
    <3>1. PICK s \in {stage[a.job], "waiting"} : stage' = [stage EXCEPT ![a.job] = s]
      BY <2>5 DEF Started, Life!Start, Life!Becomes
    <3>2. s = "waiting"
      BY <2>2, <2>5, <3>1 DEF Started
    <3> QED
      BY <2>1, <3>1, <3>2
  <2> QED
    BY <1>1, <2>3, <2>4, <2>5 DEF Handle
<1>2. ASSUME NEW a \in acts, Handle(a) PROVE Told' /\ stage' \in [Jobs -> Life!Stages]
  <2>1. a.job \in Jobs
    BY DEF Inv, Shape
  <2>2. stage' \in [Jobs -> Life!Stages]
    BY <1>1, <1>2, <2>1 DEF Life!Stages, Life!Existing
  <2>3. told # None => stage'[told] = stage[told] \/ stage'[told] \in {"waiting", "deleted"}
    BY <1>1, <1>2, <2>1
  <2> QED
    BY <1>1, <1>2, <2>2, <2>3, ScreenAssumption DEF Told
<1>3. ASSUME NEW j \in Jobs, Run(j)
      PROVE  Told' /\ stage' \in [Jobs -> Life!Stages] /\ told' \in Jobs \cup {None}
  <2>1. /\ UNCHANGED <<state, view, polls>>
        /\ told' = IF stage'[j] \in Settled /\ told = j THEN None ELSE told
    BY <1>3 DEF Run, react
  <2>2. PICK s \in Life!Stages : stage' = [stage EXCEPT ![j] = s]
    BY <1>3 DEF Run, Life!Advance, Life!Rest, Life!Becomes
  <2>3. stage' \in [Jobs -> Life!Stages]
    BY <2>2
  <2>4. ASSUME told' # None PROVE told' = told /\ (stage[told] \notin Settled => stage'[told] \notin Settled)
    BY <2>1, <2>2, <2>4
  <2> QED
    BY <2>1, <2>3, <2>4 DEF Told
<1> QED
  BY <1>1, <1>2, <1>3

\* The page goes on after a click: what it is told of is what it has open.
LEMMA ResumeTold ==
  ASSUME ToldInv, NEW a \in acts, Resume(a)
  PROVE  Told' /\ UNCHANGED stage /\ told' \in Jobs \cup {None}
<1> USE DEF ToldInv
<1>0. a.job \in Jobs
  BY DEF Inv, Shape
<1>1. /\ UNCHANGED <<stage, view, polls>>
      /\ told' = IF state'.open = state.open THEN told ELSE None
  BY DEF Resume, server
<1>2. ASSUME told' # None PROVE state'.row.stage \in {state.row.stage, "waiting"}
  <2>1. told' = told /\ state'.open = told
    BY <1>1, <1>2 DEF Told
  <2>2. ~(state' = Closed)
    BY <1>2, <2>1 DEF Closed
  <2>3. \/ state' = [state EXCEPT !.open = a.job]
        \/ state' = [state EXCEPT !.row.stage = "waiting"]
        \/ state' = state
    BY <2>2 DEF Resume, Moved
  <2> QED
    BY <2>3 DEF Inv, Shape, Views
<1> QED
  BY <1>1, <1>2, ScreenAssumption DEF Told

LEMMA StepTold == ToldInv /\ [Next]_vars => ToldInv'
<1> SUFFICES ASSUME ToldInv, [Next]_vars
             PROVE  Told' /\ stage' \in [Jobs -> Life!Stages] /\ told' \in Jobs \cup {None}
  BY StepInv DEF ToldInv
<1>1. CASE UNCHANGED vars
  BY <1>1 DEF vars, server, react, history, ToldInv, Told
<1> QED
  BY <1>1, PageTold, PollTold, ServerTold, ResumeTold DEF Next, Answers, Deliveries, Requests, Clicks, ToldInv

LEMMA InitTold == Init => ToldInv
BY InitInv, ScreenAssumption DEF Init, ToldInv, Told, Life!Stages, Life!Existing

(* Once the waiting screen of a job has been rendered and its effects have    *)
(* run, no older row of any poll brings the review of that job back before   *)
(* the work has settled (App.tsx:55-74, 192-194), in every order of polls,   *)
(* clicks, answers and renders.                                              *)
THEOREM NoOldOffer == Spec => []NoStaleOffer
<1>1. ToldInv => NoStaleOffer
  <2> SUFFICES ASSUME ToldInv, ShowsReview(view), view.open = told
               PROVE  FALSE
    BY DEF NoStaleOffer
  <2>1. view.open # None /\ view.row.stage = "analyzed"
    BY DEF ShowsReview, ShowsSources
  <2> QED
    BY <2>1, ScreenAssumption DEF ToldInv, Told
<1> QED
  BY <1>1, InitTold, StepTold, PTL DEF Spec

-----------------------------------------------------------------------------
\* Whatever says that there is a backend comes after the line on its stdout,
\* and that after the socket; the page listens for nothing else.
Announced == /\ \/ pipe \/ info \/ toEmit = "backend-ready" \/ answer = "info"
                \/ page = "ready" \/ sidecar \in {"announced", "serving"}
                => bound
             /\ hears \subseteq {"backend-ready"}

LEMMA StepAnnounced == Announced /\ [StartupNext]_startupVars => Announced'
<1> SUFFICES ASSUME Announced, [StartupNext]_startupVars PROVE Announced'
  OBVIOUS
<1> USE DEF Announced
<1>1. CASE Spawn
  BY <1>1, Zenon DEF Spawn
<1>2. CASE ReadHandshake
  BY <1>2, Zenon DEF ReadHandshake
<1>3. CASE ReadTermination
  BY <1>3, Zenon DEF ReadTermination
<1>4. CASE Emit
  BY <1>4, Zenon DEF Emit
<1>5. CASE Close \/ Crash \/ ReusePid
  <2>1. UNCHANGED <<bound, pipe, info, toEmit, answer, hears>>
        /\ page' \in {page, "gone"} /\ sidecar' \in {sidecar, "dead"}
    BY <1>5 DEF Close, Crash, ReusePid
  <2>2. (page' = "ready" => page = "ready")
        /\ (sidecar' \in {"announced", "serving"} => sidecar \in {"announced", "serving"})
    BY <2>1
  <2> QED BY <2>1, <2>2, Zenon
<1>6. CASE Bind
  BY <1>6, Zenon DEF Bind
<1>7. CASE Announce \/ Serve \/ Die \/ WatchParent \/ WatchStdin
  <2>1. UNCHANGED <<bound, info, toEmit, answer, page, hears>>
    BY <1>7 DEF Announce, Serve, Die, WatchParent, WatchStdin, Advance
  <2>2. CASE bound
    BY <2>1, <2>2
  <2>3. CASE ~bound
    <3>1. pipe' = pipe /\ sidecar' = "dead"
      BY <1>7, <2>3, Zenon DEF Announce, MayAnnounce, Serve, Die, WatchParent, WatchStdin, Advance
    <3>2. sidecar' \notin {"announced", "serving"}
      BY <3>1
    <3> QED BY <2>1, <2>3, <3>1, <3>2, Zenon
  <2> QED BY <2>2, <2>3
<1>8. CASE PageSteps \/ GiveUp
  <2>1. UNCHANGED <<pipe, info, toEmit, sidecar, bound>>
    BY <1>8 DEF PageSteps, Invoke, Answered, Listen, GiveUp, Page
  <2>2. answer' = "info" => info \/ answer = "info"
    BY <1>8 DEF PageSteps, Invoke, Answered, Listen, GiveUp, BackendInfo
  <2>3. page' = "ready" => page = "ready" \/ answer = "info"
    BY <1>8 DEF PageSteps, Invoke, Answered, Listen, GiveUp
  <2>4. hears' = hears \/ hears' = {"backend-ready"}
    BY <1>8 DEF PageSteps, Invoke, Answered, Listen, GiveUp
  <2> QED BY <2>1, <2>2, <2>3, <2>4, Zenon
<1>9. CASE UNCHANGED startupVars
  BY <1>9, Zenon DEF startupVars
<1> QED
  BY <1>1, <1>2, <1>3, <1>4, <1>5, <1>6, <1>7, <1>8, <1>9 DEF StartupNext, Shell, Sidecar

(* A page that believes it has a backend never meets a port that nobody     *)
(* listens on while the sidecar lives: the handshake line is written after  *)
(* the socket listens, and the shell's memory, its event and its answer come *)
(* from that line (__main__.py, main.rs, backend.ts).                       *)
THEOREM BackendIsReachable == StartupSpec => []ReadyIsReachable
<1>1. StartupInit => Announced
  BY DEF StartupInit, Announced
<1>2. Announced => ReadyIsReachable
  BY DEF Announced, ReadyIsReachable
<1> QED
  BY <1>1, <1>2, StepAnnounced, PTL DEF StartupSpec
=============================================================================
