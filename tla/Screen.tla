------------------------------- MODULE Screen -------------------------------
(***************************************************************************)
(* The page of TabXtract: which job is open, the row of it that is shown,  *)
(* the polls that fetch that row, and the clicks whose answers change what *)
(* is open (App, SourceScreen, HistoryPanel, ProgressScreen, ReviewScreen).*)
(* The server is JobLife, which the job runner implements, without stops.  *)
(*                                                                         *)
(* Setting state from an answer leaves a render due, and the render leaves *)
(* effects due; other answers may arrive in between.  A click is handled   *)
(* with its render and its effects at once, while nothing is due.          *)
(***************************************************************************)
EXTENDS Naturals, FiniteSets

CONSTANTS Jobs,      \* ids of jobs
          Old,       \* those that an earlier session rendered
          Settled,   \* the stages in which a job waits for the user
          MaxPolls,  \* bound on the polls in flight
          MaxPosts   \* bound on the clicks that post a request

ASSUME ScreenAssumption == /\ Old \subseteq Jobs /\ {"analyzed", "rendered"} \subseteq Settled
                           /\ MaxPolls \in Nat \ {0} /\ MaxPosts \in Nat
                           /\ "none" \notin Jobs
                           /\ Settled \cap {"waiting", "absent", "deleted", "asked", "gone"} = {}

VARIABLES
  stage, busy, stranded,  \* the server, as JobLife has it
  state,    \* jobId and job, as last set
  view,     \* jobId and job, as last rendered
  due,      \* what React still owes: "render", "effects"
  polls,    \* polls in flight whose effect has not been cleaned up
  acts,     \* posted clicks in flight
  review,   \* the mounted ReviewScreen: whose analysis it holds, and the click
            \* it is submitting (0 if none)
  list,     \* the jobs that the mounted history shows as rendered
  posts,    \* clicks posted so far, which numbers them
  told,     \* history: the open job, if its waiting screen has been rendered,
            \* with its effects, and the work has not settled yet
  crossed   \* history: before the effects of a change of the open job, a poll
            \* brought the row of another, or an answer opened a job over another

server  == <<stage, busy, stranded>>
react   == <<state, view, due, review, list>>
history == <<told, crossed>>
vars    == <<server, react, polls, acts, posts, history>>

Life == INSTANCE JobLife

None   == "none"
NoRow  == [id |-> None, stage |-> "absent"]
Closed == [open |-> None, row |-> NoRow]
NoReview == [of |-> None, act |-> 0]

Row(j, s) == [id |-> j, stage |-> s]
Exists(j) == stage[j] \in Life!Existing

\* The table outlives a session.
Init == /\ stage = [j \in Jobs |-> IF j \in Old THEN "rendered" ELSE "absent"]
        /\ busy = {} /\ stranded = {}
        /\ state = Closed /\ view = Closed
        /\ due = {} /\ polls = {} /\ acts = {}
        /\ review = NoReview
        /\ list = Old
        /\ posts = 0
        /\ told = None /\ crossed = FALSE

-----------------------------------------------------------------------------
(* The page and what it shows *)

ShowsSources(v)  == v.open = None \/ v.row = NoRow
ShowsReview(v)   == ~ShowsSources(v) /\ v.row.stage = "analyzed"
ShowsProgress(v) == ~ShowsSources(v) /\ v.row.stage = "waiting"

\* The instance of ReviewScreen after v is rendered over what was there: it
\* has no key, so it outlives a change of job.
Mounted(v) == IF ~ShowsReview(v) THEN NoReview
              ELSE IF ShowsReview(view) THEN review ELSE [of |-> v.row.id, act |-> 0]

Reports == {j \in Jobs : stage[j] = "rendered"}

\* The history fetches its rows as it mounts, and shows them until it unmounts.
Listed(v) == IF ~ShowsSources(v) THEN {} ELSE IF ShowsSources(view) THEN list ELSE Reports

\* Mutant of Kept: the cleanup does not cancel the polls of the effect.
KeptAll(v) == polls

\* The polls that still count once the effect has been cleaned up.
Kept(v) == {}

\* Mutant of Polling: the effect leaves the first poll to the interval.
PollingLater(v) == Kept(v)

\* The effect for v: its cleanup, and a poll of the open job at once.
Polling(v) == Kept(v) \cup IF v.open = None THEN {} ELSE {[job |-> v.open, got |-> "asked"]}

Commit == /\ "render" \in due /\ "effects" \notin due
          /\ view' = state
          /\ review' = Mounted(state)
          /\ list' = Listed(state)
          /\ due' = (due \ {"render"}) \cup {"effects"}
          /\ UNCHANGED <<server, state, polls, acts, posts, history>>

\* The page shows that the server has work on the open job, and has set nothing
\* else meanwhile.
Waits == ShowsProgress(view) /\ view = state /\ stage[view.open] = "waiting"

Effects == /\ "effects" \in due
           /\ polls' = Polling(view)
           /\ due' = due \ {"effects"}
           /\ told' = IF Waits THEN view.open ELSE told
           /\ UNCHANGED <<server, state, view, review, list, acts, posts, crossed>>

\* The condition under which the interval polls.
Due(v) == v.open # None /\ (v.row = NoRow \/ v.row.stage = "waiting")

Tick == /\ due = {} /\ Due(view)
        /\ Cardinality(polls) < MaxPolls
        /\ polls' = polls \cup {[job |-> view.open, got |-> "asked"]}
        /\ UNCHANGED <<server, react, acts, posts, history>>

\* GET /api/jobs/{id}
Answer(p) ==
  /\ p \in polls /\ p.got = "asked"
  /\ polls' = (polls \ {p}) \cup {[p EXCEPT !.got = IF Exists(p.job) THEN stage[p.job] ELSE "gone"]}
  /\ UNCHANGED <<server, react, acts, posts, history>>

\* Mutant of Fetched: the first row stays.
FetchedFirst(p) == IF state.row = NoRow THEN Row(p.job, p.got) ELSE state.row

\* setJob(fresh)
Fetched(p) == Row(p.job, p.got)

\* A 404 is swallowed.
Deliver(p) ==
  /\ p \in polls /\ p.got # "asked"
  /\ polls' = polls \ {p}
  /\ IF p.got = "gone" THEN UNCHANGED <<state, due, crossed>>
     ELSE /\ state' = [state EXCEPT !.row = Fetched(p)]
          /\ due' = due \cup {"render"}
          /\ crossed' = (crossed \/ (due # {} /\ {p.job} # {state.open, view.open}))
  /\ UNCHANGED <<server, view, review, list, acts, posts, told>>

-----------------------------------------------------------------------------
(* Clicks *)

\* A click that changes the state, rendered with its effects.
Flip(v) == /\ due = {}
           /\ state' = v /\ view' = v
           /\ review' = Mounted(v)
           /\ polls' = Polling(v)
           /\ list' = Listed(v)
           /\ told' = None
           /\ UNCHANGED <<server, due, acts, posts, crossed>>

\* The title of the page, "Start over", "Process another video".
Reset == state # Closed /\ Flip(Closed)

ViewReport(j) == /\ ShowsSources(view) /\ j \in list
                 /\ Flip([state EXCEPT !.open = j])

\* A click that posts a request.
Post(kind, j, of) ==
  /\ due = {} /\ posts < MaxPosts
  /\ posts' = posts + 1
  /\ acts' = acts \cup {[kind |-> kind, job |-> j, of |-> of, n |-> posts + 1, at |-> "asked"]}
  /\ UNCHANGED <<server, state, view, due, list, polls, history>>

New(j) == /\ ShowsSources(view)
          /\ stage[j] = "absent" /\ \A a \in acts : a.job # j
          /\ Post("create", j, j) /\ UNCHANGED review

FromHistory(j) == /\ ShowsSources(view) /\ stage[j] # "absent"
                  /\ \E kind \in {"rerun", "delete"} : Post(kind, j, j)
                  /\ UNCHANGED review

Cancel == /\ ShowsProgress(view)
          /\ Post("cancel", view.open, view.open) /\ UNCHANGED review

\* patchRegion and startRender, with the region and the songs on the screen.
Generate == /\ ShowsReview(view) /\ review.act = 0
            /\ Post("generate", view.open, review.of)
            /\ review' = [review EXCEPT !.act = posts + 1]

-----------------------------------------------------------------------------
(* The server answers a click *)

Replied(a, at) == acts' = (acts \ {a}) \cup {[a EXCEPT !.at = at]}

\* A rerun is refused (404) for a job that is gone, a render (409) for one at
\* work too.
Accepted(a) == CASE a.kind = "rerun"    -> Exists(a.job)
                 [] a.kind = "generate" -> stage[a.job] \in Settled
                 [] OTHER -> TRUE

\* The row says so before the answer leaves.
Started(j) == Life!Start(j) /\ stage'[j] = "waiting"

Handle(a) ==
  /\ a \in acts /\ a.at = "asked"
  /\ IF ~Accepted(a) THEN Replied(a, "refused") /\ UNCHANGED server
     ELSE /\ Replied(a, "ok")
          /\ CASE a.kind = "create" -> Life!Create(a.job)
               [] a.kind \in {"rerun", "generate"} -> Started(a.job)
               [] a.kind = "delete" /\ Exists(a.job) -> Life!Remove(a.job)
               [] OTHER -> UNCHANGED server
  /\ UNCHANGED <<react, polls, posts, history>>

\* Work on a job: stages are written, and the last one settles.
Run(j) == /\ Life!Advance(j) \/ Life!Rest(j)
          /\ told' = IF stage'[j] \in Settled /\ told = j THEN None ELSE told
          /\ UNCHANGED <<react, polls, acts, posts, crossed>>

-----------------------------------------------------------------------------
(* The page gets the answer to a click and goes on *)

\* Setting what is set already renders nothing.
Moved(v) == state' = v /\ due' = IF v = state THEN due ELSE due \cup {"render"}

Opens(a)      == a.kind \in {"create", "rerun"} /\ a.at = "ok"
Closes(a)     == a.kind = "cancel"
Optimistic(a) == a.kind = "generate" /\ a.at = "ok" /\ state.row # NoRow

\* Mutant of WithReview: a refused click leaves the button disabled.
ReviewAsIs(a) == review

\* setSubmitting(false), if the screen that was clicked is still there.
WithReview(a) == IF a.kind = "generate" /\ a.at = "refused" /\ review.act = a.n
                 THEN [review EXCEPT !.act = 0] ELSE review

\* refresh(), if the history is there.
Refreshed == IF ShowsSources(view) THEN Reports ELSE list

\* The answer acts on whatever is open by now, not on the job it was for.
Resume(a) ==
  /\ a \in acts /\ a.at # "asked"
  /\ acts' = acts \ {a}
  /\ \/ Opens(a) /\ Moved([state EXCEPT !.open = a.job])
     \/ Closes(a) /\ Moved(Closed)
     \/ Optimistic(a) /\ state' = [state EXCEPT !.row.stage = "waiting"]
                      /\ due' = due \cup {"render"}
     \/ ~Opens(a) /\ ~Closes(a) /\ ~Optimistic(a) /\ UNCHANGED <<state, due>>
  /\ told' = IF state'.open = state.open THEN told ELSE None
  /\ crossed' = (crossed \/ (Opens(a) /\ state.open \notin {None, a.job}))
  /\ review' = WithReview(a)
  /\ list' = IF a.kind = "delete" THEN Refreshed ELSE list
  /\ UNCHANGED <<server, view, polls, posts>>

-----------------------------------------------------------------------------
Answers    == \E p \in polls : Answer(p)
Deliveries == \E p \in polls : Deliver(p)

Requests == \E a \in acts : Handle(a) \/ Resume(a)

Clicks == Reset \/ Cancel \/ Generate \/ \E j \in Jobs : ViewReport(j) \/ New(j) \/ FromHistory(j)

Next == \/ Commit \/ Effects \/ Tick \/ Answers \/ Deliveries \/ Requests \/ Clicks
        \/ \E j \in Jobs : Run(j)

\* React renders, the interval fires, requests are answered and the answers
\* are delivered; work in hand ends (Jobs!RunsEnd).  Nobody owes a click.
Fairness == /\ WF_vars(Commit \/ Effects \/ Tick) /\ WF_vars(Requests)
            /\ WF_vars(Answers) /\ WF_vars(Deliveries)
            /\ WF_vars(\E j \in Jobs : Life!Rest(j) /\ Run(j))

Spec == Init /\ [][Next]_vars /\ Fairness

-----------------------------------------------------------------------------
(* What the page promises *)

\* The variables hold what the code can put in them.
TypeOK ==
  LET Views == [open : Jobs \cup {None}, row : [id : Jobs, stage : Life!Existing] \cup {NoRow}] IN
  /\ stage \in [Jobs -> Life!Stages] /\ busy \subseteq Jobs /\ stranded = {}
  /\ state \in Views /\ view \in Views
  /\ due \subseteq {"render", "effects"}
  /\ polls \subseteq [job : Jobs, got : Life!Existing \cup {"asked", "gone"}]
  /\ acts \subseteq [kind : {"create", "rerun", "cancel", "delete", "generate"}, job : Jobs,
                     of : Jobs, n : 1..MaxPosts, at : {"asked", "ok", "refused"}]
  /\ review \in [of : Jobs \cup {None}, act : 0..MaxPosts]
  /\ list \subseteq Jobs /\ posts \in 0..MaxPosts
  /\ told \in Jobs \cup {None} /\ crossed \in BOOLEAN

\* The region and the songs that are submitted for a job are those of its own
\* analysis, whatever polls of other jobs were in flight when it was opened.
OwnRegion == \A a \in acts : a.of = a.job \/ crossed

\* The same, in every order of the answers: it does not hold.
OwnRegionEver == \A a \in acts : a.of = a.job

\* Once the waiting screen of a job has been rendered and its effects have run,
\* no older row brings the review of that job back before the work has settled.
\* Between an optimistic change and its effects, one can.
NoStaleOffer == ShowsReview(view) => view.open # told

\* Once the requests and the runs are over, the page shows the open job as it
\* is, in whatever order polls, clicks and runs came before.
CatchesUp == <>[](~ShowsSources(view) /\ Exists(view.open)
                    => view.row = Row(view.open, stage[view.open]))

\* A progress screen does not stay for ever, unless its job was deleted.
ProgressEnds == \A j \in Jobs :
  (ShowsProgress(view) /\ view.open = j)
    ~> (~ShowsProgress(view) \/ view.open # j \/ stage[j] = "deleted")

\* The button of the review screen does not stay disabled for ever: a click that
\* is refused gives it back, and after one that is accepted the polls take the
\* screen away, even if an older row brought it back in between.  Not so if the
\* open job is deleted by then, or once more one that has been analysed.
Clicked(at)   == \E a \in acts : a.n = review.act /\ a.at = at
ButtonReturns ==
  /\ Clicked("refused") ~> review.act = 0
  /\ Clicked("ok") ~> (~ShowsReview(view) \/ stage[view.open] \in {"deleted", "analyzed"})
=============================================================================
