# A formal model of TabXtract

TabXtract turns videos of scrolling or paged guitar tablature into PDFs. It is
a Tauri shell (Rust) that shows a web page (React) and starts a Python sidecar
(FastAPI) whose worker threads run yt-dlp, ffmpeg and an image pipeline. This
directory models the parts of it where several actors share state, checks them
with TLC on small instances, and proves what matters most with TLAPS for every
value of the constants.

## 1. The system

| component | state it keeps | operations | talks to |
|---|---|---|---|
| Job API (`server/main.py`) | none of its own: one event loop, handlers run one at a time | create from a file or a link, analyse, render, cancel, delete, save a region or songs, profiles, preferences, yt-dlp update | the jobs table, the runner, the profile library, the updater |
| Job runner (`server/runner.py`) | the `processing` pool (1 thread), the `download` pool (2 threads), the set `_cancelled` | `submit_analyze`, `submit_render`, `submit_download`, `request_cancel`, `shutdown`, the runs | the table, the disk, the engine, yt-dlp, the progress broker |
| Jobs table (`server/db.py`) | one SQLite row per job: status, error, path of the video, analysis, output folder, render | insert, update, delete, list, `init` | SQLite, shared by all threads |
| Working files (`config.py`, `sampling.py`, `ytdlp.py`) | per job: the source video, the extracted frames, the staged PDFs; the published folders | extract, compose, publish, remove | ffmpeg, yt-dlp |
| Song segmentation (`songs.py`) | the list of boundaries while it runs | cluster the outliers, merge segments that look alike, merge short ones | the frames, the review screen |
| Paged render (`cursor.py`, `compose.py`, `layout.py`) | the cursor samples, the page starts, the pages of a song | track the cursor, detect wraps, compose each group of frames, trim, put bands on sheets | the frames of a song, the PDF |
| Scrolling render (`compose.py`, `layout.py`) | the offsets, the canvas, its blocks | measure motion, compose bands of rows, cut systems, put bands on sheets | the frames of a song, the PDF |
| Verification (`verify.py`) | the accepted number, the issues | compare bar numbers, check the offsets, count discarded ink | the report of a render |
| Detection (`region.py`, `geometry.py`, `advance.py`) | nothing between runs | find the region of the tablature, vote on the advance mode | the sampled frames, the pipeline |
| Rest of the engine (`sampling.py`, `pipeline.py`) | nothing between runs | extract frames, call the stages | ffmpeg, the runner |
| Profile library (`profiles.py`, handlers in `main.py`) | `profiles.json` | load, match, save, list, import | the worker thread and the event loop |
| Preferences (`config.py`, handlers in `main.py`, `PreferencesPanel.tsx`) | `preferences.json`, the copy of it that the page holds | load, save, get, put, remember the folder of a render | the event loop, the workers, the page |
| yt-dlp updater (`ytdlp.update`) | `yt-dlp`, `yt-dlp.part` in the data directory | update | GitHub's releases, every download |
| Progress broker (`progress.py`, `useProgress.ts`) | a bounded queue per WebSocket | publish, subscribe, unsubscribe | workers, event loop, page |
| Desktop shell (`main.rs`) | the port and token of the sidecar | spawn, read the handshake, emit events, kill | the sidecar, the page |
| Sidecar process (`server/__main__.py`) | a bound socket, two watchdog threads | bind, announce, serve, exit | the shell, by its stdout and stdin |
| Page (`src/`) | the open job and its row, as set and as rendered; the review being edited; the log of the progress screen | start, poll, click, render, subscribe | the shell, the API, the WebSocket |

What makes these parts hard:

* **Several runs of one job.** Nothing prevents a second `analyze` or `render` of
  a job that is queued or running; handlers and runs then interleave on one row,
  one directory and one cancellation flag, and every write is a separate one.
* **Cancellation by polling.** A cancel only adds an id to a set. A run looks at
  it at each progress report, a submission clears it, and a download that ends
  submits an analysis by itself.
* **A table that outlives the threads.** The row says "queued" or "rendering";
  the work is in memory, and a stop of the process drops it.
* **Files as a cache.** Frames that are on disk are taken as they are; a
  successful render removes the directory that the row still points into.
* **Unlocked files.** `profiles.json` and `yt-dlp.part` are read, truncated and
  rewritten by several threads; `preferences.json` is rewritten by one, and what
  reads it in between silently gets the defaults.
* **Silence of the engine.** Nothing crashes when a page is merged into the next
  one, a displacement is taken for zero, a song is cut in two or a gap in the
  bar numbers is explained away: the PDF just lacks bars. What is lost depends on
  positions (the first frame with a cursor, groups of two frames, the last page,
  a loss next to a misreading) that hand-written videos rarely hit.
* **Medians over samples that disagree.** A region is four medians taken one by
  one, a mode a vote over displacements; nothing tells a wrong one.
* **Messages that nobody waits for.** The broker drops what a full queue cannot
  hold, a client leaves while its handler waits for a message or for the
  connection, and a screen changes its job while messages of the other are on
  their way.
* **Answers that come late.** The page polls, clicks and renders at the same
  time. The answer to a click acts on whatever is open when it arrives, and
  between setting a state and rendering it other answers find the old screen.
* **Three processes that start and stop in any order**, and have one line on a
  pipe and one event to find each other by.

## 2. The modules

### Jobs (core)

`Jobs.tla` is the runner with everything it shares: the handlers of `main.py`,
the pools and runs of `runner.py`, the table of `db.py` and the files of
`sampling.py`, `pipeline.py` and `ytdlp.py`.

| variable | in the code |
|---|---|
| `row` | the row of each job; `path` is `local_path`, `analysis` what the analysed frames cover, `out` and `render` the published folder and its songs. "absent" and "deleted" stand for no row |
| `files`, `frames`, `orphans`, `staged`, `outs` | the source videos of a job, how much of the video its PNGs cover, the jobs whose ffmpeg outlived its run, the PDFs in `<workdir>/output`, the published folders |
| `cancelled` | `runner._cancelled` |
| `queue` | the tasks waiting in each `ThreadPoolExecutor` |
| `pc`, `cur`, `mem` | where each thread is, its task, its local variables |
| `up` | the sidecar process: serving, shut down and finishing its runs, or gone |
| `requests`, `stops` | bounds |
| `asked`, `lost` | history: jobs whose last request was a cancel or delete; jobs whose work a stop dropped |

One step is one operation on something shared: a statement on the database, a
look at the flag, a submission to a pool, a change of the disk. The event loop
is a thread (`Loop`) that runs one handler to its end; `submit_*` is therefore
the steps `ClearCancel`, `MarkSubmitted`, `Submit`, taken by the loop or by the
download worker that queues an analysis. An analysis is `ReadJob`,
`MarkAnalyzing`, `Sample`, the `Decode*` steps, `ListFrames`, `Detect`,
`SaveAnalysis`; a render `LoadJob`, `MarkRendering`, `OpenFrames`,
`ComposeSong`, `ComposeDone`, `ChooseTarget`, `MoveOutput`, `RecordRender`,
`CleanWorkdir`; a download `FetchLine`, `FetchEnd`, `FetchDone`, `Landed`.
Whatever a run raises ends in `Fail`, the `_fail` of the runner. `Shutdown`,
`Kill`, `Exit` and `Restart` are the life of the process: a shutdown drops the
queued tasks and lets the running ones finish, a kill drops both. The move of
the staged PDFs is a copy and a removal when the folder is on another file system:
`MoveOutput` may raise, and the process may end, with any part of either done
(`HalfMoved`). `CleanWorkdir` removes the working directory, in which an ffmpeg
that outlived its run may leave an incomplete set of frames all the same.

Abstracted: the content of videos, frames and PDFs (presence and coverage are
kept), the progress messages, the stages inside region, mode and song detection
(one step that reports progress or raises), the user's overrides of region and
songs, and the messages of errors (their cause is kept).

### JobLife

`JobLife.tla` is what the runner promises to whoever looks at a job, and nothing
more: its stage (absent, waiting, one of the settled stages, deleted), whether
work for it is in hand, whether a stop took that work away. A job moves only by a
request (`Create`, `Start`, `Remove`) or by work in hand (`Advance`, `Rest`);
when the last work ends, the stage it leaves is not "waiting"; "deleted" is
never left. `Jobs` implements it (`ImplementsLife`): `Stage` makes one stage of
the statuses that make the user wait, `InHand` is a queued task, a handler or a
run, `stranded` is `lost`. `Screen` is built on it.

### Profiles

`Profiles.tla`: `profiles.json` with the two threads that rewrite it. A load is
one read; `write_text` is two steps, the truncation that opening does and the
write, because another thread reads or writes in between and the process may die
there. Two writes at once may leave the end of the longer text behind the
shorter one (`Garbled`). Names are kept; `stamp` stands for the rest of a
profile. The rest is history: `kept` are the names saved or imported by rewrites
that ran alone, `beside` the threads whose rewrite met another one, `overlapped`
and `torn` whether two ever met and whether the process ever died inside a write.

### Preferences and DataDir

`Preferences.tla`: `prefs` is the file, whole or emptied (`Torn`) between the
opening and the write of `write_text`; `Loaded` is `load_preferences` with its
silent defaults. `shown` is the `preferences` state of the page, `requests` its
calls that may change preferences, from the click to the answer: `Change` in the
panel, whose answer replaces the copy, and `Generate`, whose render makes the
handler remember the folder. `Save` and `Write` are the two halves of a save.
`updates_enabled` stands for every setting that only the panel changes.

`DataDir.tla` composes it with `Profiles`: the handlers of both run on one event
loop, so that neither begins while the other is inside a write, a save of a
profile runs on the processing thread beside them, and one death of the process
ends everything.

### Updater

`Updater.tla`: `ytdlp.update` of a frozen bundle. A file is known by the request
that created it, so that a rename is a change of `tmp` and `target` and an open
handle keeps writing to the file whatever its name has become. `data` holds the
release that each chunk of each file comes from. A digest is right exactly when
the stream is complete and belongs to the release the checksum is for. A
request that fails removes the unfinished file (`Discard`) or, where it raises
something that the handler of the code does not catch, leaves it (`Abandon`).

### Startup

`Startup.tla`: the shell, the sidecar and the page. The handshake line goes
through the pipe, the shell's memory (`info`) and an event; the page asks once
and then listens. The shell may be closed (its handlers run) or killed (they do
not), and its pid may be given to somebody else before the sidecar looks.

### Progress

`Progress.tla` follows a message from the worker that publishes it to the
screen: `Publish` and `Deliver` are the two halves of `broker.publish` (the
second runs on the event loop), `subs` and `box` the subscriptions and their
queues, the actions `Subscribe` to `SendFails` the handler `progress_ws` with the
task that waits for the client to leave (`Watch`), and `Show`, `Unmount`,
`Effects` and `Receive` the hook `useProgress`: a screen is rendered for another
job (`shown`) before the effect of the hook closes the socket of the last one
and opens its own (`effect`), and messages arrive in between. `wire` holds at most one message per
connection, which makes a slow client hold up its handler.

### Screen

`Screen.tla` is the page around a job, over the server as `JobLife` has it
(without stops: then the page loses its backend, which is `Startup`'s matter).
`state` is `jobId` and `job` as last set, `view` as last rendered, `due` the
render and the effects that React still owes; a poll is asked, answered and
delivered, a click is posted, handled and resumed, each in a step of its own.
`review` is the mounted `ReviewScreen`, which has no key and therefore outlives a
change of job; `list` is what the mounted history offers reports of, fetched as it
mounts and after a deletion, and as old as that. `told` and `crossed` are history:
the job whose waiting screen was rendered, with its effects, and whose work has not
settled; and whether, before the effects of a change of the open job had run, a poll
brought the row of another or an answer opened a job over another. `Accepted` and
`Started` are what the handlers of `main.py` do before they answer.

Abstracted: the rest of the list (its other buttons may be there for any job), the content of the row beyond its stage, the region
editor, the preferences (which `Preferences` has) and the texts.

### Songs

`Songs.tla`: `segment_songs`. A frame is the scene outside its tablature; two
frames of one scene are alike, two of different scenes are far apart, and a
median of several frames shows the scene most of them show or a mixture that may
resemble anything (`Rep`, hence `Alike` and `Unlike`, which leave a choice when
neither is known). `bounds` is the list of that name, as a set. One action per
round of each loop: `TakeCluster`, `Merge`, `Shorten`. `still` tells a capture in
which most frames repeat the one before: the median distance of its frames is 0,
and `Merge`, which asks for less than 1.5 times that, takes nothing away. In
every other video two medians of one scene are taken to be within 1.5 times the
median distance of two frames, which holds where frames vary about their scene
and is assumed here; `MIN_BOUNDARY_DELTA` and the score of an outlier are left
out.

### Detection and Analysis

`Detection.tla` holds the pure part of `region.py`, `geometry.py` and
`advance.py` as operators: the runs of a mask with its short gaps closed, the
box of a frame, the medians with the rounding of numpy and of Python (`HalfEven`),
the samples that agree, and both criteria of the mode. Pixels become coarse
units, percentages whole ones. That a row is mostly paper, that lines of a staff
are found and what a pair of frames measures are inputs.

`Analysis.tla` extends it and `Songs` to `analyze`: a profile for the resolution
or `Sample` and `DetectRegion`, then `Measure` and `Classify`, then `OpenVideo`
and the steps of `Songs`. No stage of the code looks at what another found except
through the frames, so a stage forgets what the earlier one saw (`Forget`) and
the songs are looked for in any video. The samples are bags, since neither
medians nor votes depend on their order; their copies are numbered (`Copies`), so
that counts, ranks and sums are sizes of sets.

### Measures

`Measures.tla`: `analyze_measure_sequence`, with its arithmetic (`Unit` makes the
divisions exact; medians are doubled). `song` is the truth the numbers are read
from: bars per system, a hole, a misread system. `accepted` and `pos` are the
indices of the code; one action per branch of its loop.

### Layout, Pages, Scroll

`Layout.tla` is `_paginate` and `_render_sheet`: `Place`, `NewSheet` and
`LastSheet` put the bands of `todo` on `sheets`. `Pages` and `Scroll` extend it,
each with one way in which bands come about, and are the two branches of
`render_song_range`; what the two have in common, from the end of their
composition on, is in `Layout` (`pc`, `LayOut`, `Save`).

In `Pages` the video is filmed frame by frame by a player that goes through the
score, with blends at page turns, hidden cursors and footage (`FilmPage`); then `DetectWraps`,
`ComposePage` for every group and `ToSystems` follow. The wraps that are kept are
counted off one by one (`Kept`, `Nth`). A picture is the page it
shows; a median shows what most frames show, a maximum what all show, and
anything else is `Mixture`, which may or may not count as paper.

In `Scroll` the score is a column of numbered rows. `Film` moves it and measures
the motion at once: by the template, by the second estimator (which is right or
out of range while the frames share rows, and arbitrary when they do not), or
not at all. `ComposeBand` fills `canvas` row by row as `compose_scroll` does,
padding included. `Cut` takes any subset of the blank runs as the gaps between
systems, because their threshold and the bridging barlines depend on pixels; the
blocks between the cuts are a set, and `InOrder` has the one sequence that goes
from top to bottom. It
is assumed that the template, when it is found with confidence, is found in the
right place: music that repeats within one region is outside the model.

### MC modules and proofs

`MCJobs` and `MCAnalysis` hold the model values that a
configuration cannot write and the claims of the documentation that the code
does not keep. Where a module needs no such values, a claim that fails stands at
its end with the words "It does not hold". The theorems are in `JobsProofs`,
`ProfilesProofs` (with `DataDir`), `UpdaterProofs`, `ProgressProofs`,
`ScreenProofs` (about `Screen` and `Startup`, the page's two ways to the
sidecar), `AnalysisProofs` (about `Analysis` with `Songs` and `Detection`), `MeasuresProofs` and
`RenderProofs` (about `Layout`, `Scroll` and `Pages`). `Startup` and `Pages`
prefix their specification with their own name (`StartupSpec`, `PagesInit`,
...) because each of these modules extends more than one component.

## 3. The runs

Run one with `tlc -config <run>.cfg <module>`.

| run | module | question | answer |
|---|---|---|---|
| `Jobs_mixed` | MCJobs | do a local job and a link job, any three requests and a stop implement `JobLife`; is there ever a status with no work behind it, or a cancel of the local job that is ignored? | yes; no |
| `Jobs_file` | MCJobs | over four requests on one local job with two songs and a stop: are the frames of a run pulled away, a published folder overwritten, a deleted job revived, a run endless? | no |
| `Jobs_rerun` | MCJobs | is a rendered link job that is run again downloaded again? | no: counterexample |
| `DataDir_all` | DataDir | do two writers and a crash ever make a name stand for two profiles; is what a write saved that ran alone ever lost; do overlapping changes of settings, renders and restarts? | no |
| `Updater_all` | Updater | is the installed yt-dlp one whole release, and can it be executed, with failures, a release published in between and a crash? | yes, unless updates overlap (whole) or the process dies (executable) |
| `Startup_all` | Startup | may the page connect too early; does a sidecar outlive its shell; does the page wait for ever? | no |
| `Progress_all` | Progress | do handlers and subscriptions end with their clients; is what is added to the log about the job the hook listens to; is what no queue dropped shown? | yes |
| `Screen_all` | Screen | does the page catch up with the server, without a screen or a button that waits for ever, and does it submit a job's own review? | yes; the last, while no answer meets another job |
| `Analysis_all` | MCAnalysis | is a score that most samples show located exactly, its mode told apart, each song found, and does the analysis end? | yes |
| `Measures_all` | Measures | are healthy songs quiet, one misreading absorbed, real losses located? | yes, within the stated tolerance |
| `Pages_all` | Pages | does every page of a well played video come out once, in order and untrimmed at the end? | yes |
| `Scroll_all` | Scroll | has the canvas no hole; is it the score unless the report complains; is its ink printed once; are sheets full? | yes |

Further configurations can be run by hand:

* `<Module>_types`, and `Screen_polls`, check the type invariant of each module that
  no theorem or run above states, and with it `InOrder` of Progress, `GroupsTile` of Pages, and
  `PanelIsTrue` of Preferences: with every answer in, the panel shows what is saved.
* `Jobs_stop` checks the type invariant of `Jobs` and, under the fairness of the
  runner, that a job that waits settles unless a stop dropped its work, links
  included (`Settles`).
* `Jobs_coverage`, `Jobs_stale`, `Jobs_stranded`, `Updater_overlap`,
  `DataDir_folder`, `Startup_late`, `Screen_late`, `Songs_cutaway`, `Analysis_axis`,
  `Measures_gap` and `Scroll_few` end in a counterexample; section 5 says what
  each shows.

### Bounds

* *Jobs.* One job of each kind and two songs: the hazards are between runs of the
  **same** job, and the pools have one and two threads, so a second job adds
  waiting but no new sharing except the pools themselves, which `Jobs_mixed` has.
  Three to four requests are enough for create, submit, submit again or cancel,
  delete. One stop: after a restart nothing of the first process is left but the
  table and the files.
* *Progress.* Two jobs, two connections, queues of one message, three messages:
  a screen is left for another job and taken up again while the handler of the
  first connection still runs, a queue fills with one message waiting behind
  another, and every place on the way can hold a message of the wrong job.
* *Screen.* One new job and one of an earlier session, two posted clicks, any
  number of clicks that post nothing. The interval waits for the poll in flight, so
  that there is one at a time (polls whose effect was cleaned up no longer count);
  `Screen_polls` has two at a time, of one job or of two, for the invariants and
  `TypeOK`, without the liveness properties, for which it is too large. Two clicks are enough for one answer to arrive while another job is
  open; three show it submitting a wrong region (`Screen_late`).
* *DataDir.* Two names, two folders, four operations on profiles and requests of
  the page together, three requests at most, imports of any non-empty batch, one
  crash. Two threads write profiles, so two names and two overlapping rewrites
  give every order; a change that is under way while another is saved and a render
  remembers a folder is three requests.
* *Updater.* Three updates of two chunks each, two releases, one crash: two
  updates can overlap while a third runs alone afterwards, and two chunks are
  the fewest that can come from different releases.
* *Startup.* No bound: one shell, one sidecar, one page.
* *Analysis.* Four sampled frames of five rows, each row paper or not, two sets of
  columns and six places of the sheet; a region of two units at least and gaps
  of one. Two samples of four are the first that leave the median undecided,
  and five rows let a frame show a sheet, half of it, a wrong one of the same
  size and none. Nine pairs, of eight displacements on either side of both
  thresholds and both signs: five still ones, three steps and one misreading are
  the fewest for which a vote of three quarters is given and can be lost; the threshold of an event is
  another on each axis. The
  songs have the bounds below.
* *Songs.* Ten frames, two scenes, a gap of 1 and songs of 4 frames: two and a
  half songs, with room for clusters that touch and for a cutaway in each place.
* *Measures.* Six systems, 1, 4 or 7 bars per system, losses on both sides of the
  tolerance and of its twentyfold. `Unit` 60 is divisible by every distance.
* *Pages.* Nine frames, two pages, two columns: two clear pages take eight frames
  with `MIN_CONTRIBUTORS` 2 (it is 3 in the code; the threshold is a constant),
  and the ninth is a blend or footage.
* *Scroll.* Five frames, a region of four rows, bands of two, motions of up to the
  whole region, so that every amount of overlap occurs, none included.

### Fairness

`Jobs`: weak fairness of each step of a handler that has begun, of each worker's
taking and working on a task, and of the end and restart of a process that was
stopped. A thread that can go on does: Python's executors run a task until it
returns or raises, the handlers do not wait for anything, and ffmpeg and yt-dlp
end by themselves (yt-dlp has timeouts; ffmpeg reads a file). Users and stops
are not fair. `Startup`: the shell, the sidecar, the two watchdogs and the timer
of the page each go on; that the shell dies, is closed or its pid is reused is
not fair. `Progress`: the event loop runs what it was handed and every
coroutine that can run, the page reads its socket, and the server learns of a
connection that closed, React runs the effects of what it rendered; nobody owes a
message or a screen. `Screen`: React
renders and runs its effects, the interval fires, requests are answered and the
answers delivered (a failed request is not modelled), and work in hand ends,
which is the fairness that `Jobs!RunsEnd` shows the runner to have. Clicks are
not fair. `Analysis` and `Songs`: one sequential run. The other specifications
have no fairness and no liveness properties.

`CHECK_DEADLOCK FALSE` is set for `Jobs`, `DataDir`, `Preferences`, `Updater`, `Startup`,
`Progress` and `Screen`: their bounds on requests, operations, messages and stops
run out, and a process that is down stays down. In the other modules `Finished` is the only end.

## 4. What is proved

TLAPS checks these for every value of the constants, from the assumptions named
in the modules.

* `JobsProofs!TypeCorrect`: the type invariant of the runner. `TypeInv` adds
  `Busy` to `TypeOK` (a thread that is not idle has a task), without which the
  field accesses of a run are not typed.
* `JobsProofs!EveryStatusBacked`: a job that looks busy has work. The invariant
  is `BackedInv`, that is `TypeInv` and `StatusBacked` itself. The argument: a
  step of a thread touches one job; if it writes a status that promises work, the
  thread still owes that job a status or has just queued a task; if it stops
  owing, it has written one that promises nothing; taking a task turns "queued"
  into "owed"; and only a stop drops both, which `lost` records.
* `JobsProofs!DeletedForEver`: no step revives a deleted job, from the type
  invariant and the fact that every write of a run is an `UPDATE`.
* `JobsProofs!CancelStopsRuns`: once the last word on a local job is to cancel or
  delete it, no run of it gets past its next report. The invariant `CancelInv`
  says that the flag of such a job is set (`FlagStays`). Two places clear flags:
  a handler of analyze or render, whose request takes the job out of `asked`, and
  the submission at the end of a download, which is always about a link
  (`Links`, `QueuedLinks`, `Fetches`).
* `JobsProofs!RunnerIsLife`: the runner implements `JobLife`. Each action of
  `Jobs` is mapped to the action of `JobLife` it is, or to a stutter, through a
  few lemmas: a write of a row is lawful (`WriteIsLawful`), a step of the work for
  a job leaves some of it in hand (`HandAdvances`) or none (`HandRests`). The
  last is why the invariant is `BackedInv`: that no "waiting" is left behind is
  `StatusBacked` after the step.
* `JobsProofs!FramesAreKept`, `RenderedHasFolder`, `FoldersStay`: the frames
  of a run stay, what is shown as rendered is published, and a published folder
  is not touched. The invariant is `DiskInv`. The processing pool has one
  thread; the threads that download are never where a run reads frames or
  publishes (`DownStays`), because nothing but downloads is queued to them
  (`Sorted`). What the one thread relies on at each place is `Held`: frames from
  the listing to the move, the songs composed so far staged, a target that is
  free, and then its own. This is the argument that the code leaves unsaid: with
  a second processing thread none of the three holds. A move that is cut
  short leaves a folder that no row names and no later render chooses.
* `ProfilesProofs!NamesAreKeys`: a name of the library stands for one profile.
  The invariant covers the file and what each thread is about to write, because
  a rewrite is computed in one step and lands in another.
* `ProfilesProofs!SerialWritesKeepLibrary`: what a rewrite saved that ran alone
  stays in the library through restarts and through rewrites that overlap later,
  as long as it can be read; and it can be, unless rewrites overlapped or a death
  cut one. A thread that met no other is the only one at work (`Alone`), so that
  whatever is carried (`Carried`) or can be read (`OnFile`) has every name kept
  so far; `Untorn` says when the file is empty.
* `ProfilesProofs!SettingsAreRemembered`: between two writes, what is loaded is
  every setting as it was saved last. The invariant says that at most one handler
  is inside a write (`OneWrites`), that the file is emptied exactly then and else
  holds what was saved last (`FileInv`), and that what the handler carries is
  that with its patch (`Carries`); nothing is claimed after a death inside a
  write. `LibraryAlone` shows that the composition changes nothing for the
  library: a behaviour of `DataDir` is one of `Profiles`.
* `UpdaterProofs!SerialUpdatesKeepCopyWhole`: updates that do not overlap never
  install anything but a whole release. The invariant `Held` says that at most
  one run is under way, that its file is not the installed one, that it holds
  exactly the chunks received so far, and that it is complete when verified.
* `UpdaterProofs!InstalledCopyRuns`: overlapping or not, the copy in place can be
  executed or the chmod of the request that put it there is still to come.
* `ProgressProofs!LogIsOwn`: the log grows only by messages of the job for
  which the effect of the hook was run last, which is the one on the screen but for
  the gap between a render and its effects. The invariant: what is in the queue, in
  the hand of the handler and on the wire of a socket is about the job of that
  socket, a handler that has ended or not subscribed holds nothing, and an open
  socket was opened by the last effect.
* `ScreenProofs!RegionIsOwn`: the region submitted for a job is that of its own
  analysis while no answer has met another job. The invariant relates the four
  things that change at different times: with nothing due the polls that count are
  of the rendered job (`InStep`), with no render due the view is the state (`Rendered`), a row
  outlives an answer only with its job (`RowStays`), and the review has the
  analysis of the job that is rendered (`OwnReview`).
* `ScreenProofs!NoOldOffer`: once the waiting screen of a job has been rendered and
  its effects have run, no older row brings the review back before the work has
  settled, in any order of polls, clicks and answers. `Told` says why: those effects
  cancel every older poll, so until then the row is of no settled stage on the
  server, on the page, as set and as rendered, and in every poll that counts.
* `ScreenProofs!BackendIsReachable`: when the page connects, a sidecar has announced
  itself and answers. `Announced` follows the address on its way, from the
  sidecar's standard output to the shell and from there, by either of two ways, to
  the page.
* `RenderProofs!CanvasIsCovered` and `ScoreIsKept`: for any motions and sizes, no
  row of the canvas stays black, and the canvas is the score when every pair was
  measured, no motion leaves the region and no band is short of frames. What is
  accepted as a displacement is smaller than the region, so each frame begins
  before the one above it has ended (`Reached`); a motion within the region is
  measured right, so the sums are the places of the frames (`Right`); and frames
  that are in their places agree on each row, which is then their median
  (`MedianIsRight`).
* `RenderProofs!SheetsAreFull`: what lies on a sheet fits or is a single band,
  nothing is drawn beyond the paper, no sheet is begun too early. `Placed` says
  that `used` is the height of the sheet at hand (`HeightOfMore`), and that its
  first band is one that the sheet before it had no room for.
* `RenderProofs!InkIsPrinted`: however a canvas is cut, ink is printed in one
  piece, in order and once. The centre of a gap is a blank row (`CentreIsBlank`),
  so a stretch of ink lies between two cuts that follow each other (`InkInBlock`);
  blocks are disjoint, and are placed from top to bottom; and placing a band,
  finishing a sheet and finishing the last one leave what is printed, put one
  after the other, as it was (`PrintedKept`). The invariant of both is `Laid`.
* `RenderProofs!EveryPageIsPrinted`: every page of a well played video comes out
  once and in order, for any number of pages, columns and frames and wherever the
  song begins. A page is on the video during one window (`PageIs`, `WindowsApart`);
  of all the drops of the cursor exactly one per window is kept, at its first sample
  or at the blend before it (`FirstOpens`, `NextOpens`, `WrapInWindow`). So the
  k-th group begins in the k-th window (`PagesBegin`), all but its first and at most
  its last two frames show that page (`PageFills`), and `MIN_CONTRIBUTORS`
  clear frames make its median the page (`PageShows`). The hypothesis is
  `WellPlayed`, what the run assumes as well: every page clear for long enough, no
  footage, and a blend of one frame at most per turn.
* `RenderProofs!LastPageIsWhole`: the last page is not trimmed when it shows the
  end of the score. `OnSheets` relates the bands laid out to the pages composed.
* `RenderProofs!GroupsAreTiles`, `PageSheetsAreFull`, `PagesAreTyped`: the groups
  are the frames of the song cut at the wraps, without a gap or an overlap; the
  sheets are full in this render too; and the type invariant.
* `AnalysisProofs!SongsCoverVideo` and `SongsAreLong`: the boundaries always
  contain 0 and the number of frames and stay within them, whatever is dropped,
  and no song is too short if there is more than one. Both are inductive with the
  type invariant; the proofs rest on the existence of least members of sets of
  naturals.
* `AnalysisProofs!SongsAreFound` and `CutawayIsIgnored`: a video whose scenes each
  last as long as a song is cut where the scene changes and nowhere else, and a
  cutaway of one cluster divides nothing, or in a still video at most into two
  songs at the cutaway, whatever the earlier stages of the analysis came to. The invariant `Segmenting` says of the rounds of the three
  loops which boundaries there are so far (`Cuts`). It needs two clusters to be
  further apart than a cutaway is long, and so `2 * Gap < MinLen`, an assumption
  that the constants of the code meet (`songs.py:22`, `25`).
* `AnalysisProofs!SheetIsFound` and `RegionIsLarge`: the region is the sheet when
  most boxes are, and never too small. The invariant `Located` says that the bag of
  boxes has a copy of the sheet for each clean sample. That such a sample yields
  the sheet is about runs: gaps are closed inside the paper (`ClosedFills`), not
  at its ends (`ClosedEnds`), and every other run ends where the mask did
  (`RunEnds`), so that it is shorter (`SideFound`). The rest is about ranks:
  copies are counted as a set, so counts grow with the set of members and add up
  (`CountGrows`, `CountAdds`); a value of each rank exists (`RankedIs`); the median
  does what most copies do (`MedianFollowsMost`), and medians of sides that are
  apart are as far apart (`MediansApart`), which rounding to even keeps because
  the smallest side is even (`Rounding`).
* `AnalysisProofs!ModeIsFound`: the mode is that of the pairs, for any number of
  pairs and any displacements. The invariant `Measured` says that the mode is that
  of the bag of displacements. Medians decide when most pairs move
  (`FlowDecides`), votes when most are still (`VotesDecide`, `StepsDecide`,
  `TurnsDecide`). `MIN_EVENTS` has to be positive (it is 4, `advance.py:22`):
  with 0, a video that is still both ways would be a scroll both ways.
* `MeasuresProofs!IssuesAreSound`, `HealthyIsQuiet`, `MisreadIsIgnored`,
  `LossIsReported`: the four claims about the comparison of bar numbers, for songs
  of any length and any tolerance. `ReadRight` relates the numbers to the song they
  are read from; the median of what they grow by per system is the bars per
  system when the song is healthy; `Scan` says that the two systems whose
  numbers are compared are known and in order, and that the issues so far are about
  systems before the second; `Told` and `Skipped` say where the comparison of a
  loss, or of a misreading, stands and what has been reported of it so far.

Some of these are facts about sums over a sequence, about the concatenation of
sheets or about the least member of a set. Induction principles take an operator
as a parameter and cannot be used here, so each such lemma is proved by hand from a
counterexample of least length: the set of lengths at which it fails has a
least member, and the step from the one before contradicts it.

Only model-checked: every liveness property (`RunsEnd`, `Settles`, `NoOrphan`,
`StartupEnds`, `NothingPilesUp`, `KeptIsShown`, `CatchesUp`, `ProgressEnds`,
`ButtonReturns`, `AnalysisEnds`), since fairness and ENABLED are out of the
prover's reach. Every invariant and every property of steps that a run checks is
proved.

## 5. What was met while modelling

One disagreement between the code and what it says of itself is a run:

* **A re-run of a link fails** (`Jobs_rerun`). A successful render removes the
  working directory with the video and leaves its path in the row
  (`runner.py:289`); `analyze` downloads only when the row has no path.

Others, with the configuration that shows them where there is one:

* *Rows are erased where few frames cover a band* (`Scroll_few`). `_slice_band`
  pads with white and the maximum keeps the padding (`compose.py:202-207`); the
  flag of the band does not reach the report.
* *Frames of a cancelled decoding pass for the whole video* (`Jobs_coverage`;
  `sampling.py:62`), and an ffmpeg that outlives its cancelled run goes on
  writing into the same directory.
* *PDFs staged by a cancelled or failed render are published with the next one*
  (`Jobs_stale`; `pipeline.py:140`).
* *After a stop and restart a job keeps a status that says it waits or runs*
  (`Jobs_stranded`; `db.py:60`).
* *A cancel between the last line of yt-dlp and the submission of the analysis is
  dropped*: the submission clears the flag (`runner.py:150`, `165`). This is why
  `CancelObeyed` speaks of local jobs; `CancelObeyedByLinks` is the claim for links.
* *An unfinished `.part` file of an earlier download can be taken for the video*,
  since the first of the sorted `source.*` files is returned (`ytdlp.py:262`).
* *Deleting a job leaves its frames* (`main.py:180`; `config.py:16-17` says that
  what is intermediate is deleted when the job finishes).
* *Two rewrites of `profiles.json` that overlap lose one of them*, and a process
  that dies inside a write leaves a file that makes every later load raise
  (`profiles.py:50`, `61`). `LibraryKept` says what remains: what is
  lost is at most what the overlapping rewrites themselves saved, and only a death
  between the truncation and the write leaves the empty file.
* *The folder may be asked for a second time* (`DataDir_folder`;
  `PreferencesPanel.tsx:31`, `App.tsx:188-191`; `config.py:31` says "asked for
  once"). The answer to a change of the panel that was handled before the render
  replaces the page's copy, the folder chosen meanwhile included.
* *A worker that loads the preferences while a handler writes them gets the
  defaults* (`WorkersKnow` of Preferences; `config.py:102`), and a death inside a
  write makes every setting its default, among them the updates that the user
  turned off (`config.py:34`: "The user has to be able to turn it off").
* *Overlapping updates share `yt-dlp.part`* (`Updater_overlap`; `ytdlp.py:286`):
  one empties what the other has verified and installs.
* *A handshake between the page's question and its listener is missed*
  (`Startup_late`; `backend.ts:61`), and `backend-failed` is emitted before any
  page can listen (`main.rs:190`).
* *The answer to a click acts on whatever is open* (`Screen_late`;
  `HistoryPanel.tsx:79`, `ProgressScreen.tsx:31`). The answer to a Re-run or to a Cancel that arrives after
  another job was opened closes it or opens its own over it; with three clicks
  the review screen of one job submits its region for another, because it has no
  key. The optimistic "rendering" of a Generate may be put on another job's row
  in the same way. Likewise a poll of the job that was left, delivered before the
  effects of the change, puts its row under the other's id. `OwnRegion` is stated
  for what remains (`crossed`).
* *A poll answered between the optimistic change and its effects* puts the older
  row over it (`App.tsx:61`, `193`): the review is back, or was never unmounted, with
  its button disabled. `NoStaleOffer` begins after those effects; `ButtonReturns`
  covers the case: the next poll, which the effect asks for at once, takes the
  screen away. If the job is deleted by then, or what is open has been analysed once
  more (a Re-run from the history, a job opened over it), the review stays and its
  button with it.
* *The page polls settled jobs as well*: the effect that polls depends on the
  row, every answer sets a new one, and the effect polls at once.
* *The screen of a job that was deleted waits for ever*: its polls are refused and
  the refusal is swallowed (`App.tsx:62`); `ProgressEnds` excludes it.
* *A progress screen that is given another job keeps the log of the first*, and is
  still given messages of the first that arrive after the render of the other and
  before its effects close the socket (`useProgress.ts:16-30`); `OwnMessages` is
  stated for the effect and not for the screen. And the page of a sidecar that dies later waits for ever,
  since nobody listens to `backend-exited` (`main.rs:161`).
* *A cancelled run writes "cancelled" over the "queued" of a newer submission*
  (`runner.py:115`); the newer task is still queued and writes the next status.
* *One misread pair of frames may turn a scroll by steps into a paged video*
  (`Analysis_axis`): the sign of an event has one vote whatever its size, as
  `advance.py:25-28` says, but the axis is chosen by the sum of the sizes
  (`advance.py:80`). `ModeFound` is stated for misreadings along the axis.
* *A cutaway shorter than a song may divide one* (`Songs_cutaway`): when what
  follows it is too short for a song, the two are merged into a segment that is
  long enough to stay and no longer resembles the song before it; whether equal
  neighbours remain is not looked at again after short segments were merged
  (`songs.py:121-137`; the module's docstring, 5-7, says that false positives from
  camera cuts are filtered). `CutawayIgnored` holds for cutaways of one cluster.
* *In a still capture any cutaway may divide a song* (`StillCutsFiltered` in place of
  the invariant of `Songs_cutaway`): `merge_thresh` is 1.5 times the median distance
  of consecutive frames, which is 0 when most of them are identical, and
  `songs.py:110` asks for strictly less, so that equal neighbours stay apart. Two
  frames of something else in the middle of a hundred identical ones make two
  songs. Identical pairs are what `tests/test_songs_no_false_boundaries.py:22-28`
  describes; it has no cutaway. `CutawayIgnored` says that it is never more than two.
* *A gap in the bar numbers may be taken for a misreading* (`Measures_gap`): 1, 2,
  10, 11 with every number read right is accepted in silence when the number after
  the gap is within the tolerance of two systems (`verify.py:223-226`).
* *The check for jumps beyond the window cannot fire*: every displacement in the
  offsets is smaller than the region (`compose.py:126`, `130`, `verify.py:283`). A
  larger one is unresolved, which is reported, or an arbitrary value in range,
  which is not; `ScoreOrReport` is limited to motions within the region.
* *A band taller than the paper* makes numpy raise and fails the render of all
  songs (`layout.py:301`).

## 6. Not modelled, and why

* The stored overrides of region and songs: the page saves them before each
  render and sends the same with the render (`ReviewScreen.tsx:58-65`), so nothing
  it does reads them back; a region and songs that come with the request are
  those of `Screen`.
* What pixels decide: whether a row is paper, where lines, digits and the cursor
  are, what a phase correlation returns. These are inputs of the models.
* The score of the verification report, the header and the print of the sheets.
* `download` without yt-dlp or ffmpeg, probing, the classification of errors: they
  change no state.
* SQLite's locking, the HTTP layer, the WebSocket's own frames.
* The command line (the same engine, run once), the updater plugin of Tauri, the
  packaging scripts, the landing page and the tests.
* Horizontal scrolls beyond composition: their canvas is one long band.

## 7. Plan

Done, in this order: Jobs, Profiles, Updater, Startup, Songs, Measures, Layout
with Pages and Scroll; then JobLife and its implementation by Jobs, Progress,
Screen over JobLife, Detection and Analysis, Preferences and DataDir; the proofs
of section 4. What is left:

1. `Screen` over a server that stops, composed with `Startup`.
