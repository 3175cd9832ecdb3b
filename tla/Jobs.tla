-------------------------------- MODULE Jobs --------------------------------
(***************************************************************************)
(* The job runner of the TabXtract sidecar: the HTTP handlers of           *)
(* server/main.py that create, run, cancel and delete jobs, the two thread *)
(* pools of server/runner.py, the row each job has in the SQLite table of  *)
(* server/db.py, and the files a run leaves on disk.                       *)
(*                                                                         *)
(* Handlers run one at a time on the event loop; between two operations on *)
(* the database, on the set of cancelled ids, on a pool or on the disk,    *)
(* any worker thread may run.  Every such operation is one step here.      *)
(***************************************************************************)
EXTENDS Naturals, Sequences

CONSTANTS FileJobs,     \* ids of jobs created from a local video file
          UrlJobs,      \* ids of jobs created from a link
          Songs,        \* titles a render can be asked for (one PDF each)
          MaxRequests,  \* bound on the requests the user makes
          MaxStops      \* bound on the times the sidecar process ends

ASSUME JobsAssumption == /\ FileJobs \cap UrlJobs = {}
                         /\ MaxRequests \in Nat
                         /\ MaxStops \in Nat

Jobs == FileJobs \cup UrlJobs

VARIABLES
  row,        \* the jobs table: one record per job id
  files,      \* the source videos on disk, complete or partial
  frames,     \* how much of the video the extracted PNGs cover
  orphans,    \* jobs whose ffmpeg was left running by a cancelled run
  staged,     \* PDFs in <workdir>/output, not yet moved to the user's folder
  outs,       \* folders published so far; the index is the " (n)" suffix
  cancelled,  \* runner._cancelled
  queue,      \* the tasks waiting in each pool
  pc,         \* what each thread is about to do
  cur,        \* the task each thread runs, or is about to submit
  mem,        \* the local variables of each thread
  up,         \* the sidecar process: "up", "stopping" or "down"
  requests,   \* requests made so far
  stops,      \* times the process ended so far
  asked,      \* history: jobs whose last request was to cancel or delete
  lost        \* history: jobs whose pending work was dropped by a stop

disk    == <<files, frames, orphans, staged, outs>>
threads == <<pc, cur, mem>>
process == <<up, requests, stops>>
vars    == <<row, disk, cancelled, queue, threads, process, asked, lost>>

-----------------------------------------------------------------------------
(* Threads, tasks and rows *)

\* Mutant of ProcessingWorkers: as many workers as the download pool has.
TwoWorkers == 2

ProcessingWorkers == 1
DownloadWorkers   == 2

Loop        == <<"loop", 1>>
ProcWorkers == {<<"job", i>> : i \in 1..ProcessingWorkers}
DownWorkers == {<<"dl", i>> : i \in 1..DownloadWorkers}
Workers     == ProcWorkers \cup DownWorkers
Threads     == {Loop} \cup Workers

Formats == {"asked", "default"}
Task    == [op : {"download", "analyze", "render"}, job : Jobs,
            songs : SUBSET Songs, fmt : Formats]

DownloadTask(j, f) == [op |-> "download", job |-> j, songs |-> {}, fmt |-> f]

\* Mutant of AnalyzeTask: what follows a download is another download.
FetchTask(j) == DownloadTask(j, "default")

AnalyzeTask(j)     == [op |-> "analyze", job |-> j, songs |-> {}, fmt |-> "default"]
RenderTask(j, S)   == [op |-> "render", job |-> j, songs |-> S, fmt |-> "default"]

NoTask == [op |-> "none"]

\* Where a thread can be between two steps.
Places == {"idle", "remove", "clear", "mark", "submit", "fail",
           "fetch", "fetched", "landed",
           "read", "start", "sample", "decode", "decoded", "detect", "save",
           "load", "begin", "open", "compose", "publish", "move", "record", "clean"}

PoolOf(task) == IF task.op = "download" THEN "dl" ELSE "job"

\* A source video: the user's own file, or what yt-dlp writes, which is named
\* source.<ext>.part until it is complete.
Original == [fmt |-> "original", part |-> FALSE]
Part(f)  == [fmt |-> f, part |-> TRUE]
Whole(f) == [fmt |-> f, part |-> FALSE]
File     == {Original} \cup {Part(f) : f \in Formats} \cup {Whole(f) : f \in Formats}

Coverage == {"none", "partial", "whole"}
Errors   == {"none", "source", "frames", "analysis", "engine", "download", "shutdown"}
Active   == {"ready", "downloading", "queued", "analyzing", "queued_render", "rendering"}
Statuses == Active \cup {"analyzed", "rendered", "failed", "cancelled", "absent", "deleted"}

\* path is the local_path column ({} is NULL), out and render are the
\* output_dir and render columns, analysis what the analysed frames cover.
Row == [status : Statuses, error : Errors, path : SUBSET File,
        analysis : Coverage, out : Nat, render : SUBSET Songs]

NoRow == [status |-> "absent", error |-> "none", path |-> {},
          analysis |-> "none", out |-> 0, render |-> {}]

Exists(j) == row[j].status \notin {"absent", "deleted"}

Go(t, p)     == pc' = [pc EXCEPT ![t] = p]
Raise(t, e)  == /\ Go(t, "fail")
                /\ mem' = [mem EXCEPT ![t].outcome = e]

\* Mutant of Update: the write brings a deleted row back, as an upsert would.
Upsert(j, r) == row' = [row EXCEPT ![j] = r]

\* UPDATE jobs SET ... WHERE id = j: without a row it changes nothing.
Update(j, r) == row' = IF Exists(j) THEN [row EXCEPT ![j] = r] ELSE row

\* DELETE FROM jobs WHERE id = j.
DeleteRow(j) == row' = IF Exists(j) THEN [row EXCEPT ![j].status = "deleted"] ELSE row

\* A published folder: whose it is, and the PDFs in it.
Folder == [job : Jobs, pdfs : SUBSET Songs]

\* The songs a render still has to compose, the coverage of the frames an
\* analysis listed, the folder chosen, the video found, and what was raised.
Memory == [todo : SUBSET Songs, cover : Coverage, target : Nat,
           found : SUBSET File, outcome : Errors \cup {"cancelled"}]

NoMem == [todo |-> {}, cover |-> "none", target |-> 0, found |-> {}, outcome |-> "none"]

Init ==
  /\ row       = [j \in Jobs |-> NoRow]
  /\ files     = [j \in Jobs |-> IF j \in FileJobs THEN {Original} ELSE {}]
  /\ frames    = [j \in Jobs |-> "none"]
  /\ orphans   = {}
  /\ staged    = [j \in Jobs |-> {}]
  /\ outs      = <<>>
  /\ cancelled = {}
  /\ queue     = [p \in {"job", "dl"} |-> <<>>]
  /\ pc        = [t \in Threads |-> "idle"]
  /\ cur       = [t \in Threads |-> NoTask]
  /\ mem       = [t \in Threads |-> NoMem]
  /\ up        = "up"
  /\ requests  = 0
  /\ stops     = 0
  /\ asked     = {}
  /\ lost      = {}

-----------------------------------------------------------------------------
(* The user's requests, as the event loop starts to handle them *)

\* The loop is free and the process is taking requests.
Request == /\ pc[Loop] = "idle" /\ up = "up"
           /\ requests < MaxRequests
           /\ requests' = requests + 1
           /\ UNCHANGED <<up, stops>>

\* Thread t goes on to submit the task: clear the flag, mark the row, queue.
StartSubmit(t, task) == /\ Go(t, "clear")
                        /\ cur' = [cur EXCEPT ![t] = task]
                        /\ UNCHANGED mem

CreateLocalJob(j) ==
  /\ Request
  /\ j \in FileJobs /\ row[j].status = "absent"
  /\ files[j] # {}
  /\ row' = [row EXCEPT ![j].status = "ready", ![j].path = {Original}]
  /\ StartSubmit(Loop, AnalyzeTask(j))
  /\ asked' = asked \ {j}
  /\ UNCHANGED <<disk, cancelled, queue, lost>>

YoutubeJob(j, f) ==
  /\ Request
  /\ j \in UrlJobs /\ row[j].status = "absent"
  /\ row' = [row EXCEPT ![j].status = "downloading"]
  /\ StartSubmit(Loop, DownloadTask(j, f))
  /\ asked' = asked \ {j}
  /\ UNCHANGED <<disk, cancelled, queue, lost>>

NeedsDownload(j) == j \in UrlJobs /\ row[j].path = {}

Analyze(j) ==
  /\ Request
  /\ Exists(j)
  /\ StartSubmit(Loop, IF NeedsDownload(j) THEN DownloadTask(j, "default")
                                           ELSE AnalyzeTask(j))
  /\ asked' = asked \ {j}
  /\ UNCHANGED <<row, disk, cancelled, queue, lost>>

Renderable == {"analyzed", "rendered", "failed", "cancelled"}

Render(j, S) ==
  /\ Request
  /\ row[j].status \in Renderable
  /\ StartSubmit(Loop, RenderTask(j, S))
  /\ asked' = asked \ {j}
  /\ UNCHANGED <<row, disk, cancelled, queue, lost>>

\* Neither cancel nor delete looks at the job first: any known id will do.
Cancel(j) ==
  /\ Request
  /\ row[j].status # "absent"
  /\ cancelled' = cancelled \cup {j}
  /\ asked' = asked \cup {j}
  /\ UNCHANGED <<row, disk, queue, threads, lost>>

Delete(j) ==
  /\ Request
  /\ row[j].status # "absent"
  /\ cancelled' = cancelled \cup {j}
  /\ asked' = asked \cup {j}
  /\ Go(Loop, "remove")
  /\ cur' = [cur EXCEPT ![Loop] = AnalyzeTask(j)]  \* only its job matters
  /\ UNCHANGED <<row, disk, queue, mem, lost>>

\* The user moves the video of a local job somewhere else.
MoveVideo(j) ==
  /\ requests < MaxRequests /\ requests' = requests + 1
  /\ j \in FileJobs /\ row[j].status # "absent" /\ files[j] # {}
  /\ files' = [files EXCEPT ![j] = {}]
  /\ UNCHANGED <<row, frames, orphans, staged, outs, cancelled, queue, threads,
                 up, stops, asked, lost>>

-----------------------------------------------------------------------------
(* The steps of a submission, on the loop or on the download worker that    *)
(* queues the analysis of what it fetched                                    *)

\* The thread is done with its task.
Finish(t) == /\ Go(t, "idle")
             /\ cur' = [cur EXCEPT ![t] = NoTask]
             /\ mem' = [mem EXCEPT ![t] = NoMem]

RemoveRow ==
  /\ pc[Loop] = "remove"
  /\ DeleteRow(cur[Loop].job)
  /\ Finish(Loop)
  /\ UNCHANGED <<disk, cancelled, queue, process, asked, lost>>

\* Mutant of Cleared: a new submission forgets every cancellation.
ClearedAll(j) == {}

\* runner._clear_cancel
Cleared(j) == cancelled \ {j}

ClearCancel(t) ==
  /\ pc[t] = "clear"
  /\ cancelled' = Cleared(cur[t].job)
  /\ Go(t, "mark")
  /\ UNCHANGED <<row, disk, queue, cur, mem, process, asked, lost>>

\* Mutant of SubmittedStatus: one status for every kind of work, unknown to
\* the rest of the code.
PendingStatus(op) == "pending"

SubmittedStatus(op) == CASE op = "download" -> "downloading"
                         [] op = "analyze"  -> "queued"
                         [] op = "render"   -> "queued_render"

MarkSubmitted(t) ==
  /\ pc[t] = "mark"
  /\ LET j == cur[t].job IN
     Update(j, [row[j] EXCEPT !.status = SubmittedStatus(cur[t].op), !.error = "none"])
  /\ Go(t, "submit")
  /\ UNCHANGED <<disk, cancelled, queue, cur, mem, process, asked, lost>>

\* A pool that has been shut down refuses new tasks, which only a worker can
\* meet: the loop takes no requests by then.
Submit(t) ==
  /\ pc[t] = "submit"
  /\ \/ /\ up = "up"
        /\ queue' = [queue EXCEPT ![PoolOf(cur[t])] = Append(@, cur[t])]
        /\ lost' = lost \ {cur[t].job}
        /\ Finish(t)
     \/ /\ up # "up"
        /\ Raise(t, "shutdown")
        /\ UNCHANGED <<queue, cur, lost>>
  /\ UNCHANGED <<row, disk, cancelled, process, asked>>

-----------------------------------------------------------------------------
(* The worker threads *)

FirstStep(op) == CASE op = "download" -> "fetch"
                   [] op = "analyze"  -> "read"
                   [] op = "render"   -> "load"

Take(w) ==
  /\ pc[w] = "idle"
  /\ queue[w[1]] # <<>>
  /\ LET task == Head(queue[w[1]]) IN
     /\ cur' = [cur EXCEPT ![w] = task]
     /\ Go(w, FirstStep(task.op))
  /\ queue' = [queue EXCEPT ![w[1]] = Tail(@)]
  /\ UNCHANGED <<row, disk, cancelled, mem, process, asked, lost>>

\* The progress callback: it stops the run when its job is cancelled.
Emit(w, next) == IF cur[w].job \in cancelled
                 THEN Raise(w, "cancelled")
                 ELSE Go(w, next) /\ UNCHANGED mem

\* What the steps of a run leave alone, those that end it and the others.
Step(w, p) == /\ pc[w] = p
              /\ UNCHANGED <<cancelled, queue, process, asked, lost>>
Running(w, p) == Step(w, p) /\ UNCHANGED cur

\* Mutant of Failed: a cancelled run writes nothing.
FailedQuietly(j, e) == IF e = "cancelled" THEN row[j]
                       ELSE [row[j] EXCEPT !.status = "failed", !.error = e]

\* runner._fail: what the run raised becomes the state of the job.
Failed(j, e) == IF e = "cancelled"
                THEN [row[j] EXCEPT !.status = "cancelled", !.error = "none"]
                ELSE [row[j] EXCEPT !.status = "failed", !.error = e]

Fail(w) == /\ Step(w, "fail")
           /\ Update(cur[w].job, Failed(cur[w].job, mem[w].outcome))
           /\ Finish(w)
           /\ UNCHANGED disk

(* Download: every line yt-dlp prints is a chance to see the cancellation. *)

FetchLine(w) ==
  LET j == cur[w].job  f == cur[w].fmt IN
  /\ Running(w, "fetch")
  /\ IF j \in cancelled
     THEN /\ files' = [files EXCEPT ![j] = {}]
          /\ Raise(w, "cancelled")
     ELSE /\ files' = [files EXCEPT ![j] = IF Whole(f) \in @ THEN @ ELSE @ \cup {Part(f)}]
          /\ UNCHANGED <<pc, mem>>
  /\ UNCHANGED <<row, frames, orphans, staged, outs>>

\* yt-dlp exits, after its last line.
FetchEnd(w) ==
  /\ Running(w, "fetch")
  /\ Go(w, "fetched")
  /\ UNCHANGED <<row, disk, mem>>

\* The download returns the first of the sorted source.* files; which one that
\* is depends on the extensions.
FetchDone(w) ==
  LET j == cur[w].job  f == cur[w].fmt IN
  /\ Running(w, "fetched")
  /\ \/ /\ {Part(f), Whole(f)} \cap files[j] # {}
        /\ files' = [files EXCEPT ![j] = (@ \ {Part(f)}) \cup {Whole(f)}]
        /\ \E first \in files'[j] : mem' = [mem EXCEPT ![w].found = {first}]
        /\ Go(w, "landed")
     \/ /\ Raise(w, "download")
        /\ UNCHANGED files
  /\ UNCHANGED <<row, frames, orphans, staged, outs>>

Landed(w) ==
  LET j == cur[w].job IN
  /\ Step(w, "landed")
  /\ Update(j, [row[j] EXCEPT !.status = "ready", !.path = mem[w].found])
  /\ StartSubmit(w, AnalyzeTask(j))
  /\ UNCHANGED disk

(* Analysis *)

ReadJob(w) ==
  LET j == cur[w].job IN
  /\ Step(w, "read")
  /\ \/ /\ ~Exists(j)
        /\ Finish(w)
     \/ /\ Exists(j)
        /\ \/ row[j].path \cap files[j] = {} /\ Raise(w, "source")
           \/ /\ row[j].path \cap files[j] # {}
              /\ mem' = [mem EXCEPT ![w].found = row[j].path]
              /\ Go(w, "start")
        /\ UNCHANGED cur
  /\ UNCHANGED <<row, disk>>

MarkAnalyzing(w) ==
  LET j == cur[w].job IN
  /\ Running(w, "start")
  /\ Update(j, [row[j] EXCEPT !.status = "analyzing"])
  /\ Go(w, "sample")
  /\ UNCHANGED <<disk, mem>>

\* Frames that are already there are taken as they are.
Sample(w) ==
  LET j == cur[w].job IN
  /\ Running(w, "sample")
  /\ IF j \in cancelled THEN Raise(w, "cancelled")
     ELSE IF frames[j] # "none"
     THEN mem' = [mem EXCEPT ![w].cover = frames[j]] /\ Go(w, "detect")
     ELSE IF mem[w].found \subseteq files[j] THEN Go(w, "decode") /\ UNCHANGED mem
     ELSE Raise(w, "engine")
  /\ UNCHANGED <<row, disk>>

\* ffmpeg writes its first frames, reports progress, ends, or fails.
DecodeWrite(w) ==
  /\ Running(w, "decode")
  /\ frames[cur[w].job] = "none"
  /\ frames' = [frames EXCEPT ![cur[w].job] = "partial"]
  /\ UNCHANGED <<row, files, orphans, staged, outs, pc, mem>>

\* Raising out of the progress loop does not kill ffmpeg.
DecodeCancelled(w) ==
  /\ Running(w, "decode")
  /\ cur[w].job \in cancelled
  /\ Raise(w, "cancelled")
  /\ orphans' = orphans \cup {cur[w].job}
  /\ UNCHANGED <<row, files, frames, staged, outs>>

DecodeEnd(w) ==
  LET j == cur[w].job IN
  /\ Running(w, "decode")
  /\ \/ /\ frames' = [frames EXCEPT ![j] = IF \E f \in mem[w].found : f.part
                                           THEN "partial" ELSE "whole"]
        /\ Emit(w, "decoded")
     \/ Raise(w, "engine") /\ UNCHANGED frames
  /\ UNCHANGED <<row, files, orphans, staged, outs>>

ListFrames(w) ==
  /\ Running(w, "decoded")
  /\ mem' = [mem EXCEPT ![w].cover = frames[cur[w].job]]
  /\ Go(w, "detect")
  /\ UNCHANGED <<row, disk>>

\* Region, advance mode and songs, with a progress report before each.
Detect(w) ==
  /\ Running(w, "detect")
  /\ Emit(w, "save") \/ Raise(w, "engine")
  /\ UNCHANGED <<row, disk>>

SaveAnalysis(w) ==
  LET j == cur[w].job IN
  /\ Step(w, "save")
  /\ Update(j, [row[j] EXCEPT !.status = "analyzed", !.analysis = mem[w].cover])
  /\ Finish(w)
  /\ UNCHANGED disk

(* Render *)

LoadJob(w) ==
  LET j == cur[w].job IN
  /\ Running(w, "load")
  /\ IF Exists(j) /\ row[j].analysis # "none"
     THEN Go(w, "begin") /\ UNCHANGED mem
     ELSE Raise(w, "analysis")
  /\ UNCHANGED <<row, disk>>

MarkRendering(w) ==
  LET j == cur[w].job IN
  /\ Running(w, "begin")
  /\ Update(j, [row[j] EXCEPT !.status = "rendering"])
  /\ Go(w, "open")
  /\ UNCHANGED <<disk, mem>>

OpenFrames(w) ==
  /\ Running(w, "open")
  /\ IF frames[cur[w].job] = "none"
     THEN Raise(w, "frames")
     ELSE Go(w, "compose") /\ mem' = [mem EXCEPT ![w].todo = cur[w].songs]
  /\ UNCHANGED <<row, disk>>

\* One PDF, after the progress report that announces it.
ComposeSong(w) ==
  LET j == cur[w].job IN
  /\ Running(w, "compose")
  /\ \/ /\ j \in cancelled
        /\ Raise(w, "cancelled")
        /\ UNCHANGED staged
     \/ /\ j \notin cancelled /\ frames[j] # "none"
        /\ \E s \in mem[w].todo :
             /\ staged' = [staged EXCEPT ![j] = @ \cup {s}]
             /\ mem' = [mem EXCEPT ![w].todo = @ \ {s}]
        /\ UNCHANGED pc
     \/ /\ Raise(w, "engine")
        /\ UNCHANGED staged
  /\ UNCHANGED <<row, files, frames, orphans, outs>>

ComposeDone(w) ==
  /\ Running(w, "compose")
  /\ mem[w].todo = {}
  /\ Emit(w, "publish")
  /\ UNCHANGED <<row, disk>>

\* Mutant of FreeTarget: no suffix is tried, every folder has the same name.
SameTarget == 1

\* Mutant of FreeTarget: the last name that was tried and found taken.
TakenTarget == Len(outs)

\* _publish_output, in its two steps: the first free name, then the move.
FreeTarget == Len(outs) + 1

ChooseTarget(w) ==
  /\ Running(w, "publish")
  /\ mem' = [mem EXCEPT ![w].target = FreeTarget]
  /\ Go(w, "move")
  /\ UNCHANGED <<row, disk>>

\* The folders once the PDFs S are in the chosen one: onto a folder that exists,
\* shutil.move moves into it.
Filled(w, S) == LET k == mem[w].target IN
  IF k \in DOMAIN outs THEN [outs EXCEPT ![k].pdfs = @ \cup S]
                       ELSE Append(outs, [job |-> cur[w].job, pdfs |-> S])

\* Across file systems the move is a copy and then a removal, which an error or
\* the end of the process may cut short.
HalfMoved(w) == LET j == cur[w].job IN
  \/ UNCHANGED <<staged, outs>>
  \/ /\ \E S \in SUBSET staged[j] : outs' = Filled(w, S)
     /\ UNCHANGED staged
  \/ /\ outs' = Filled(w, staged[j])
     /\ \E S \in SUBSET staged[j] : staged' = [staged EXCEPT ![j] = S]

MoveOutput(w) ==
  LET j == cur[w].job IN
  /\ Running(w, "move")
  /\ \/ /\ outs' = Filled(w, staged[j])
        /\ staged' = [staged EXCEPT ![j] = {}]
        /\ Go(w, "record") /\ UNCHANGED mem
     \/ HalfMoved(w) /\ Raise(w, "engine")
  /\ UNCHANGED <<row, files, frames, orphans>>

RecordRender(w) ==
  LET j == cur[w].job IN
  /\ Running(w, "record")
  /\ Update(j, [row[j] EXCEPT !.status = "rendered", !.out = mem[w].target,
                              !.render = cur[w].songs])
  /\ Go(w, "clean")
  /\ UNCHANGED <<disk, mem>>

\* rmtree(workdir), errors ignored: the user's own video is not in it, and what an
\* orphan writes meanwhile may stay, of which nothing comes but an incomplete set.
CleanWorkdir(w) ==
  LET j == cur[w].job IN
  /\ Step(w, "clean")
  /\ files' = [files EXCEPT ![j] = @ \cap {Original}]
  /\ \E left \in IF j \in orphans THEN {"none", "partial"} ELSE {"none"} :
       frames' = [frames EXCEPT ![j] = left]
  /\ staged' = [staged EXCEPT ![j] = {}]
  /\ orphans' = orphans \ {j}
  /\ Finish(w)
  /\ UNCHANGED <<row, outs>>

-----------------------------------------------------------------------------
(* What happens around the threads *)

\* An ffmpeg that outlived its run keeps writing frames, to the end of what it
\* was given.
OrphanWrites(j) ==
  /\ j \in orphans
  /\ frames' = [frames EXCEPT ![j] = IF @ # "none" /\ (\E f \in files[j] : ~f.part)
                                    THEN "whole" ELSE "partial"]
  /\ frames[j] # "whole"
  /\ UNCHANGED <<row, files, orphans, staged, outs, cancelled, queue, threads,
                 process, asked, lost>>

Queued(j) == \E p \in DOMAIN queue : \E i \in DOMAIN queue[p] : queue[p][i].job = j

\* runner.shutdown(): queued tasks are dropped, running ones go on.
Shutdown ==
  /\ up = "up" /\ stops < MaxStops
  /\ pc[Loop] = "idle"
  /\ up' = "stopping"
  /\ queue' = [p \in DOMAIN queue |-> <<>>]
  /\ lost' = lost \cup {j \in Jobs : Queued(j)}
  /\ UNCHANGED <<row, disk, cancelled, threads, requests, stops, asked>>

\* The process ends: the threads, the queues and the set of cancelled ids go
\* with it, the table and the files stay.
ProcessEnds ==
  /\ up' = "down"
  /\ stops' = stops + 1
  /\ lost' = lost \cup {j \in Jobs : row[j].status \in Active}
  /\ orphans' = orphans \cup {cur[w].job : w \in {x \in ProcWorkers : pc[x] = "decode"}}
  /\ queue' = [p \in DOMAIN queue |-> <<>>]
  /\ cancelled' = {}
  /\ pc'  = [t \in Threads |-> "idle"]
  /\ cur' = [t \in Threads |-> NoTask]
  /\ mem' = [t \in Threads |-> NoMem]
  /\ asked' = {}
  /\ IF \E w \in ProcWorkers : pc[w] = "move"
     THEN \E w \in ProcWorkers : pc[w] = "move" /\ HalfMoved(w)
     ELSE UNCHANGED <<staged, outs>>
  /\ UNCHANGED <<row, files, frames, requests>>

\* Killed by the window that owns it, or by its own watchdog, at any moment.
Kill == up # "down" /\ stops < MaxStops /\ ProcessEnds

\* After a shutdown, once the worker threads are done.
Exit == up = "stopping" /\ (\A t \in Threads : pc[t] = "idle") /\ ProcessEnds

\* db.init() creates the table if it is missing and touches no row.
Restart ==
  /\ up = "down"
  /\ up' = "up"
  /\ UNCHANGED <<row, disk, cancelled, queue, threads, requests, stops, asked, lost>>

-----------------------------------------------------------------------------
Requests == \E j \in Jobs :
  \/ CreateLocalJob(j) \/ (\E f \in Formats : YoutubeJob(j, f))
  \/ Analyze(j) \/ (\E S \in SUBSET Songs \ {{}} : Render(j, S))
  \/ Cancel(j) \/ Delete(j) \/ MoveVideo(j)

Submission(t) == ClearCancel(t) \/ MarkSubmitted(t) \/ Submit(t)

Download(w) == FetchLine(w) \/ FetchEnd(w) \/ FetchDone(w) \/ Landed(w)

RunAnalyze(w) == \/ ReadJob(w) \/ MarkAnalyzing(w) \/ Sample(w)
                 \/ DecodeWrite(w) \/ DecodeCancelled(w) \/ DecodeEnd(w)
                 \/ ListFrames(w) \/ Detect(w) \/ SaveAnalysis(w)

RunRender(w) == \/ LoadJob(w) \/ MarkRendering(w) \/ OpenFrames(w)
                \/ ComposeSong(w) \/ ComposeDone(w)
                \/ ChooseTarget(w) \/ MoveOutput(w) \/ RecordRender(w)
                \/ CleanWorkdir(w)

Work(w) == Download(w) \/ RunAnalyze(w) \/ RunRender(w) \/ Fail(w)

Next == \/ Requests
        \/ RemoveRow
        \/ \E t \in Threads : Submission(t)
        \/ \E w \in Workers : Take(w) \/ Work(w)
        \/ \E j \in Jobs : OrphanWrites(j)
        \/ Shutdown \/ Kill \/ Exit \/ Restart

Spec == Init /\ [][Next]_vars

\* A handler that has started runs on; a thread of a pool takes the next task
\* and works through it, yt-dlp and ffmpeg ending by themselves; the user
\* starts the application again.  Requests, kills and what an orphan ffmpeg
\* does are not owed.
Fairness == /\ WF_vars(RemoveRow)
            /\ \A t \in Threads : WF_vars(Submission(t))
            /\ \A w \in Workers : WF_vars(Take(w)) /\ WF_vars(Work(w))
            /\ WF_vars(Exit) /\ WF_vars(Restart)

FairSpec == Spec /\ Fairness

-----------------------------------------------------------------------------
(* What the runner promises *)

\* The variables hold what the code can put in them.
TypeOK ==
  /\ row \in [Jobs -> Row]
  /\ files \in [Jobs -> SUBSET File]
  /\ frames \in [Jobs -> Coverage]
  /\ orphans \subseteq Jobs
  /\ staged \in [Jobs -> SUBSET Songs]
  /\ outs \in Seq(Folder)
  /\ cancelled \subseteq Jobs
  /\ queue \in [{"job", "dl"} -> Seq(Task)]
  /\ pc \in [Threads -> Places]
  /\ cur \in [Threads -> Task \cup {NoTask}]
  /\ mem \in [Threads -> Memory]
  /\ up \in {"up", "stopping", "down"}
  /\ requests \in Nat /\ stops \in Nat
  /\ asked \subseteq Jobs /\ lost \subseteq Jobs

\* A thread that still has a status to write for job j.
Owes(t, j) == pc[t] \notin {"idle", "clean", "remove"} /\ cur[t].job = j

\* A status that makes the user wait is backed by work: a task in a pool or a
\* thread that will write the next status.  However the writes of a handler
\* and of several runs of one job interleave, none of them is the last one and
\* says "queued".  Only a stop of the process drops work (lost).
StatusBacked == \A j \in Jobs :
  row[j].status \in Active => j \in lost \/ Queued(j) \/ \E t \in Threads : Owes(t, j)

\* A deleted job never comes back, whatever its runs still write
\* (db.update_job is an UPDATE, never an INSERT).
NoResurrection == [][\A j \in Jobs : row[j].status = "deleted"
                                     => row'[j].status = "deleted"]_vars

\* The frames a run reads are not removed under it by another run of the same
\* job that ends and clears the working directory, nor by a delete.
FramesStay == \A w \in Workers :
  pc[w] \in {"decoded", "detect", "compose", "publish", "move"}
    => frames[cur[w].job] # "none"

\* The folders already handed to the user are never written to again.
PublishedIntact == [][\A k \in DOMAIN outs : k \in DOMAIN outs' /\ outs'[k] = outs[k]]_vars

\* A job shown as rendered has its folder, made for that job, with every PDF
\* of the render its row describes.
RenderedIsPublished == \A j \in Jobs : row[j].status = "rendered" =>
  /\ row[j].out \in DOMAIN outs
  /\ outs[row[j].out].job = j
  /\ row[j].render \subseteq outs[row[j].out].pdfs

\* Run w reports progress and goes on.
PassesEmit(w) == /\ pc[w] \in {"sample", "detect", "compose"}
                 /\ pc'[w] \notin {"fail", "idle"}
                 /\ <<pc'[w], mem'[w]>> # <<pc[w], mem[w]>>

ObeysCancel(S) == \A w \in ProcWorkers :
  cur[w] # NoTask /\ cur[w].job \in asked \cap S => ~PassesEmit(w)

\* Once the user's last word on a local job is to cancel or delete it, no run
\* of the job, of whichever age, gets past its next progress report: nothing
\* but a new request clears the flag.
CancelObeyed == [][ObeysCancel(FileJobs)]_vars

\* What the runner is to its users: the statuses that make them wait are one
\* stage, and a job is busy from the handler of a request to the end of the
\* last run of it.
Engaged(t, j) == pc[t] \notin {"idle", "remove"} /\ cur[t].job = j
InHand(j)     == Queued(j) \/ \E t \in Threads : Engaged(t, j)
Stage(j)      == IF row[j].status \in Active THEN "waiting" ELSE row[j].status

Life == INSTANCE JobLife
          WITH Settled  <- Renderable,
               stage    <- [j \in Jobs |-> Stage(j)],
               busy     <- {j \in Jobs : InHand(j)},
               stranded <- lost

\* The runner implements JobLife: a job is changed only by a request or by work
\* in hand for it, work in hand leaves a stage that promises nothing, and a
\* deleted job stays deleted, however the runs of the job interleave.
ImplementsLife == Life!Spec

\* Work in hand for a job ends (the fairness that JobLife is used with).
RunsEnd == Life!RunsEnd

\* A job that waits or runs settles, unless a stop of the process drops its work.
Settles == \A j \in Jobs :
  row[j].status \in Active ~> row[j].status \notin Active \/ j \in lost
=============================================================================
