----------------------------- MODULE JobsProofs -----------------------------
(* Theorems about Jobs, for every set of jobs and songs and every bound. *)
EXTENDS Jobs, TLAPS

\* A thread that is not idle has a task.
Busy == \A t \in Threads : pc[t] # "idle" => cur[t] \in Task

TypeInv == TypeOK /\ Busy

-----------------------------------------------------------------------------
(* What the helpers of the model preserve *)

LEMMA UpdateType ==
  ASSUME TypeOK, NEW j \in Jobs, NEW r \in Row, Update(j, r)
  PROVE  row' \in [Jobs -> Row]
BY DEF TypeOK, Update

\* The rows the code writes are rows.
LEMMA RowsTyped ==
  ASSUME NEW r \in Row, NEW s \in Statuses
  PROVE  /\ [r EXCEPT !.status = s] \in Row
         /\ \A e \in Errors : [r EXCEPT !.status = s, !.error = e] \in Row
         /\ \A p \in SUBSET File : [r EXCEPT !.status = s, !.path = p] \in Row
         /\ \A c \in Coverage : [r EXCEPT !.status = s, !.analysis = c] \in Row
         /\ \A k \in Nat, S \in SUBSET Songs :
               [r EXCEPT !.status = s, !.out = k, !.render = S] \in Row
BY DEF Row

LEMMA StatusesAre == Active \subseteq Statuses
                     /\ {"analyzed", "rendered", "failed", "cancelled", "deleted"} \subseteq Statuses
BY DEF Statuses

LEMMA GoType ==
  ASSUME TypeOK, NEW t \in Threads, NEW p \in Places, Go(t, p)
  PROVE  pc' \in [Threads -> Places]
BY DEF TypeOK, Go

LEMMA RaiseType ==
  ASSUME TypeOK, NEW t \in Threads, NEW e \in Errors \cup {"cancelled"}, Raise(t, e)
  PROVE  pc' \in [Threads -> Places] /\ mem' \in [Threads -> Memory]
<1>1. mem \in [Threads -> Memory]
  BY DEF TypeOK
<1>2. [mem[t] EXCEPT !.outcome = e] \in Memory
  BY <1>1 DEF Memory
<1>3. mem' = [mem EXCEPT ![t] = [mem[t] EXCEPT !.outcome = e]]
  BY DEF Raise
<1>4. mem' \in [Threads -> Memory]
  BY <1>1, <1>2, <1>3
<1> QED
  BY <1>4, GoType DEF Raise, Places

LEMMA FinishType ==
  ASSUME TypeInv, NEW t \in Threads, Finish(t)
  PROVE  /\ pc' \in [Threads -> Places]
         /\ cur' \in [Threads -> Task \cup {NoTask}]
         /\ mem' \in [Threads -> Memory]
         /\ Busy'
<1>1. NoMem \in Memory
  BY DEF NoMem, Memory, Coverage, Errors
<1>2. pc' \in [Threads -> Places] /\ Busy'
  BY DEF TypeInv, TypeOK, Busy, Finish, Go, Places
<1>3. cur' \in [Threads -> Task \cup {NoTask}]
  BY DEF TypeInv, TypeOK, Finish
<1>4. mem' \in [Threads -> Memory]
  BY <1>1 DEF TypeInv, TypeOK, Finish
<1> QED
  BY <1>2, <1>3, <1>4

LEMMA TasksTyped ==
  ASSUME NEW j \in Jobs
  PROVE  /\ AnalyzeTask(j) \in Task
         /\ \A f \in Formats : DownloadTask(j, f) \in Task
         /\ \A S \in SUBSET Songs : RenderTask(j, S) \in Task
BY DEF DownloadTask, AnalyzeTask, RenderTask, Task, Formats

LEMMA StartSubmitType ==
  ASSUME TypeInv, NEW t \in Threads, NEW task \in Task, StartSubmit(t, task)
  PROVE  /\ pc' \in [Threads -> Places]
         /\ cur' \in [Threads -> Task \cup {NoTask}]
         /\ mem' = mem
         /\ Busy'
<1>1. pc' \in [Threads -> Places]
  BY DEF TypeInv, TypeOK, StartSubmit, Go, Places
<1>2. cur' \in [Threads -> Task \cup {NoTask}]
  BY DEF TypeInv, TypeOK, StartSubmit
<1>3. Busy'
  BY DEF TypeInv, TypeOK, Busy, StartSubmit, Go
<1> QED
  BY <1>1, <1>2, <1>3 DEF StartSubmit

LEMMA InitType == Init => TypeInv
<1> SUFFICES ASSUME Init PROVE TypeInv
  OBVIOUS
<1>1. NoRow \in Row
  BY DEF NoRow, Row, Statuses, Active, Errors, Coverage
<1>2. NoMem \in Memory
  BY DEF NoMem, Memory, Coverage, Errors
<1>3. TypeOK
  BY <1>1, <1>2, JobsAssumption DEF Init, TypeOK, Places, File, Coverage
<1> QED
  BY <1>3 DEF Init, TypeInv, Busy

-----------------------------------------------------------------------------
(* The user's requests preserve the types *)

LEMMA LoopIsThread == Loop \in Threads /\ Workers \subseteq Threads
BY DEF Threads, Workers

\* Everything the type invariant says but of the table and of the threads.
EnvironmentOK ==
  /\ files \in [Jobs -> SUBSET File]
  /\ frames \in [Jobs -> Coverage]
  /\ orphans \subseteq Jobs
  /\ staged \in [Jobs -> SUBSET Songs]
  /\ outs \in Seq(Folder)
  /\ cancelled \subseteq Jobs
  /\ queue \in [{"job", "dl"} -> Seq(Task)]
  /\ up \in {"up", "stopping", "down"}
  /\ requests \in Nat /\ stops \in Nat
  /\ asked \subseteq Jobs /\ lost \subseteq Jobs

\* The tables of the threads, typed.
ThreadsOK ==
  /\ pc \in [Threads -> Places]
  /\ cur \in [Threads -> Task \cup {NoTask}]
  /\ mem \in [Threads -> Memory]
  /\ Busy

LEMMA TypeInvParts ==
  /\ TypeInv <=> row \in [Jobs -> Row] /\ EnvironmentOK /\ ThreadsOK
  /\ TypeInv' <=> row' \in [Jobs -> Row] /\ EnvironmentOK' /\ ThreadsOK'
BY DEF TypeInv, TypeOK, EnvironmentOK, ThreadsOK

LEMMA RequestsType ==
  ASSUME TypeInv, Requests
  PROVE  TypeInv'
<1>0. PICK j \in Jobs :
      \/ CreateLocalJob(j) \/ (\E f \in Formats : YoutubeJob(j, f))
      \/ Analyze(j) \/ (\E S \in SUBSET Songs \ {{}} : Render(j, S))
      \/ Cancel(j) \/ Delete(j) \/ MoveVideo(j)
  BY DEF Requests
<1>1. CASE CreateLocalJob(j)
  <2>1. [row[j] EXCEPT !.status = "ready", !.path = {Original}] \in Row
    <3>1. row[j] \in Row /\ "ready" \in Statuses /\ {Original} \in SUBSET File
      BY DEF TypeInv, TypeOK, Statuses, Active, File
    <3> QED
      BY <3>1, RowsTyped
  <2>2. row' \in [Jobs -> Row]
    BY <1>1, <2>1 DEF CreateLocalJob, TypeInv, TypeOK
  <2>3. EnvironmentOK'
    BY <1>1, TypeInvParts DEF CreateLocalJob, Request, disk, EnvironmentOK
  <2>4. ThreadsOK'
    BY <1>1, StartSubmitType, TasksTyped, LoopIsThread
    DEF CreateLocalJob, TypeInv, TypeOK, ThreadsOK
  <2> QED
    BY <2>2, <2>3, <2>4, TypeInvParts
<1>2. CASE \E f \in Formats : YoutubeJob(j, f)
  <2>0. PICK f \in Formats : YoutubeJob(j, f)
    BY <1>2
  <2>1. [row[j] EXCEPT !.status = "downloading"] \in Row
    <3>1. row[j] \in Row /\ "downloading" \in Statuses
      BY DEF TypeInv, TypeOK, Statuses, Active
    <3> QED
      BY <3>1, RowsTyped
  <2>2. row' \in [Jobs -> Row]
    BY <2>0, <2>1 DEF YoutubeJob, TypeInv, TypeOK
  <2>3. EnvironmentOK'
    BY <2>0, TypeInvParts DEF YoutubeJob, Request, disk, EnvironmentOK
  <2>4. ThreadsOK'
    BY <2>0, StartSubmitType, TasksTyped, LoopIsThread
    DEF YoutubeJob, TypeInv, TypeOK, ThreadsOK
  <2> QED
    BY <2>2, <2>3, <2>4, TypeInvParts
<1>3. CASE Analyze(j)
  <2>1. PICK task \in Task : StartSubmit(Loop, task)
    BY <1>3, TasksTyped DEF Analyze, Formats
  <2>2. EnvironmentOK'
    BY <1>3, TypeInvParts DEF Analyze, Request, disk, EnvironmentOK
  <2>3. ThreadsOK'
    BY <2>1, StartSubmitType, LoopIsThread DEF TypeInv, TypeOK, ThreadsOK
  <2> QED
    BY <1>3, <2>2, <2>3, TypeInvParts DEF Analyze
<1>4. CASE \E S \in SUBSET Songs \ {{}} : Render(j, S)
  <2>1. PICK S \in SUBSET Songs : Render(j, S)
    BY <1>4
  <2>2. EnvironmentOK'
    BY <2>1, TypeInvParts DEF Render, Request, disk, EnvironmentOK
  <2>3. ThreadsOK'
    BY <2>1, StartSubmitType, TasksTyped, LoopIsThread
    DEF Render, TypeInv, TypeOK, ThreadsOK, Formats
  <2> QED
    BY <2>1, <2>2, <2>3, TypeInvParts DEF Render
<1>5. CASE Cancel(j)
  <2>1. EnvironmentOK'
    BY <1>5, TypeInvParts DEF Cancel, Request, disk, EnvironmentOK
  <2>2. ThreadsOK'
    BY <1>5, TypeInvParts DEF Cancel, threads, ThreadsOK, Busy
  <2> QED
    BY <1>5, <2>1, <2>2, TypeInvParts DEF Cancel
<1>6. CASE Delete(j)
  <2>1. EnvironmentOK'
    BY <1>6, TypeInvParts DEF Delete, Request, disk, EnvironmentOK
  <2>2. AnalyzeTask(j) \in Task
    BY TasksTyped DEF Formats
  <2>3. ThreadsOK'
    BY <1>6, <2>2, TypeInvParts DEF Delete, Go, ThreadsOK, Busy, Places
  <2> QED
    BY <1>6, <2>1, <2>3, TypeInvParts DEF Delete
<1>7. CASE MoveVideo(j)
  <2>1. EnvironmentOK'
    BY <1>7, TypeInvParts DEF MoveVideo, EnvironmentOK
  <2>2. ThreadsOK'
    BY <1>7, TypeInvParts DEF MoveVideo, threads, ThreadsOK, Busy
  <2> QED
    BY <1>7, <2>1, <2>2, TypeInvParts DEF MoveVideo
<1> QED
  BY <1>0, <1>1, <1>2, <1>3, <1>4, <1>5, <1>6, <1>7

-----------------------------------------------------------------------------
(* Submissions and the start of a run preserve the types *)

LEMMA TaskFields ==
  ASSUME TypeInv, NEW t \in Threads, pc[t] # "idle"
  PROVE  /\ cur[t] \in Task
         /\ cur[t].op \in {"download", "analyze", "render"}
         /\ cur[t].job \in Jobs
         /\ cur[t].songs \in SUBSET Songs
         /\ cur[t].fmt \in Formats
         /\ row[cur[t].job] \in Row
         /\ mem[t] \in Memory
         /\ mem[t].todo \in SUBSET Songs
         /\ mem[t].cover \in Coverage
         /\ mem[t].target \in Nat
         /\ mem[t].found \in SUBSET File
         /\ mem[t].outcome \in Errors \cup {"cancelled"}
<1>1. cur[t] \in Task
  BY DEF TypeInv, Busy
<1>2. mem[t] \in Memory
  BY DEF TypeInv, TypeOK
<1>3. cur[t].job \in Jobs
  BY <1>1 DEF Task
<1>4. row[cur[t].job] \in Row
  BY <1>3 DEF TypeInv, TypeOK
<1>5. /\ cur[t].op \in {"download", "analyze", "render"}
      /\ cur[t].songs \in SUBSET Songs
      /\ cur[t].fmt \in Formats
  BY <1>1 DEF Task
<1> QED
  BY <1>1, <1>2, <1>3, <1>4, <1>5 DEF Memory

\* A thread that goes on with its task.
LEMMA GoesOn ==
  ASSUME TypeInv, NEW t \in Threads, pc[t] # "idle", NEW p \in Places,
         Go(t, p), cur' = cur, mem' \in [Threads -> Memory]
  PROVE  ThreadsOK'
BY DEF TypeInv, TypeOK, Busy, ThreadsOK, Go

LEMMA RaisesOn ==
  ASSUME TypeInv, NEW t \in Threads, pc[t] # "idle",
         NEW e \in Errors \cup {"cancelled"}, Raise(t, e), cur' = cur
  PROVE  ThreadsOK'
<1>1. mem' \in [Threads -> Memory]
  BY RaiseType DEF TypeInv
<1>2. Go(t, "fail") /\ "fail" \in Places
  BY DEF Raise, Places
<1> QED
  BY <1>1, <1>2, GoesOn

LEMMA EmitsOn ==
  ASSUME TypeInv, NEW t \in Threads, pc[t] # "idle", NEW p \in Places,
         Emit(t, p), cur' = cur
  PROVE  ThreadsOK'
<1>1. CASE cur[t].job \in cancelled
  BY <1>1, RaisesOn DEF Emit
<1>2. CASE cur[t].job \notin cancelled
  <2>1. Go(t, p) /\ mem' \in [Threads -> Memory]
    BY <1>2 DEF Emit, TypeInv, TypeOK
  <2> QED
    BY <2>1, GoesOn
<1> QED
  BY <1>1, <1>2

LEMMA Finishes ==
  ASSUME TypeInv, NEW t \in Threads, Finish(t)
  PROVE  ThreadsOK'
BY FinishType DEF ThreadsOK

LEMMA SubmissionType ==
  ASSUME TypeInv, NEW t \in Threads, Submission(t)
  PROVE  TypeInv'
<1>0. pc[t] # "idle"
  BY DEF Submission, ClearCancel, MarkSubmitted, Submit
<1>1. CASE ClearCancel(t)
  <2>1. EnvironmentOK'
    BY <1>1, TypeInvParts DEF ClearCancel, Cleared, disk, process, EnvironmentOK
  <2>2. ThreadsOK'
    <3>1. mem' \in [Threads -> Memory] /\ cur' = cur /\ Go(t, "mark")
      BY <1>1 DEF ClearCancel, TypeInv, TypeOK
    <3> QED
      BY <1>0, <3>1, GoesOn DEF Places
  <2> QED
    BY <1>1, <2>1, <2>2, TypeInvParts DEF ClearCancel
<1>2. CASE MarkSubmitted(t)
  <2>1. EnvironmentOK'
    BY <1>2, TypeInvParts DEF MarkSubmitted, disk, process, EnvironmentOK
  <2>2. ThreadsOK'
    <3>1. mem' \in [Threads -> Memory] /\ cur' = cur /\ Go(t, "submit")
      BY <1>2 DEF MarkSubmitted, TypeInv, TypeOK
    <3> QED
      BY <1>0, <3>1, GoesOn DEF Places
  <2>3. SubmittedStatus(cur[t].op) \in Statuses
    BY <1>0, TaskFields DEF SubmittedStatus, Statuses, Active
  <2>4. [row[cur[t].job] EXCEPT !.status = SubmittedStatus(cur[t].op), !.error = "none"] \in Row
    BY <1>0, <2>3, TaskFields, RowsTyped DEF Errors
  <2>5. row' \in [Jobs -> Row]
    BY <1>0, <1>2, <2>4, TaskFields, UpdateType DEF MarkSubmitted, TypeInv
  <2> QED
    BY <2>1, <2>2, <2>5, TypeInvParts
<1>3. CASE Submit(t)
  <2>1. EnvironmentOK'
    <3>1. cur[t] \in Task /\ PoolOf(cur[t]) \in {"job", "dl"}
      BY <1>0, TaskFields DEF PoolOf
    <3>2. queue' \in [{"job", "dl"} -> Seq(Task)]
      <4>1. queue \in [{"job", "dl"} -> Seq(Task)]
        BY TypeInvParts DEF EnvironmentOK
      <4>2. Append(queue[PoolOf(cur[t])], cur[t]) \in Seq(Task)
        BY <3>1, <4>1
      <4>3. \/ queue' = queue
            \/ queue' = [queue EXCEPT ![PoolOf(cur[t])] = Append(queue[PoolOf(cur[t])], cur[t])]
        BY <1>3 DEF Submit
      <4> QED
        BY <3>1, <4>1, <4>2, <4>3
    <3> QED
      BY <1>3, <3>2, TypeInvParts DEF Submit, disk, process, EnvironmentOK
  <2>2. ThreadsOK'
    <3>1. CASE up = "up"
      BY <1>3, <3>1, Finishes DEF Submit
    <3>2. CASE up # "up"
      BY <1>0, <1>3, <3>2, RaisesOn DEF Submit, Errors
    <3> QED
      BY <3>1, <3>2
  <2> QED
    BY <1>3, <2>1, <2>2, TypeInvParts DEF Submit
<1> QED
  BY <1>1, <1>2, <1>3 DEF Submission

LEMMA RemoveRowType ==
  ASSUME TypeInv, RemoveRow
  PROVE  TypeInv'
<1>1. EnvironmentOK'
  BY TypeInvParts DEF RemoveRow, disk, process, EnvironmentOK
<1>2. ThreadsOK'
  BY Finishes, LoopIsThread DEF RemoveRow
<1>3. row' \in [Jobs -> Row]
  <2>1. row[cur[Loop].job] \in Row /\ cur[Loop].job \in Jobs
    BY TaskFields, LoopIsThread DEF RemoveRow
  <2>2. [row[cur[Loop].job] EXCEPT !.status = "deleted"] \in Row
    BY <2>1, RowsTyped, StatusesAre
  <2> QED
    BY <2>1, <2>2 DEF RemoveRow, DeleteRow, TypeInv, TypeOK
<1> QED
  BY <1>1, <1>2, <1>3, TypeInvParts

LEMMA PoolOfWorker == \A w \in Workers : w[1] \in {"job", "dl"}
BY DEF Workers, ProcWorkers, DownWorkers

LEMMA TakeType ==
  ASSUME TypeInv, NEW w \in Workers, Take(w)
  PROVE  TypeInv'
<1> DEFINE waiting == queue[w[1]]
<1>1. waiting \in Seq(Task) /\ waiting # <<>>
  BY PoolOfWorker DEF Take, TypeInv, TypeOK
<1>2. Head(waiting) \in Task /\ Tail(waiting) \in Seq(Task)
  BY <1>1
<1>3. FirstStep(Head(waiting).op) \in Places
  BY <1>2 DEF FirstStep, Task, Places
<1>4. EnvironmentOK'
  BY <1>2, TypeInvParts, PoolOfWorker DEF Take, disk, process, EnvironmentOK
<1>5. ThreadsOK'
  BY <1>2, <1>3, LoopIsThread, TypeInvParts DEF Take, Go, ThreadsOK, Busy
<1> QED
  BY <1>4, <1>5, TypeInvParts DEF Take

-----------------------------------------------------------------------------
(* The steps of the runs preserve the types *)

LEMMA DownloadType ==
  ASSUME TypeInv, NEW w \in Workers, Download(w)
  PROVE  TypeInv'
<1>0. w \in Threads /\ pc[w] # "idle"
  BY LoopIsThread DEF Download, FetchLine, FetchEnd, FetchDone, Landed, Running, Step
<1>a. cur[w].job \in Jobs /\ cur[w].fmt \in Formats /\ row[cur[w].job] \in Row
  BY <1>0, TaskFields
<1>b. files[cur[w].job] \in SUBSET File /\ {Part(cur[w].fmt), Whole(cur[w].fmt)} \subseteq File
  BY <1>a DEF File, TypeInv, TypeOK
<1>1. CASE FetchLine(w)
  <2>1. files' \in [Jobs -> SUBSET File]
    <3>1. files[cur[w].job] \cup {Part(cur[w].fmt)} \in SUBSET File
      BY <1>b
    <3>2. \E new \in SUBSET File : files' = [files EXCEPT ![cur[w].job] = new]
      <4>1. CASE cur[w].job \in cancelled
        BY <1>1, <4>1 DEF FetchLine
      <4>2. CASE cur[w].job \notin cancelled
        BY <1>1, <1>b, <3>1, <4>2 DEF FetchLine
      <4> QED
        BY <4>1, <4>2
    <3> QED
      BY <1>a, <3>2, TypeInvParts DEF EnvironmentOK
  <2>2. EnvironmentOK'
    BY <1>1, <2>1, TypeInvParts DEF FetchLine, Running, Step, process, EnvironmentOK
  <2>3. ThreadsOK'
    <3>1. CASE cur[w].job \in cancelled
      BY <1>0, <1>1, <3>1, RaisesOn DEF FetchLine, Running
    <3>2. CASE cur[w].job \notin cancelled
      BY <1>1, <3>2, TypeInvParts DEF FetchLine, Running, ThreadsOK, Busy
    <3> QED
      BY <3>1, <3>2
  <2> QED
    BY <1>1, <2>2, <2>3, TypeInvParts DEF FetchLine
<1>2. CASE FetchEnd(w)
  <2>1. EnvironmentOK'
    BY <1>2, TypeInvParts DEF FetchEnd, Running, Step, process, disk, EnvironmentOK
  <2>2. ThreadsOK'
    <3>1. mem' \in [Threads -> Memory] /\ cur' = cur /\ Go(w, "fetched")
      BY <1>2 DEF FetchEnd, Running, TypeInv, TypeOK
    <3> QED
      BY <1>0, <3>1, GoesOn DEF Places
  <2> QED
    BY <1>2, <2>1, <2>2, TypeInvParts DEF FetchEnd
<1>3. CASE FetchDone(w)
  <2>1. files' \in [Jobs -> SUBSET File]
    <3>1. (files[cur[w].job] \ {Part(cur[w].fmt)}) \cup {Whole(cur[w].fmt)} \in SUBSET File
      BY <1>b
    <3>2. \/ files' = files
          \/ files' = [files EXCEPT ![cur[w].job] =
                          (files[cur[w].job] \ {Part(cur[w].fmt)}) \cup {Whole(cur[w].fmt)}]
      BY <1>3 DEF FetchDone
    <3> QED
      BY <1>a, <3>1, <3>2, TypeInvParts DEF EnvironmentOK
  <2>2. EnvironmentOK'
    BY <1>3, <2>1, TypeInvParts DEF FetchDone, Running, Step, process, EnvironmentOK
  <2>3. ThreadsOK'
    <3>1. CASE Raise(w, "download")
      BY <1>0, <1>3, <3>1, RaisesOn DEF FetchDone, Running, Errors
    <3>2. CASE (\E first \in files'[cur[w].job] : mem' = [mem EXCEPT ![w].found = {first}])
               /\ Go(w, "landed")
      <4>1. PICK first \in files'[cur[w].job] : mem' = [mem EXCEPT ![w].found = {first}]
        BY <3>2
      <4>2. {first} \in SUBSET File
        BY <1>a, <2>1, <4>1
      <4>3. [mem[w] EXCEPT !.found = {first}] \in Memory
        BY <1>0, <4>2, TaskFields DEF Memory
      <4>4. mem \in [Threads -> Memory]
        BY DEF TypeInv, TypeOK
      <4>5. mem' \in [Threads -> Memory]
        BY <4>1, <4>3, <4>4
      <4> QED
        BY <1>0, <1>3, <3>2, <4>5, GoesOn DEF FetchDone, Running, Places
    <3> QED
      BY <1>3, <3>1, <3>2 DEF FetchDone
  <2> QED
    BY <1>3, <2>2, <2>3, TypeInvParts DEF FetchDone
<1>4. CASE Landed(w)
  <2>1. EnvironmentOK'
    BY <1>4, TypeInvParts DEF Landed, Step, process, disk, EnvironmentOK
  <2>2. ThreadsOK'
    BY <1>0, <1>4, <1>a, StartSubmitType, TasksTyped DEF Landed, TypeInv, TypeOK, ThreadsOK
  <2>3. [row[cur[w].job] EXCEPT !.status = "ready", !.path = mem[w].found] \in Row
    BY <1>0, <1>a, TaskFields, RowsTyped, StatusesAre DEF Active
  <2>4. row' \in [Jobs -> Row]
    BY <1>4, <1>a, <2>3, UpdateType DEF Landed, TypeInv
  <2> QED
    BY <2>1, <2>2, <2>4, TypeInvParts
<1> QED
  BY <1>1, <1>2, <1>3, <1>4 DEF Download

LEMMA FailType ==
  ASSUME TypeInv, NEW w \in Workers, Fail(w)
  PROVE  TypeInv'
<1>0. w \in Threads /\ pc[w] # "idle"
  BY LoopIsThread DEF Fail, Step
<1>1. EnvironmentOK'
  BY TypeInvParts DEF Fail, Step, process, disk, EnvironmentOK
<1>2. ThreadsOK'
  BY <1>0, Finishes DEF Fail
<1>3. Failed(cur[w].job, mem[w].outcome) \in Row
  BY <1>0, TaskFields, RowsTyped, StatusesAre DEF Failed, Errors
<1>4. row' \in [Jobs -> Row]
  BY <1>0, <1>3, TaskFields, UpdateType DEF Fail, TypeInv
<1> QED
  BY <1>1, <1>2, <1>4, TypeInvParts

LEMMA RunAnalyzeType ==
  ASSUME TypeInv, NEW w \in Workers, RunAnalyze(w)
  PROVE  TypeInv'
<1>0. w \in Threads /\ pc[w] # "idle"
  BY LoopIsThread DEF RunAnalyze, ReadJob, MarkAnalyzing, Sample, DecodeWrite,
     DecodeCancelled, DecodeEnd, ListFrames, Detect, SaveAnalysis, Running, Step
<1>a. cur[w].job \in Jobs /\ row[cur[w].job] \in Row
  BY <1>0, TaskFields
<1>b. row \in [Jobs -> Row] /\ mem \in [Threads -> Memory]
  BY DEF TypeInv, TypeOK
<1>c. frames \in [Jobs -> Coverage] /\ {"partial", "whole"} \subseteq Coverage
  BY DEF TypeInv, TypeOK, Coverage
<1>1. CASE ReadJob(w)
  <2>1. EnvironmentOK'
    BY <1>1, TypeInvParts DEF ReadJob, Step, process, disk, EnvironmentOK
  <2>2. CASE Finish(w)
    BY <1>0, <1>1, <1>b, <2>1, <2>2, Finishes, TypeInvParts DEF ReadJob
  <2>3. CASE Raise(w, "source") /\ cur' = cur
    BY <1>0, <1>1, <1>b, <2>1, <2>3, RaisesOn, TypeInvParts DEF ReadJob, Errors
  <2>4. CASE mem' = [mem EXCEPT ![w].found = row[cur[w].job].path] /\ Go(w, "start") /\ cur' = cur
    <3>1. [mem[w] EXCEPT !.found = row[cur[w].job].path] \in Memory
      BY <1>a, <1>b, <1>0 DEF Memory, Row
    <3>2. mem' \in [Threads -> Memory]
      BY <1>b, <2>4, <3>1
    <3>3. ThreadsOK'
      BY <1>0, <2>4, <3>2, GoesOn DEF Places
    <3> QED
      BY <1>1, <1>b, <2>1, <3>3, TypeInvParts DEF ReadJob
  <2> QED
    BY <1>1, <2>2, <2>3, <2>4 DEF ReadJob
<1>2. CASE MarkAnalyzing(w)
  <2>1. EnvironmentOK'
    BY <1>2, TypeInvParts DEF MarkAnalyzing, Running, Step, process, disk, EnvironmentOK
  <2>2. ThreadsOK'
    BY <1>0, <1>2, <1>b, GoesOn DEF MarkAnalyzing, Running, Places
  <2>3. [row[cur[w].job] EXCEPT !.status = "analyzing"] \in Row
    BY <1>a, RowsTyped, StatusesAre DEF Active
  <2>4. row' \in [Jobs -> Row]
    BY <1>2, <1>a, <2>3, UpdateType DEF MarkAnalyzing, TypeInv
  <2> QED
    BY <2>1, <2>2, <2>4, TypeInvParts
<1>3. CASE Sample(w)
  <2>1. EnvironmentOK'
    BY <1>3, TypeInvParts DEF Sample, Running, Step, process, disk, EnvironmentOK
  <2>2. [mem[w] EXCEPT !.cover = frames[cur[w].job]] \in Memory
    BY <1>0, <1>a, <1>b, <1>c DEF Memory
  <2>3. \/ Raise(w, "cancelled") \/ Raise(w, "engine")
        \/ mem' = [mem EXCEPT ![w].cover = frames[cur[w].job]] /\ Go(w, "detect")
        \/ Go(w, "decode") /\ UNCHANGED mem
    BY <1>3 DEF Sample
  <2>4. ThreadsOK'
    <3>1. CASE Raise(w, "cancelled") \/ Raise(w, "engine")
      BY <1>0, <1>3, <3>1, RaisesOn DEF Sample, Running, Errors
    <3>2. CASE mem' = [mem EXCEPT ![w].cover = frames[cur[w].job]] /\ Go(w, "detect")
      <4>1. mem' \in [Threads -> Memory]
        BY <1>b, <2>2, <3>2
      <4> QED
        BY <1>0, <1>3, <3>2, <4>1, GoesOn DEF Sample, Running, Places
    <3>3. CASE Go(w, "decode") /\ UNCHANGED mem
      BY <1>0, <1>3, <1>b, <3>3, GoesOn DEF Sample, Running, Places
    <3> QED
      BY <2>3, <3>1, <3>2, <3>3
  <2> QED
    BY <1>3, <1>b, <2>1, <2>4, TypeInvParts DEF Sample
<1>4. CASE DecodeWrite(w)
  <2>1. EnvironmentOK'
    BY <1>4, <1>a, <1>c, TypeInvParts DEF DecodeWrite, Running, Step, process, EnvironmentOK
  <2>2. ThreadsOK'
    BY <1>4, TypeInvParts DEF DecodeWrite, Running, ThreadsOK, Busy
  <2> QED
    BY <1>4, <1>b, <2>1, <2>2, TypeInvParts DEF DecodeWrite
<1>5. CASE DecodeCancelled(w)
  <2>1. EnvironmentOK'
    BY <1>5, <1>a, TypeInvParts DEF DecodeCancelled, Running, Step, process, EnvironmentOK
  <2>2. ThreadsOK'
    BY <1>0, <1>5, RaisesOn DEF DecodeCancelled, Running
  <2> QED
    BY <1>5, <1>b, <2>1, <2>2, TypeInvParts DEF DecodeCancelled
<1>6. CASE DecodeEnd(w)
  <2>1. PICK c \in Coverage : frames' = frames \/ frames' = [frames EXCEPT ![cur[w].job] = c]
    BY <1>6, <1>c DEF DecodeEnd
  <2>0. frames' \in [Jobs -> Coverage]
    BY <1>c, <2>1
  <2>2. EnvironmentOK'
    BY <1>6, <2>0, TypeInvParts
    DEF DecodeEnd, Running, Step, process, EnvironmentOK
  <2>3. Emit(w, "decoded") \/ Raise(w, "engine")
    BY <1>6 DEF DecodeEnd
  <2>4. ThreadsOK'
    BY <1>0, <1>6, <2>3, EmitsOn, RaisesOn DEF DecodeEnd, Running, Places, Errors
  <2> QED
    BY <1>6, <1>b, <2>2, <2>4, TypeInvParts DEF DecodeEnd
<1>7. CASE ListFrames(w)
  <2>1. EnvironmentOK'
    BY <1>7, TypeInvParts DEF ListFrames, Running, Step, process, disk, EnvironmentOK
  <2>2. [mem[w] EXCEPT !.cover = frames[cur[w].job]] \in Memory
    BY <1>0, <1>a, <1>b, <1>c DEF Memory
  <2>3. mem' \in [Threads -> Memory]
    BY <1>7, <1>b, <2>2 DEF ListFrames
  <2>4. ThreadsOK'
    BY <1>0, <1>7, <2>3, GoesOn DEF ListFrames, Running, Places
  <2> QED
    BY <1>7, <1>b, <2>1, <2>4, TypeInvParts DEF ListFrames
<1>8. CASE Detect(w)
  <2>1. EnvironmentOK'
    BY <1>8, TypeInvParts DEF Detect, Running, Step, process, disk, EnvironmentOK
  <2>2. ThreadsOK'
    BY <1>0, <1>8, EmitsOn, RaisesOn DEF Detect, Running, Places, Errors
  <2> QED
    BY <1>8, <1>b, <2>1, <2>2, TypeInvParts DEF Detect
<1>9. CASE SaveAnalysis(w)
  <2>1. EnvironmentOK'
    BY <1>9, TypeInvParts DEF SaveAnalysis, Step, process, disk, EnvironmentOK
  <2>2. ThreadsOK'
    BY <1>0, <1>9, Finishes DEF SaveAnalysis
  <2>3. [row[cur[w].job] EXCEPT !.status = "analyzed", !.analysis = mem[w].cover] \in Row
    BY <1>0, <1>a, TaskFields, RowsTyped, StatusesAre
  <2>4. row' \in [Jobs -> Row]
    BY <1>9, <1>a, <2>3, UpdateType DEF SaveAnalysis, TypeInv
  <2> QED
    BY <2>1, <2>2, <2>4, TypeInvParts
<1> QED
  BY <1>1, <1>2, <1>3, <1>4, <1>5, <1>6, <1>7, <1>8, <1>9 DEF RunAnalyze

\* A move, whole or cut short, leaves folders of PDFs.
LEMMA FilledType ==
  ASSUME TypeInv, NEW w \in Workers, pc[w] # "idle", NEW S \in SUBSET Songs
  PROVE  Filled(w, S) \in Seq(Folder)
<1> DEFINE j == cur[w].job
           k == mem[w].target
<1>1. outs \in Seq(Folder) /\ j \in Jobs
  BY LoopIsThread, TaskFields, TypeInvParts DEF EnvironmentOK
<1>2. CASE k \in DOMAIN outs
  <2>1. outs[k] \in Folder
    BY <1>1, <1>2
  <2>2. PICK x \in Folder : x = [outs[k] EXCEPT !.pdfs = @ \cup S]
    BY <1>1, <2>1 DEF Folder
  <2>3. Filled(w, S) = [outs EXCEPT ![k] = x]
    BY <1>2, <2>2 DEF Filled
  <2> QED
    BY <1>1, <1>2, <2>3
<1>3. CASE k \notin DOMAIN outs
  <2>1. [job |-> j, pdfs |-> S] \in Folder
    BY <1>1 DEF Folder
  <2>2. Filled(w, S) = Append(outs, [job |-> j, pdfs |-> S])
    BY <1>3 DEF Filled
  <2> QED
    BY <1>1, <2>1, <2>2
<1> QED
  BY <1>2, <1>3

LEMMA HalfMovedType ==
  ASSUME TypeInv, NEW w \in Workers, pc[w] # "idle", HalfMoved(w)
  PROVE  outs' \in Seq(Folder) /\ staged' \in [Jobs -> SUBSET Songs]
<1>1. outs \in Seq(Folder) /\ staged \in [Jobs -> SUBSET Songs] /\ cur[w].job \in Jobs
  BY LoopIsThread, TaskFields, TypeInvParts DEF EnvironmentOK
<1>2. CASE UNCHANGED <<staged, outs>>
  BY <1>1, <1>2
<1>3. CASE (\E S \in SUBSET staged[cur[w].job] : outs' = Filled(w, S)) /\ UNCHANGED staged
  BY <1>1, <1>3, FilledType
<1>4. CASE /\ outs' = Filled(w, staged[cur[w].job])
           /\ \E S \in SUBSET staged[cur[w].job] : staged' = [staged EXCEPT ![cur[w].job] = S]
  BY <1>1, <1>4, FilledType
<1> QED
  BY <1>2, <1>3, <1>4 DEF HalfMoved

LEMMA RunRenderType ==
  ASSUME TypeInv, NEW w \in Workers, RunRender(w)
  PROVE  TypeInv'
<1>0. w \in Threads /\ pc[w] # "idle"
  BY LoopIsThread DEF RunRender, LoadJob, MarkRendering, OpenFrames, ComposeSong,
     ComposeDone, ChooseTarget, MoveOutput, RecordRender, CleanWorkdir, Running, Step
<1>a. cur[w].job \in Jobs /\ row[cur[w].job] \in Row
  BY <1>0, TaskFields
<1>b. row \in [Jobs -> Row] /\ mem \in [Threads -> Memory]
  BY DEF TypeInv, TypeOK
<1>c. mem[w] \in Memory /\ mem[w].todo \in SUBSET Songs /\ mem[w].target \in Nat
  BY <1>0, TaskFields
<1>1. CASE LoadJob(w)
  <2>1. EnvironmentOK'
    BY <1>1, TypeInvParts DEF LoadJob, Running, Step, process, disk, EnvironmentOK
  <2>2. CASE Go(w, "begin") /\ UNCHANGED mem
    BY <1>0, <1>1, <1>b, <2>1, <2>2, GoesOn, TypeInvParts DEF LoadJob, Running, Places
  <2>3. CASE Raise(w, "analysis")
    BY <1>0, <1>1, <1>b, <2>1, <2>3, RaisesOn, TypeInvParts DEF LoadJob, Running, Errors
  <2> QED
    BY <1>1, <2>2, <2>3 DEF LoadJob
<1>2. CASE MarkRendering(w)
  <2>1. EnvironmentOK'
    BY <1>2, TypeInvParts DEF MarkRendering, Running, Step, process, disk, EnvironmentOK
  <2>2. ThreadsOK'
    BY <1>0, <1>2, <1>b, GoesOn DEF MarkRendering, Running, Places
  <2>3. [row[cur[w].job] EXCEPT !.status = "rendering"] \in Row
    BY <1>a, RowsTyped, StatusesAre DEF Active
  <2>4. row' \in [Jobs -> Row]
    BY <1>2, <1>a, <2>3, UpdateType DEF MarkRendering, TypeInv
  <2> QED
    BY <2>1, <2>2, <2>4, TypeInvParts
<1>3. CASE OpenFrames(w)
  <2>1. EnvironmentOK'
    BY <1>3, TypeInvParts DEF OpenFrames, Running, Step, process, disk, EnvironmentOK
  <2>2. CASE Raise(w, "frames")
    BY <1>0, <1>3, <1>b, <2>1, <2>2, RaisesOn, TypeInvParts DEF OpenFrames, Running, Errors
  <2>3. CASE Go(w, "compose") /\ mem' = [mem EXCEPT ![w].todo = cur[w].songs]
    <3>1. [mem[w] EXCEPT !.todo = cur[w].songs] \in Memory
      BY <1>0, <1>c, TaskFields DEF Memory
    <3>2. mem' \in [Threads -> Memory]
      BY <1>b, <2>3, <3>1
    <3> QED
      BY <1>0, <1>3, <1>b, <2>1, <2>3, <3>2, GoesOn, TypeInvParts
      DEF OpenFrames, Running, Places
  <2> QED
    BY <1>3, <2>2, <2>3 DEF OpenFrames
<1>4. CASE ComposeSong(w)
  <2>1. CASE (Raise(w, "cancelled") \/ Raise(w, "engine")) /\ UNCHANGED staged
    <3>1. EnvironmentOK'
      BY <1>4, <2>1, TypeInvParts DEF ComposeSong, Running, Step, process, EnvironmentOK
    <3> QED
      BY <1>0, <1>4, <1>b, <2>1, <3>1, RaisesOn, TypeInvParts
      DEF ComposeSong, Running, Errors
  <2>2. CASE \E s \in mem[w].todo :
               /\ staged' = [staged EXCEPT ![cur[w].job] = @ \cup {s}]
               /\ mem' = [mem EXCEPT ![w].todo = @ \ {s}]
               /\ UNCHANGED pc
    <3>1. PICK s \in mem[w].todo :
               /\ staged' = [staged EXCEPT ![cur[w].job] = @ \cup {s}]
               /\ mem' = [mem EXCEPT ![w].todo = @ \ {s}]
               /\ UNCHANGED pc
      BY <2>2
    <3>2. staged' \in [Jobs -> SUBSET Songs]
      BY <1>a, <1>c, <3>1, TypeInvParts DEF EnvironmentOK
    <3>3. EnvironmentOK'
      BY <1>4, <3>2, TypeInvParts DEF ComposeSong, Running, Step, process, EnvironmentOK
    <3>4. [mem[w] EXCEPT !.todo = @ \ {s}] \in Memory
      BY <1>c DEF Memory
    <3>5. mem' \in [Threads -> Memory]
      BY <1>b, <3>1, <3>4
    <3>6. ThreadsOK'
      BY <1>4, <3>1, <3>5, TypeInvParts DEF ComposeSong, Running, ThreadsOK, Busy
    <3> QED
      BY <1>4, <1>b, <3>3, <3>6, TypeInvParts DEF ComposeSong
  <2> QED
    BY <1>4, <2>1, <2>2 DEF ComposeSong
<1>5. CASE ComposeDone(w)
  <2>1. EnvironmentOK'
    BY <1>5, TypeInvParts DEF ComposeDone, Running, Step, process, disk, EnvironmentOK
  <2>2. ThreadsOK'
    BY <1>0, <1>5, EmitsOn DEF ComposeDone, Running, Places
  <2> QED
    BY <1>5, <1>b, <2>1, <2>2, TypeInvParts DEF ComposeDone
<1>6. CASE ChooseTarget(w)
  <2>1. EnvironmentOK'
    BY <1>6, TypeInvParts DEF ChooseTarget, Running, Step, process, disk, EnvironmentOK
  <2>2. FreeTarget \in Nat
    BY TypeInvParts DEF FreeTarget, EnvironmentOK
  <2>3. [mem[w] EXCEPT !.target = FreeTarget] \in Memory
    BY <1>c, <2>2 DEF Memory
  <2>4. mem' \in [Threads -> Memory]
    BY <1>6, <1>b, <2>3 DEF ChooseTarget
  <2>5. ThreadsOK'
    BY <1>0, <1>6, <2>4, GoesOn DEF ChooseTarget, Running, Places
  <2> QED
    BY <1>6, <1>b, <2>1, <2>5, TypeInvParts DEF ChooseTarget
<1>7. CASE MoveOutput(w)
  <2>1. staged \in [Jobs -> SUBSET Songs]
    BY TypeInvParts DEF EnvironmentOK
  <2>2. outs' \in Seq(Folder) /\ staged' \in [Jobs -> SUBSET Songs]
    BY <1>0, <1>7, <1>a, <2>1, FilledType, HalfMovedType DEF MoveOutput
  <2>3. EnvironmentOK'
    BY <1>7, <2>2, TypeInvParts DEF MoveOutput, Running, Step, process, EnvironmentOK
  <2>4. CASE Go(w, "record") /\ UNCHANGED mem
    <3>1. ThreadsOK'
      BY <1>0, <1>7, <1>b, <2>4, GoesOn DEF MoveOutput, Running, Places
    <3> QED
      BY <1>7, <1>b, <2>3, <3>1, TypeInvParts DEF MoveOutput
  <2>5. CASE Raise(w, "engine")
    <3>1. ThreadsOK'
      BY <1>0, <1>7, <2>5, RaisesOn DEF MoveOutput, Running, Errors
    <3> QED
      BY <1>7, <1>b, <2>3, <3>1, TypeInvParts DEF MoveOutput
  <2> QED
    BY <1>7, <2>4, <2>5 DEF MoveOutput
<1>8. CASE RecordRender(w)
  <2>1. EnvironmentOK'
    BY <1>8, TypeInvParts DEF RecordRender, Running, Step, process, disk, EnvironmentOK
  <2>2. ThreadsOK'
    BY <1>0, <1>8, <1>b, GoesOn DEF RecordRender, Running, Places
  <2>3. [row[cur[w].job] EXCEPT !.status = "rendered", !.out = mem[w].target,
                                !.render = cur[w].songs] \in Row
    BY <1>0, <1>a, <1>c, TaskFields, RowsTyped, StatusesAre
  <2>4. row' \in [Jobs -> Row]
    BY <1>8, <1>a, <2>3, UpdateType DEF RecordRender, TypeInv
  <2> QED
    BY <2>1, <2>2, <2>4, TypeInvParts
<1>9. CASE CleanWorkdir(w)
  <2>1. files' \in [Jobs -> SUBSET File]
    BY <1>9, <1>a, TypeInvParts DEF CleanWorkdir, EnvironmentOK
  <2>2. staged' \in [Jobs -> SUBSET Songs] /\ frames' \in [Jobs -> Coverage]
    BY <1>9, <1>a, TypeInvParts DEF CleanWorkdir, EnvironmentOK, Coverage
  <2>3. EnvironmentOK'
    BY <1>9, <2>1, <2>2, TypeInvParts DEF CleanWorkdir, Step, process, EnvironmentOK
  <2>4. ThreadsOK'
    BY <1>0, <1>9, Finishes DEF CleanWorkdir
  <2> QED
    BY <1>9, <1>b, <2>3, <2>4, TypeInvParts DEF CleanWorkdir
<1> QED
  BY <1>1, <1>2, <1>3, <1>4, <1>5, <1>6, <1>7, <1>8, <1>9 DEF RunRender

-----------------------------------------------------------------------------
(* So does what happens around the threads *)

LEMMA SurroundingsType ==
  ASSUME TypeInv,
         (\E j \in Jobs : OrphanWrites(j)) \/ Shutdown \/ Kill \/ Exit \/ Restart
  PROVE  TypeInv'
<1>b. row \in [Jobs -> Row] /\ mem \in [Threads -> Memory]
  BY DEF TypeInv, TypeOK
<1>1. CASE \E j \in Jobs : OrphanWrites(j)
  <2>1. EnvironmentOK'
    BY <1>1, TypeInvParts DEF OrphanWrites, process, EnvironmentOK, Coverage
  <2>2. ThreadsOK'
    BY <1>1, TypeInvParts DEF OrphanWrites, threads, ThreadsOK, Busy
  <2> QED
    BY <1>1, <1>b, <2>1, <2>2, TypeInvParts DEF OrphanWrites
<1>2. CASE Shutdown
  <2>1. EnvironmentOK'
    BY <1>2, TypeInvParts DEF Shutdown, disk, EnvironmentOK
  <2>2. ThreadsOK'
    BY <1>2, TypeInvParts DEF Shutdown, threads, ThreadsOK, Busy
  <2> QED
    BY <1>2, <1>b, <2>1, <2>2, TypeInvParts DEF Shutdown
<1>3. CASE ProcessEnds
  <2>1. {cur[w].job : w \in {x \in ProcWorkers : pc[x] = "decode"}} \subseteq Jobs
    BY TaskFields, LoopIsThread DEF Workers
  <2>5. outs' \in Seq(Folder) /\ staged' \in [Jobs -> SUBSET Songs]
    <3>1. CASE \E w \in ProcWorkers : pc[w] = "move"
      BY <1>3, <3>1, HalfMovedType DEF ProcessEnds, Workers
    <3>2. CASE ~\E w \in ProcWorkers : pc[w] = "move"
      BY <1>3, <3>2, TypeInvParts DEF ProcessEnds, EnvironmentOK
    <3> QED
      BY <3>1, <3>2
  <2>2. EnvironmentOK'
    BY <1>3, <2>1, <2>5, TypeInvParts DEF ProcessEnds, EnvironmentOK
  <2>3. NoMem \in Memory
    BY DEF NoMem, Memory, Coverage, Errors
  <2>4. ThreadsOK'
    BY <1>3, <2>3 DEF ProcessEnds, ThreadsOK, Busy, Places
  <2> QED
    BY <1>3, <1>b, <2>2, <2>4, TypeInvParts DEF ProcessEnds
<1>4. CASE Restart
  <2>1. EnvironmentOK'
    BY <1>4, TypeInvParts DEF Restart, disk, EnvironmentOK
  <2>2. ThreadsOK'
    BY <1>4, TypeInvParts DEF Restart, threads, ThreadsOK, Busy
  <2> QED
    BY <1>4, <1>b, <2>1, <2>2, TypeInvParts DEF Restart
<1> QED
  BY <1>1, <1>2, <1>3, <1>4 DEF Kill, Exit

LEMMA StutterType == TypeInv /\ UNCHANGED vars => TypeInv'
BY TypeInvParts DEF vars, disk, threads, process, EnvironmentOK, ThreadsOK, Busy

LEMMA NextType == TypeInv /\ [Next]_vars => TypeInv'
<1> SUFFICES ASSUME TypeInv, [Next]_vars PROVE TypeInv'
  OBVIOUS
<1>1. CASE Requests
  BY <1>1, RequestsType
<1>2. CASE RemoveRow
  BY <1>2, RemoveRowType
<1>3. ASSUME NEW t \in Threads, Submission(t) PROVE TypeInv'
  BY <1>3, SubmissionType
<1>4. ASSUME NEW w \in Workers, Take(w) PROVE TypeInv'
  BY <1>4, TakeType
<1>5. ASSUME NEW w \in Workers, Work(w) PROVE TypeInv'
  BY <1>5, DownloadType, RunAnalyzeType, RunRenderType, FailType DEF Work
<1>6. CASE (\E j \in Jobs : OrphanWrites(j)) \/ Shutdown \/ Kill \/ Exit \/ Restart
  BY <1>6, SurroundingsType
<1>7. CASE UNCHANGED vars
  BY <1>7, StutterType
<1> QED
  BY <1>1, <1>2, <1>3, <1>4, <1>5, <1>6, <1>7 DEF Next

\* The variables of the runner keep their types, and a thread that is not idle
\* has a task, in every behaviour (runner.py, main.py, db.py).
THEOREM TypeCorrect == Spec => []TypeOK
<1>1. TypeInv => TypeOK
  BY DEF TypeInv
<1> QED
  BY <1>1, InitType, NextType, PTL DEF Spec

-----------------------------------------------------------------------------
(* A status that makes the user wait is backed by work.  With the types, the *)
(* property is inductive: the last write of a run is never an active status, *)
(* and whoever writes an active one goes on to queue or to run the task.     *)

BackedInv == TypeInv /\ StatusBacked

\* No thread but x moves.
OnlyMoves(x) == \A t \in Threads \ {x} : pc'[t] = pc[t] /\ cur'[t] = cur[t]

\* No row but that of job k changes.
OnlyWrites(k) == \A j \in Jobs \ {k} : row'[j] = row[j]

LEMMA SameQueue == ASSUME UNCHANGED queue, NEW j PROVE Queued(j) => Queued(j)'
BY DEF Queued

\* Thread x begins, or goes on with, a task of job cur'[x].job.
LEMMA BusyBacks ==
  ASSUME BackedInv, NEW x \in Threads, OnlyMoves(x), OnlyWrites(cur'[x].job),
         pc'[x] \notin {"idle", "clean", "remove"},
         pc[x] = "idle" \/ cur'[x].job = cur[x].job,
         lost' = lost,
         \A j \in Jobs \ {cur'[x].job} : Queued(j) => Queued(j)'
  PROVE  StatusBacked'
<1> SUFFICES ASSUME NEW j \in Jobs, row'[j].status \in Active
             PROVE  j \in lost' \/ Queued(j)' \/ \E t \in Threads : Owes(t, j)'
  BY DEF StatusBacked
<1>1. CASE j = cur'[x].job
  BY <1>1 DEF Owes
<1>2. CASE j # cur'[x].job
  <2>1. j \in lost \/ Queued(j) \/ \E t \in Threads : Owes(t, j)
    BY <1>2 DEF BackedInv, StatusBacked, OnlyWrites
  <2>2. ASSUME NEW t \in Threads, Owes(t, j) PROVE Owes(t, j)'
    BY <1>2, <2>2 DEF Owes, OnlyMoves
  <2> QED
    BY <1>2, <2>1, <2>2
<1> QED
  BY <1>1, <1>2

\* Thread x has written the last status of its run.
LEMMA EndBacks ==
  ASSUME BackedInv, NEW x \in Threads, OnlyMoves(x), OnlyWrites(cur[x].job),
         row'[cur[x].job].status \notin Active,
         UNCHANGED <<lost, queue>>
  PROVE  StatusBacked'
<1> SUFFICES ASSUME NEW j \in Jobs, row'[j].status \in Active
             PROVE  j \in lost' \/ Queued(j)' \/ \E t \in Threads : Owes(t, j)'
  BY DEF StatusBacked
<1>1. j \in lost \/ Queued(j) \/ \E t \in Threads : Owes(t, j)
  BY DEF BackedInv, StatusBacked, OnlyWrites
<1>2. ASSUME NEW t \in Threads, Owes(t, j) PROVE Owes(t, j)'
  BY <1>2 DEF Owes, OnlyMoves
<1> QED
  BY <1>1, <1>2, SameQueue

\* Nothing the property reads changes.
LEMMA SameBacks ==
  ASSUME BackedInv, UNCHANGED <<row, lost, queue, pc, cur>>
  PROVE  StatusBacked'
BY DEF BackedInv, StatusBacked, Owes, Queued

\* What a step that only touches one thread, or one row, leaves alone.
LEMMA Frames ==
  ASSUME TypeInv, NEW x \in Threads
  PROVE  /\ \A p : Go(x, p) /\ UNCHANGED cur => OnlyMoves(x) /\ pc'[x] = p /\ cur'[x] = cur[x]
         /\ \A e : Raise(x, e) /\ UNCHANGED cur =>
              OnlyMoves(x) /\ pc'[x] = "fail" /\ cur'[x] = cur[x]
         /\ \A task : StartSubmit(x, task) =>
              OnlyMoves(x) /\ pc'[x] = "clear" /\ cur'[x] = task
         /\ Finish(x) => OnlyMoves(x) /\ pc'[x] = "idle"
<1>1. pc \in [Threads -> Places] /\ cur \in [Threads -> Task \cup {NoTask}]
  BY DEF TypeInv, TypeOK
<1> QED
  BY <1>1 DEF Go, Raise, StartSubmit, Finish, OnlyMoves

LEMMA WriteFrame ==
  ASSUME TypeInv, NEW k \in Jobs, NEW r, Update(k, r)
  PROVE  /\ OnlyWrites(k)
         /\ row'[k].status \in Active => row[k].status \in Active \/ r.status \in Active
         /\ r.status \notin Active => row'[k].status \notin Active
BY DEF TypeInv, TypeOK, Update, OnlyWrites, Exists, Active

LEMMA RequestsBack ==
  ASSUME BackedInv, Requests
  PROVE  StatusBacked'
<1>0. PICK j \in Jobs :
      \/ CreateLocalJob(j) \/ (\E f \in Formats : YoutubeJob(j, f))
      \/ Analyze(j) \/ (\E S \in SUBSET Songs \ {{}} : Render(j, S))
      \/ Cancel(j) \/ Delete(j) \/ MoveVideo(j)
  BY DEF Requests
<1>a. TypeInv /\ Loop \in Threads
  BY LoopIsThread DEF BackedInv
<1>b. row \in [Jobs -> Row]
  BY <1>a DEF TypeInv, TypeOK
<1>1. ASSUME NEW task, task.job = j, StartSubmit(Loop, task), OnlyWrites(j),
             pc[Loop] = "idle", UNCHANGED <<queue, lost>>
      PROVE  StatusBacked'
  BY <1>1, <1>a, Frames, BusyBacks, SameQueue
<1>2. CASE CreateLocalJob(j)
  BY <1>1, <1>2, <1>b DEF CreateLocalJob, Request, AnalyzeTask, OnlyWrites
<1>3. CASE \E f \in Formats : YoutubeJob(j, f)
  BY <1>1, <1>3, <1>b DEF YoutubeJob, Request, DownloadTask, OnlyWrites
<1>4. CASE Analyze(j)
  <2>1. DownloadTask(j, "default").job = j /\ AnalyzeTask(j).job = j
    BY DEF DownloadTask, AnalyzeTask
  <2> QED
    BY <1>1, <1>4, <1>b, <2>1 DEF Analyze, Request, OnlyWrites
<1>5. CASE \E S \in SUBSET Songs \ {{}} : Render(j, S)
  BY <1>1, <1>5, <1>b DEF Render, Request, RenderTask, OnlyWrites
<1>6. CASE Cancel(j)
  BY <1>6, SameBacks DEF Cancel, threads
<1>7. CASE Delete(j)
  <2>1. OnlyMoves(Loop) /\ pc[Loop] = "idle" /\ UNCHANGED <<row, queue, lost>>
    BY <1>7, <1>a DEF Delete, Request, Go, OnlyMoves, TypeInv, TypeOK
  <2>2. ASSUME NEW t \in Threads, NEW k, Owes(t, k) PROVE Owes(t, k)'
    BY <2>1, <2>2 DEF Owes, OnlyMoves
  <2> QED
    BY <2>1, <2>2, SameQueue DEF BackedInv, StatusBacked
<1>8. CASE MoveVideo(j)
  BY <1>8, SameBacks DEF MoveVideo, threads
<1> QED
  BY <1>0, <1>2, <1>3, <1>4, <1>5, <1>6, <1>7, <1>8

LEMMA RemoveRowBacks ==
  ASSUME BackedInv, RemoveRow
  PROVE  StatusBacked'
<1>1. TypeInv /\ Loop \in Threads /\ cur[Loop].job \in Jobs
  BY TaskFields, LoopIsThread DEF BackedInv, RemoveRow
<1>2. OnlyMoves(Loop)
  BY <1>1, Frames DEF RemoveRow
<1>3. row'[cur[Loop].job].status \notin Active /\ OnlyWrites(cur[Loop].job)
  BY <1>1 DEF RemoveRow, DeleteRow, TypeInv, TypeOK, Row, Exists, Active, OnlyWrites
<1> QED
  BY <1>1, <1>2, <1>3, EndBacks DEF RemoveRow

LEMMA SubmissionBacks ==
  ASSUME BackedInv, NEW t \in Threads, Submission(t)
  PROVE  StatusBacked'
<1>0. TypeInv /\ pc[t] # "idle"
  BY DEF BackedInv, Submission, ClearCancel, MarkSubmitted, Submit
<1>a. cur[t] \in Task /\ cur[t].job \in Jobs
  BY <1>0, TaskFields
<1>1. CASE ClearCancel(t)
  <2>1. OnlyMoves(t) /\ pc'[t] = "mark" /\ cur'[t] = cur[t]
    BY <1>0, <1>1, Frames DEF ClearCancel
  <2> QED
    BY <1>0, <1>1, <2>1, BusyBacks, SameQueue DEF ClearCancel, OnlyWrites
<1>2. CASE MarkSubmitted(t)
  <2>1. OnlyMoves(t) /\ pc'[t] = "submit" /\ cur'[t] = cur[t]
    BY <1>0, <1>2, Frames DEF MarkSubmitted
  <2>2. OnlyWrites(cur[t].job)
    BY <1>0, <1>2, <1>a, WriteFrame DEF MarkSubmitted
  <2> QED
    BY <1>0, <1>2, <2>1, <2>2, BusyBacks, SameQueue DEF MarkSubmitted
<1>3. CASE Submit(t) /\ up # "up"
  <2>1. OnlyMoves(t) /\ pc'[t] = "fail" /\ cur'[t] = cur[t]
    BY <1>0, <1>3, Frames DEF Submit
  <2> QED
    BY <1>0, <1>3, <2>1, BusyBacks, SameQueue DEF Submit, OnlyWrites
<1>4. CASE Submit(t) /\ up = "up"
  <2> DEFINE p == PoolOf(cur[t])
  <2>0. PICK k \in Jobs : k = cur[t].job
    BY <1>a
  <2>1. queue \in [{"job", "dl"} -> Seq(Task)] /\ p \in {"job", "dl"}
    BY <1>0 DEF TypeInv, TypeOK, PoolOf
  <2>2. /\ queue' = [queue EXCEPT ![p] = Append(queue[p], cur[t])]
        /\ lost' = lost \ {k}
        /\ Finish(t) /\ row' = row
    BY <1>4, <2>0 DEF Submit
  <2>3. OnlyMoves(t)
    BY <1>0, <2>2, Frames
  <2>4. Queued(k)'
    <3>1. Len(queue[p]) + 1 \in DOMAIN queue'[p] /\ queue'[p][Len(queue[p]) + 1] = cur[t]
      BY <1>a, <2>1, <2>2
    <3>2. p \in DOMAIN queue'
      BY <2>1, <2>2
    <3>3. \E i \in DOMAIN queue'[p] : queue'[p][i].job = k
      BY <2>0, <3>1
    <3> QED
      BY <3>2, <3>3 DEF Queued
  <2>5. ASSUME NEW j \in Jobs, Queued(j) PROVE Queued(j)'
    <3>1. PICK q \in {"job", "dl"} : \E i \in DOMAIN queue[q] : queue[q][i].job = j
      BY <2>1, <2>5 DEF Queued
    <3>2. PICK i \in DOMAIN queue[q] : queue[q][i].job = j
      BY <3>1
    <3>3. i \in DOMAIN queue'[q] /\ queue'[q][i] = queue[q][i]
      BY <1>a, <2>1, <2>2, <3>2
    <3> QED
      BY <2>1, <2>2, <3>2, <3>3 DEF Queued
  <2>6. ASSUME NEW j \in Jobs, j # k, NEW x \in Threads, Owes(x, j) PROVE Owes(x, j)'
    BY <2>0, <2>3, <2>6 DEF Owes, OnlyMoves
  <2>7. ASSUME NEW j \in Jobs, row'[j].status \in Active
        PROVE  j \in lost' \/ Queued(j)' \/ \E x \in Threads : Owes(x, j)'
    <3>1. j \in lost \/ Queued(j) \/ \E x \in Threads : Owes(x, j)
      BY <2>2, <2>7 DEF BackedInv, StatusBacked
    <3>2. CASE j = k
      BY <2>4, <3>2
    <3>3. CASE j # k
      BY <2>2, <2>5, <2>6, <3>1, <3>3
    <3> QED
      BY <3>2, <3>3
  <2> QED
    BY <2>7 DEF StatusBacked
<1> QED
  BY <1>1, <1>2, <1>3, <1>4 DEF Submission

LEMMA TakeBacks ==
  ASSUME BackedInv, NEW w \in Workers, Take(w)
  PROVE  StatusBacked'
<1> DEFINE p == w[1]
           task == Head(queue[p])
<1>1. TypeInv /\ w \in Threads /\ p \in {"job", "dl"} /\ queue[p] \in Seq(Task)
      /\ queue \in [{"job", "dl"} -> Seq(Task)] /\ queue[p] # <<>>
  BY PoolOfWorker, LoopIsThread DEF BackedInv, TypeInv, TypeOK, Take
<1>2. task \in Task /\ task.op \in {"download", "analyze", "render"}
  <2>1. task \in Task
    BY <1>1
  <2> QED
    BY <2>1 DEF Task
<1>3. FirstStep(task.op) \notin {"idle", "clean", "remove"}
  BY <1>2 DEF FirstStep
<1>4. /\ OnlyMoves(w) /\ pc'[w] = FirstStep(task.op) /\ cur'[w] = task
      /\ pc[w] = "idle" /\ row' = row /\ lost' = lost
      /\ queue' = [queue EXCEPT ![p] = Tail(queue[p])]
  BY <1>1 DEF Take, Go, OnlyMoves, TypeInv, TypeOK
<1>5. ASSUME NEW j \in Jobs \ {task.job}, Queued(j) PROVE Queued(j)'
  <2>1. PICK q \in {"job", "dl"} : \E i \in DOMAIN queue[q] : queue[q][i].job = j
    BY <1>1, <1>5 DEF Queued
  <2>2. PICK i \in DOMAIN queue[q] : queue[q][i].job = j
    BY <2>1
  <2>3. CASE q # p
    BY <1>1, <1>4, <2>2, <2>3 DEF Queued
  <2>4. CASE q = p
    <3>1. i # 1 /\ i \in 1..Len(queue[p])
      BY <1>1, <1>5, <2>2, <2>4
    <3>2. i - 1 \in DOMAIN Tail(queue[p]) /\ Tail(queue[p])[i - 1] = queue[p][i]
      BY <1>1, <3>1
    <3>3. queue'[p] = Tail(queue[p]) /\ p \in DOMAIN queue'
      BY <1>1, <1>4
    <3> QED
      BY <2>2, <2>4, <3>2, <3>3 DEF Queued
  <2> QED
    BY <2>3, <2>4
<1> QED
  BY <1>1, <1>3, <1>4, <1>5, BusyBacks DEF OnlyWrites

LEMMA WorkBacks ==
  ASSUME BackedInv, NEW w \in Workers, Work(w)
  PROVE  StatusBacked'
<1>a. TypeInv /\ w \in Threads /\ pc[w] # "idle"
  BY LoopIsThread DEF BackedInv, Work, Download, RunAnalyze, RunRender,
     FetchLine, FetchEnd, FetchDone, Landed, ReadJob, MarkAnalyzing, Sample, DecodeWrite,
     DecodeCancelled, DecodeEnd, ListFrames, Detect, SaveAnalysis, LoadJob, MarkRendering,
     OpenFrames, ComposeSong, ComposeDone, ChooseTarget, MoveOutput, RecordRender,
     CleanWorkdir, Fail, Running, Step
<1>b. cur[w].job \in Jobs /\ row \in [Jobs -> Row]
  BY <1>a, TaskFields DEF TypeInv, TypeOK
<1>c. UNCHANGED <<lost, queue>>
  BY DEF Work, Download, RunAnalyze, RunRender,
     FetchLine, FetchEnd, FetchDone, Landed, ReadJob, MarkAnalyzing, Sample, DecodeWrite,
     DecodeCancelled, DecodeEnd, ListFrames, Detect, SaveAnalysis, LoadJob, MarkRendering,
     OpenFrames, ComposeSong, ComposeDone, ChooseTarget, MoveOutput, RecordRender,
     CleanWorkdir, Fail, Running, Step
<1>1. ASSUME NEW p \in Places \ {"idle", "clean", "remove"}, Go(w, p), UNCHANGED <<row, cur>>
      PROVE  StatusBacked'
  <2>1. OnlyMoves(w) /\ pc'[w] = p /\ cur'[w] = cur[w]
    BY <1>1, <1>a, Frames
  <2> QED
    BY <1>1, <1>a, <1>c, <2>1, BusyBacks, SameQueue DEF OnlyWrites
<1>2. ASSUME NEW e, Raise(w, e), UNCHANGED <<row, cur>>
      PROVE  StatusBacked'
  BY <1>1, <1>2 DEF Raise, Places
<1>3. ASSUME NEW p \in Places \ {"idle", "clean", "remove"}, Emit(w, p), UNCHANGED <<row, cur>>
      PROVE  StatusBacked'
  BY <1>1, <1>2, <1>3 DEF Emit
<1>4. ASSUME NEW p \in Places \ {"idle", "clean", "remove"}, Go(w, p), UNCHANGED cur,
             NEW r, Update(cur[w].job, r)
      PROVE  StatusBacked'
  <2>1. OnlyMoves(w) /\ pc'[w] = p /\ cur'[w] = cur[w]
    BY <1>4, <1>a, Frames
  <2>2. OnlyWrites(cur[w].job)
    BY <1>4, <1>a, <1>b, WriteFrame
  <2> QED
    BY <1>4, <1>a, <1>c, <2>1, <2>2, BusyBacks, SameQueue
<1>5. ASSUME OnlyMoves(w), NEW r, r.status \notin Active, Update(cur[w].job, r)
      PROVE  StatusBacked'
  BY <1>5, <1>a, <1>b, <1>c, WriteFrame, EndBacks
<1>6. CASE FetchLine(w) \/ FetchEnd(w) \/ FetchDone(w)
  BY <1>1, <1>2, <1>6, <1>c, SameBacks
  DEF FetchLine, FetchEnd, FetchDone, Running, Places
<1>7. CASE Landed(w)
  <2>1. OnlyMoves(w) /\ pc'[w] = "clear" /\ cur'[w].job = cur[w].job
    BY <1>7, <1>a, Frames DEF Landed, AnalyzeTask
  <2>2. OnlyWrites(cur[w].job)
    BY <1>7, <1>a, <1>b, WriteFrame DEF Landed
  <2> QED
    BY <1>a, <1>c, <2>1, <2>2, BusyBacks, SameQueue
<1>8. CASE ReadJob(w)
  <2>1. CASE ~Exists(cur[w].job) /\ Finish(w) /\ row' = row
    <3>1. row'[cur[w].job].status \notin Active
      BY <1>b, <2>1 DEF Exists, Row, Statuses, Active
    <3>2. OnlyMoves(w)
      BY <1>a, <2>1, Frames
    <3> QED
      BY <1>a, <1>c, <2>1, <3>1, <3>2, EndBacks DEF OnlyWrites
  <2>2. CASE (Raise(w, "source") \/ Go(w, "start")) /\ UNCHANGED <<row, cur>>
    BY <1>1, <1>2, <2>2 DEF Places
  <2> QED
    BY <1>8, <2>1, <2>2 DEF ReadJob
<1>9. CASE MarkAnalyzing(w) \/ MarkRendering(w)
  BY <1>4, <1>9 DEF MarkAnalyzing, MarkRendering, Running, Places
<1>10. CASE Sample(w) \/ DecodeCancelled(w) \/ DecodeEnd(w) \/ ListFrames(w) \/ Detect(w)
  BY <1>1, <1>2, <1>3, <1>10
  DEF Sample, DecodeCancelled, DecodeEnd, ListFrames, Detect, Running, Places
<1>11. CASE DecodeWrite(w)
  BY <1>11, <1>c, SameBacks DEF DecodeWrite, Running
<1>12. CASE SaveAnalysis(w)
  <2>1. OnlyMoves(w)
    BY <1>12, <1>a, Frames DEF SaveAnalysis
  <2>2. [row[cur[w].job] EXCEPT !.status = "analyzed", !.analysis = mem[w].cover].status
          \notin Active
    BY <1>b DEF Row, Active
  <2> QED
    BY <1>5, <1>12, <2>1, <2>2 DEF SaveAnalysis
<1>13. CASE LoadJob(w) \/ OpenFrames(w) \/ ComposeDone(w) \/ ChooseTarget(w) \/ MoveOutput(w)
  BY <1>1, <1>2, <1>3, <1>13
  DEF LoadJob, OpenFrames, ComposeDone, ChooseTarget, MoveOutput, Running, Places
<1>14. CASE ComposeSong(w)
  BY <1>2, <1>14, <1>c, SameBacks DEF ComposeSong, Running
<1>15. CASE RecordRender(w)
  <2>1. OnlyMoves(w)
    BY <1>15, <1>a, Frames DEF RecordRender, Running
  <2>2. [row[cur[w].job] EXCEPT !.status = "rendered", !.out = mem[w].target,
                                !.render = cur[w].songs].status \notin Active
    BY <1>b DEF Row, Active
  <2> QED
    BY <1>5, <1>15, <2>1, <2>2 DEF RecordRender
<1>16. CASE CleanWorkdir(w)
  <2>1. ASSUME NEW t \in Threads, NEW j, Owes(t, j) PROVE Owes(t, j)'
    <3>1. OnlyMoves(w) /\ pc[w] = "clean"
      BY <1>16, <1>a, Frames DEF CleanWorkdir, Step
    <3> QED
      BY <2>1, <3>1 DEF Owes, OnlyMoves
  <2> QED
    BY <1>16, <1>c, <2>1, SameQueue DEF CleanWorkdir, BackedInv, StatusBacked
<1>17. CASE Fail(w)
  <2>1. OnlyMoves(w)
    BY <1>17, <1>a, Frames DEF Fail
  <2>2. Failed(cur[w].job, mem[w].outcome).status \notin Active
    BY <1>b DEF Failed, Row, Active
  <2> QED
    BY <1>5, <1>17, <2>1, <2>2 DEF Fail
<1> QED
  BY <1>6, <1>7, <1>8, <1>9, <1>10, <1>11, <1>12, <1>13, <1>14, <1>15, <1>16, <1>17
  DEF Work, Download, RunAnalyze, RunRender

LEMMA SurroundingsBack ==
  ASSUME BackedInv,
         (\E j \in Jobs : OrphanWrites(j)) \/ Shutdown \/ Kill \/ Exit \/ Restart
  PROVE  StatusBacked'
<1>1. CASE (\E j \in Jobs : OrphanWrites(j)) \/ Restart
  BY <1>1, SameBacks DEF OrphanWrites, Restart, threads
<1>2. CASE Shutdown
  BY <1>2 DEF Shutdown, threads, BackedInv, StatusBacked, Owes
<1>3. CASE ProcessEnds
  BY <1>3 DEF ProcessEnds, BackedInv, StatusBacked
<1> QED
  BY <1>1, <1>2, <1>3 DEF Kill, Exit

LEMMA InitBacked == Init => BackedInv
<1>1. Init => StatusBacked
  BY DEF Init, StatusBacked, NoRow, Active
<1> QED
  BY <1>1, InitType DEF BackedInv

LEMMA NextBacked == BackedInv /\ [Next]_vars => BackedInv'
<1> SUFFICES ASSUME BackedInv, [Next]_vars PROVE StatusBacked'
  BY NextType DEF BackedInv
<1>1. CASE Requests
  BY <1>1, RequestsBack
<1>2. CASE RemoveRow
  BY <1>2, RemoveRowBacks
<1>3. CASE \E t \in Threads : Submission(t)
  BY <1>3, SubmissionBacks
<1>4. CASE \E w \in Workers : Take(w) \/ Work(w)
  BY <1>4, TakeBacks, WorkBacks
<1>5. CASE (\E j \in Jobs : OrphanWrites(j)) \/ Shutdown \/ Kill \/ Exit \/ Restart
  BY <1>5, SurroundingsBack
<1>6. CASE UNCHANGED vars
  BY <1>6, SameBacks DEF vars, threads
<1> QED
  BY <1>1, <1>2, <1>3, <1>4, <1>5, <1>6 DEF Next

\* A job whose status makes the user wait always has a task in a pool or a
\* thread that will write its next status, unless the process was stopped
\* under it, whatever handlers and runs interleave (runner.submit_*, _run_*).
THEOREM EveryStatusBacked == Spec => []StatusBacked
<1>1. BackedInv => StatusBacked
  BY DEF BackedInv
<1> QED
  BY <1>1, InitBacked, NextBacked, PTL DEF Spec

-----------------------------------------------------------------------------
(* Deleted rows *)

LEMMA DeletedStays ==
  ASSUME TypeInv, [Next]_vars, NEW j \in Jobs, row[j].status = "deleted"
  PROVE  row'[j] = row[j]
<1>1. row \in [Jobs -> Row] /\ ~Exists(j)
  BY DEF TypeInv, TypeOK, Exists
<1>2. ASSUME NEW k, NEW r, Update(k, r) PROVE row'[j] = row[j]
  BY <1>1, <1>2 DEF Update
<1>3. CASE Requests
  BY <1>1, <1>3
  DEF Requests, CreateLocalJob, YoutubeJob, Analyze, Render, Cancel, Delete, MoveVideo
<1>4. CASE RemoveRow
  BY <1>1, <1>4 DEF RemoveRow, DeleteRow
<1>5. ASSUME NEW t \in Threads, Submission(t) PROVE row'[j] = row[j]
  BY <1>2, <1>5 DEF Submission, ClearCancel, MarkSubmitted, Submit
<1>6. ASSUME NEW w \in Workers, Take(w) PROVE row'[j] = row[j]
  BY <1>6 DEF Take
<1>7. ASSUME NEW w \in Workers, Work(w) PROVE row'[j] = row[j]
  BY <1>2, <1>7 DEF Work, Download, RunAnalyze, RunRender,
     FetchLine, FetchEnd, FetchDone, Landed, ReadJob, MarkAnalyzing, Sample, DecodeWrite,
     DecodeCancelled, DecodeEnd, ListFrames, Detect, SaveAnalysis, LoadJob, MarkRendering,
     OpenFrames, ComposeSong, ComposeDone, ChooseTarget, MoveOutput, RecordRender,
     CleanWorkdir, Fail
<1>8. CASE (\E k \in Jobs : OrphanWrites(k)) \/ Shutdown \/ Kill \/ Exit \/ Restart
  BY <1>8 DEF OrphanWrites, Shutdown, Kill, Exit, ProcessEnds, Restart
<1>9. CASE UNCHANGED vars
  BY <1>9 DEF vars
<1> QED
  BY <1>3, <1>4, <1>5, <1>6, <1>7, <1>8, <1>9 DEF Next

\* A deleted row stays deleted, whatever the runs of the job still write
\* (db.update_job, main.delete_job).
THEOREM DeletedForEver == Spec => NoResurrection
<1>1. TypeInv /\ [Next]_vars =>
        \A j \in Jobs : row[j].status = "deleted" => row'[j].status = "deleted"
  BY DeletedStays
<1>2. TypeInv /\ [Next]_vars =>
        [\A j \in Jobs : row[j].status = "deleted" => row'[j].status = "deleted"]_vars
  BY <1>1
<1> QED
  BY <1>2, InitType, NextType, PTL DEF Spec, NoResurrection

-----------------------------------------------------------------------------
(* A cancel is obeyed *)

\* What downloads is about links: on the threads, in the queues, and where a
\* thread of a pool submits the analysis that follows.
Links == \A t \in Threads : cur[t].op = "download" => cur[t].job \in UrlJobs
QueuedLinks == \A p \in {"job", "dl"} : \A i \in DOMAIN queue[p] :
  queue[p][i].op = "download" => queue[p][i].job \in UrlJobs
Fetches == \A w \in Workers :
  /\ pc[w] \in {"fetch", "fetched", "landed"} => cur[w].op = "download"
  /\ pc[w] = "clear" => cur[w].job \in UrlJobs

\* A handler clears the flag of a job that the user has just asked for.
LoopClears == pc[Loop] = "clear" => cur[Loop].job \notin asked

FlagStays == asked \cap FileJobs \subseteq cancelled

CancelSafe == Links /\ QueuedLinks /\ Fetches /\ LoopClears /\ FlagStays
CancelInv  == TypeInv /\ CancelSafe

\* Thread t moves, to a place where what is said of it holds.
LEMMA MoveIsSafe ==
  ASSUME CancelInv, NEW t \in Threads, OnlyMoves(t), UNCHANGED <<queue, asked, cancelled>>,
         cur'[t].op = "download" => cur'[t].job \in UrlJobs,
         t \in Workers => /\ pc'[t] \in {"fetch", "fetched", "landed"} => cur'[t].op = "download"
                          /\ pc'[t] = "clear" => cur'[t].job \in UrlJobs,
         t = Loop => pc'[t] # "clear"
  PROVE  CancelSafe'
<1> USE DEF CancelInv, CancelSafe
<1>1. Links'
  BY DEF Links, OnlyMoves
<1>2. QueuedLinks' /\ FlagStays'
  BY DEF QueuedLinks, FlagStays
<1>3. Fetches'
  BY LoopIsThread DEF Fetches, OnlyMoves
<1>4. LoopClears'
  BY LoopIsThread DEF LoopClears, OnlyMoves
<1> QED
  BY <1>1, <1>2, <1>3, <1>4

LEMMA RequestsAreSafe ==
  ASSUME CancelInv, Requests
  PROVE  CancelSafe'
<1> USE DEF CancelInv, CancelSafe
<1>0. PICK j \in Jobs :
      \/ CreateLocalJob(j) \/ (\E f \in Formats : YoutubeJob(j, f))
      \/ Analyze(j) \/ (\E S \in SUBSET Songs \ {{}} : Render(j, S))
      \/ Cancel(j) \/ Delete(j) \/ MoveVideo(j)
  BY DEF Requests
<1>a. Loop \in Threads /\ Loop \notin Workers
  BY LoopIsThread DEF Workers, ProcWorkers, DownWorkers, Loop
<1>b. pc \in [Threads -> Places] /\ cur \in [Threads -> Task \cup {NoTask}]
  BY DEF TypeInv, TypeOK
<1>1. ASSUME NEW task, task.job = j, task.op = "download" => j \in UrlJobs,
             StartSubmit(Loop, task), UNCHANGED <<queue, cancelled>>, asked' = asked \ {j}
      PROVE  CancelSafe'
  <2>1. OnlyMoves(Loop) /\ pc'[Loop] = "clear" /\ cur'[Loop] = task
    BY <1>a, <1>1, Frames
  <2>2. Links' /\ QueuedLinks' /\ Fetches'
    BY <1>a, <1>1, <2>1, LoopIsThread DEF Links, QueuedLinks, Fetches, OnlyMoves
  <2>3. LoopClears' /\ FlagStays'
    BY <1>1, <2>1 DEF LoopClears, FlagStays
  <2> QED
    BY <2>2, <2>3
<1>2. CASE CreateLocalJob(j)
  BY <1>1, <1>2 DEF CreateLocalJob, AnalyzeTask
<1>3. CASE \E f \in Formats : YoutubeJob(j, f)
  BY <1>1, <1>3 DEF YoutubeJob, DownloadTask
<1>4. CASE Analyze(j)
  <2>1. /\ DownloadTask(j, "default").job = j /\ AnalyzeTask(j).job = j
        /\ AnalyzeTask(j).op = "analyze"
    BY DEF DownloadTask, AnalyzeTask
  <2> QED
    BY <1>1, <1>4, <2>1 DEF Analyze, NeedsDownload
<1>5. CASE \E S \in SUBSET Songs \ {{}} : Render(j, S)
  BY <1>1, <1>5 DEF Render, RenderTask
<1>6. CASE Cancel(j)
  BY <1>6 DEF Cancel, Request, threads, Links, QueuedLinks, Fetches, LoopClears, FlagStays
<1>7. CASE Delete(j)
  <2>1. /\ OnlyMoves(Loop) /\ pc'[Loop] = "remove" /\ cur'[Loop] = AnalyzeTask(j)
        /\ UNCHANGED queue
        /\ cancelled' = cancelled \cup {j} /\ asked' = asked \cup {j}
    BY <1>a, <1>b, <1>7 DEF Delete, Go, OnlyMoves
  <2>2. Links' /\ QueuedLinks' /\ Fetches'
    BY <1>a, <2>1, LoopIsThread DEF Links, QueuedLinks, Fetches, OnlyMoves, AnalyzeTask
  <2>3. LoopClears' /\ FlagStays'
    BY <2>1 DEF LoopClears, FlagStays
  <2> QED
    BY <2>2, <2>3
<1>8. CASE MoveVideo(j)
  BY <1>8 DEF MoveVideo, threads, Links, QueuedLinks, Fetches, LoopClears, FlagStays
<1> QED
  BY <1>0, <1>2, <1>3, <1>4, <1>5, <1>6, <1>7, <1>8

LEMMA SubmissionIsSafe ==
  ASSUME CancelInv, (\E t \in Threads : Submission(t)) \/ RemoveRow
  PROVE  CancelSafe'
<1> USE DEF CancelInv, CancelSafe
<1>a. Loop \in Threads /\ Loop \notin Workers /\ Threads = {Loop} \cup Workers
  BY LoopIsThread DEF Threads, Workers, ProcWorkers, DownWorkers, Loop
<1>b. TypeInv /\ cur \in [Threads -> Task \cup {NoTask}]
  BY DEF TypeInv, TypeOK
<1>c. ASSUME NEW t \in Threads, Finish(t)
      PROVE  OnlyMoves(t) /\ pc'[t] = "idle" /\ cur'[t] = NoTask /\ cur'[t].op = "none"
  BY <1>b, <1>c, Frames DEF Finish, NoTask
<1>1. CASE RemoveRow
  BY <1>1, <1>a, <1>c, MoveIsSafe DEF RemoveRow
<1>2. ASSUME NEW t \in Threads, ClearCancel(t) PROVE CancelSafe'
  <2>1. OnlyMoves(t) /\ pc'[t] = "mark" /\ cur'[t] = cur[t]
        /\ UNCHANGED <<queue, asked>> /\ cancelled' = cancelled \ {cur[t].job}
    BY <1>b, <1>2, Frames DEF ClearCancel, Cleared
  <2>2. Links' /\ QueuedLinks' /\ Fetches' /\ LoopClears'
    BY <1>a, <2>1 DEF Links, QueuedLinks, Fetches, LoopClears, OnlyMoves
  <2>3. cur[t].job \notin asked \cap FileJobs
    BY <1>a, <1>2, JobsAssumption DEF ClearCancel, LoopClears, Fetches
  <2> QED
    BY <2>1, <2>2, <2>3 DEF FlagStays
<1>3. ASSUME NEW t \in Threads, MarkSubmitted(t) PROVE CancelSafe'
  <2>1. OnlyMoves(t) /\ pc'[t] = "submit" /\ cur'[t] = cur[t]
    BY <1>b, <1>3, Frames DEF MarkSubmitted
  <2> QED
    BY <1>3, <2>1, MoveIsSafe DEF MarkSubmitted, Links
<1>4. ASSUME NEW t \in Threads, Submit(t), up # "up" PROVE CancelSafe'
  <2>1. OnlyMoves(t) /\ pc'[t] = "fail" /\ cur'[t] = cur[t]
    BY <1>b, <1>4, Frames DEF Submit
  <2> QED
    BY <1>4, <2>1, MoveIsSafe DEF Submit, Links
<1>5. ASSUME NEW t \in Threads, Submit(t), up = "up" PROVE CancelSafe'
  <2> DEFINE p == PoolOf(cur[t])
  <2>1. /\ queue' = [queue EXCEPT ![p] = Append(queue[p], cur[t])]
        /\ Finish(t) /\ UNCHANGED <<asked, cancelled>>
    BY <1>5 DEF Submit
  <2>2. queue \in [{"job", "dl"} -> Seq(Task)] /\ p \in {"job", "dl"} /\ cur[t] \in Task
    BY <1>b, <1>5, TaskFields DEF TypeInv, TypeOK, PoolOf, Submit
  <2>3. OnlyMoves(t) /\ pc'[t] = "idle" /\ cur'[t].op = "none"
    BY <1>c, <2>1
  <2>4. Links' /\ Fetches' /\ LoopClears' /\ FlagStays'
    BY <1>a, <2>1, <2>3 DEF Links, Fetches, LoopClears, FlagStays, OnlyMoves
  <2>5. QueuedLinks'
    <3> SUFFICES ASSUME NEW q \in {"job", "dl"}, NEW i \in DOMAIN queue'[q],
                        queue'[q][i].op = "download"
                 PROVE  queue'[q][i].job \in UrlJobs
      BY DEF QueuedLinks
    <3>1. \/ i \in DOMAIN queue[q] /\ queue'[q][i] = queue[q][i]
          \/ queue'[q][i] = cur[t]
      BY <2>1, <2>2
    <3> QED
      BY <3>1 DEF QueuedLinks, Links
  <2> QED
    BY <2>4, <2>5
<1> QED
  BY <1>1, <1>2, <1>3, <1>4, <1>5 DEF Submission

LEMMA TakeIsSafe ==
  ASSUME CancelInv, NEW w \in Workers, Take(w)
  PROVE  CancelSafe'
<1> USE DEF CancelInv, CancelSafe
<1>0. /\ w \in Threads /\ w # Loop /\ w[1] \in {"job", "dl"}
      /\ queue \in [{"job", "dl"} -> Seq(Task)] /\ queue[w[1]] # <<>>
  BY LoopIsThread, PoolOfWorker DEF Take, TypeInv, TypeOK, Workers, ProcWorkers, DownWorkers, Loop
<1> DEFINE q == queue[w[1]]  task == Head(q)
<1>1. q \in Seq(Task) /\ q # <<>>
  BY <1>0
<1>2. 1 \in DOMAIN q /\ task = q[1] /\ task.op \in {"download", "analyze", "render"}
  <2>1. task \in Task
    BY <1>1
  <2> QED
    BY <1>1, <2>1 DEF Task
<1>3. /\ OnlyMoves(w) /\ pc'[w] = FirstStep(task.op) /\ cur'[w] = task
      /\ queue' = [queue EXCEPT ![w[1]] = Tail(q)]
      /\ UNCHANGED <<asked, cancelled>>
  BY <1>0 DEF Take, Go, OnlyMoves, TypeInv, TypeOK
<1>4. task.op = "download" => task.job \in UrlJobs
  BY <1>0, <1>2 DEF QueuedLinks
<1>5. /\ pc'[w] \in {"fetch", "read", "load"}
      /\ pc'[w] = "fetch" => task.op = "download"
  BY <1>2, <1>3 DEF FirstStep
<1>6. Links' /\ Fetches' /\ LoopClears' /\ FlagStays'
  <2> HIDE DEF task
  <2> QED
    BY <1>0, <1>3, <1>4, <1>5, LoopIsThread DEF Links, Fetches, LoopClears, FlagStays, OnlyMoves
<1>7. QueuedLinks'
  <2> SUFFICES ASSUME NEW p \in {"job", "dl"}, NEW i \in DOMAIN queue'[p],
                      queue'[p][i].op = "download"
               PROVE  queue'[p][i].job \in UrlJobs
    BY DEF QueuedLinks
  <2>1. CASE p # w[1]
    BY <1>0, <1>3, <2>1 DEF QueuedLinks
  <2>2. CASE p = w[1]
    <3>1. queue'[p] = Tail(q)
      BY <1>0, <1>3, <2>2
    <3>2. i + 1 \in DOMAIN q /\ Tail(q)[i] = q[i + 1]
      <4> HIDE DEF q
      <4> QED
        BY <1>1, <3>1
    <3> QED
      BY <2>2, <3>1, <3>2 DEF QueuedLinks
  <2> QED
    BY <2>1, <2>2
<1> QED
  BY <1>6, <1>7

LEMMA WorkIsSafe ==
  ASSUME CancelInv, NEW w \in Workers, Work(w)
  PROVE  CancelSafe'
<1> USE DEF CancelInv, CancelSafe
<1>a. w \in Threads /\ w # Loop /\ TypeInv
  BY LoopIsThread DEF Workers, ProcWorkers, DownWorkers, Loop
<1>b. UNCHANGED <<queue, asked, cancelled>>
  BY DEF Work, Download, RunAnalyze, RunRender, Running, Step,
     FetchLine, FetchEnd, FetchDone, Landed, ReadJob, MarkAnalyzing, Sample, DecodeWrite,
     DecodeCancelled, DecodeEnd, ListFrames, Detect, SaveAnalysis, LoadJob, MarkRendering,
     OpenFrames, ComposeSong, ComposeDone, ChooseTarget, MoveOutput, RecordRender,
     CleanWorkdir, Fail
<1>c. pc \in [Threads -> Places] /\ cur \in [Threads -> Task \cup {NoTask}]
  BY DEF TypeInv, TypeOK
\* The run goes on, and what it is doing is no download ...
<1>1. ASSUME OnlyMoves(w), cur'[w] = cur[w],
             pc'[w] \notin {"fetch", "fetched", "landed", "clear"}
      PROVE  CancelSafe'
  BY <1>1, <1>a, <1>b, MoveIsSafe DEF Links
\* ... or still the download that it was ...
<1>2. ASSUME OnlyMoves(w), cur'[w] = cur[w], pc[w] \in {"fetch", "fetched"},
             pc'[w] \in {"fetch", "fetched", "landed", "fail"}
      PROVE  CancelSafe'
  BY <1>2, <1>a, <1>b, MoveIsSafe DEF Links, Fetches
\* ... or it ends.
<1>3. ASSUME Finish(w) PROVE CancelSafe'
  <2>1. OnlyMoves(w) /\ pc'[w] = "idle" /\ cur'[w].op = "none"
    BY <1>3, <1>a, <1>c, Frames DEF Finish, NoTask
  <2> QED
    BY <2>1, <1>a, <1>b, MoveIsSafe
<1>4. CASE Download(w)
  <2>1. CASE Landed(w)
    <3>1. OnlyMoves(w) /\ pc'[w] = "clear" /\ cur'[w] = AnalyzeTask(cur[w].job)
      BY <1>a, <2>1, Frames DEF Landed
    <3>2. cur[w].job \in UrlJobs
      BY <1>a, <2>1 DEF Landed, Step, Fetches, Links
    <3> QED
      BY <1>a, <1>b, <3>1, <3>2, MoveIsSafe DEF AnalyzeTask
  <2>2. CASE FetchLine(w) \/ FetchEnd(w) \/ FetchDone(w)
    <3>1. OnlyMoves(w) /\ cur'[w] = cur[w] /\ pc[w] \in {"fetch", "fetched"}
          /\ pc'[w] \in {"fetch", "fetched", "landed", "fail"}
      BY <1>a, <1>c, <2>2 DEF FetchLine, FetchEnd, FetchDone, Running, Step, Raise, Go, OnlyMoves
    <3> QED
      BY <1>2, <3>1
  <2> QED
    BY <1>4, <2>1, <2>2 DEF Download
<1>5. CASE RunAnalyze(w) \/ RunRender(w) \/ Fail(w)
  <2>1. \/ Finish(w)
        \/ /\ OnlyMoves(w) /\ cur'[w] = cur[w]
           /\ pc'[w] \notin {"fetch", "fetched", "landed", "clear"}
    BY <1>a, <1>c, <1>5 DEF RunAnalyze, RunRender, Running, Step, Emit, Raise, Go, OnlyMoves,
       ReadJob, MarkAnalyzing, Sample, DecodeWrite, DecodeCancelled, DecodeEnd, ListFrames,
       Detect, SaveAnalysis, LoadJob, MarkRendering, OpenFrames, ComposeSong, ComposeDone,
       ChooseTarget, MoveOutput, RecordRender, CleanWorkdir, Fail
  <2> QED
    BY <1>1, <1>3, <2>1
<1> QED
  BY <1>4, <1>5 DEF Work

LEMMA SurroundingsAreSafe ==
  ASSUME CancelInv,
         (\E j \in Jobs : OrphanWrites(j)) \/ Shutdown \/ Kill \/ Exit \/ Restart \/ UNCHANGED vars
  PROVE  CancelSafe'
<1> USE DEF CancelInv, CancelSafe
<1>1. ASSUME UNCHANGED <<pc, cur, asked, cancelled>>,
             UNCHANGED queue \/ queue' = [p \in DOMAIN queue |-> <<>>]
      PROVE  CancelSafe'
  <2>1. QueuedLinks'
    BY <1>1 DEF QueuedLinks, TypeInv, TypeOK
  <2> QED
    BY <1>1, <2>1 DEF Links, Fetches, LoopClears, FlagStays
<1>2. CASE (\E j \in Jobs : OrphanWrites(j)) \/ Shutdown \/ Restart \/ UNCHANGED vars
  BY <1>1, <1>2 DEF OrphanWrites, Shutdown, Restart, vars, threads
<1>3. CASE ProcessEnds
  <2>1. /\ pc' = [t \in Threads |-> "idle"] /\ cur' = [t \in Threads |-> NoTask]
        /\ queue' = [p \in DOMAIN queue |-> <<>>] /\ asked' = {}
        /\ DOMAIN queue = {"job", "dl"}
    BY <1>3 DEF ProcessEnds, TypeInv, TypeOK
  <2> QED
    BY <2>1, LoopIsThread DEF Links, QueuedLinks, Fetches, LoopClears, FlagStays, NoTask
<1> QED
  BY <1>2, <1>3 DEF Kill, Exit

LEMMA InitCancel == Init => CancelInv
<1> SUFFICES ASSUME Init PROVE CancelSafe
  BY InitType DEF CancelInv
<1> QED
  BY LoopIsThread DEF Init, CancelSafe, Links, QueuedLinks, Fetches, LoopClears, FlagStays, NoTask

LEMMA NextCancel == CancelInv /\ [Next]_vars => CancelInv'
<1> SUFFICES ASSUME CancelInv, [Next]_vars PROVE CancelSafe'
  BY NextType DEF CancelInv
<1> QED
  BY RequestsAreSafe, SubmissionIsSafe, TakeIsSafe, WorkIsSafe, SurroundingsAreSafe DEF Next

\* A run whose job is cancelled does not get past its next progress report.
LEMMA ReportStops ==
  ASSUME TypeInv, [Next]_vars, NEW w \in ProcWorkers, cur[w].job \in cancelled
  PROVE  ~PassesEmit(w)
<1> SUFFICES ASSUME PassesEmit(w) PROVE FALSE
  OBVIOUS
<1>0. /\ w \in Threads /\ w \in Workers /\ w # Loop
      /\ pc[w] \in {"sample", "detect", "compose"} /\ pc'[w] \notin {"fail", "idle"}
      /\ pc'[w] # pc[w] \/ mem'[w] # mem[w]
  BY LoopIsThread DEF PassesEmit, Workers, ProcWorkers, Loop
<1>1. pc \in [Threads -> Places] /\ mem \in [Threads -> Memory]
  BY DEF TypeInv, TypeOK
<1>2. CASE Requests \/ RemoveRow
  BY <1>0, <1>1, <1>2 DEF Requests, CreateLocalJob, YoutubeJob, Analyze, Render, Cancel, Delete,
     MoveVideo, StartSubmit, RemoveRow, Finish, Go, threads
<1>3. ASSUME NEW t \in Threads, Submission(t) PROVE FALSE
  BY <1>0, <1>1, <1>3 DEF Submission, ClearCancel, MarkSubmitted, Submit, Finish, Raise, Go
<1>4. ASSUME NEW x \in Workers, Take(x) \/ Work(x), x # w PROVE FALSE
  BY <1>0, <1>1, <1>4, LoopIsThread DEF Take, Work, Download, RunAnalyze, RunRender, Running, Step,
     Emit, Raise, Go, Finish, StartSubmit, FetchLine, FetchEnd, FetchDone, Landed, ReadJob,
     MarkAnalyzing, Sample, DecodeWrite, DecodeCancelled, DecodeEnd, ListFrames, Detect,
     SaveAnalysis, LoadJob, MarkRendering, OpenFrames, ComposeSong, ComposeDone, ChooseTarget,
     MoveOutput, RecordRender, CleanWorkdir, Fail
<1>5. CASE Take(w) \/ Work(w)
  <2>1. Sample(w) \/ Detect(w) \/ ComposeSong(w) \/ ComposeDone(w)
    BY <1>0, <1>5 DEF Take, Work, Download, RunAnalyze, RunRender, Running, Step,
     FetchLine, FetchEnd, FetchDone, Landed, ReadJob,
     MarkAnalyzing, Sample, DecodeWrite, DecodeCancelled, DecodeEnd, ListFrames, Detect,
     SaveAnalysis, LoadJob, MarkRendering, OpenFrames, ComposeSong, ComposeDone, ChooseTarget,
     MoveOutput, RecordRender, CleanWorkdir, Fail
  <2>2. Raise(w, "cancelled") \/ Raise(w, "engine")
    BY <2>1 DEF Sample, Detect, ComposeSong, ComposeDone, Emit
  <2> QED
    BY <1>0, <1>1, <2>2 DEF Raise, Go
<1>6. CASE (\E j \in Jobs : OrphanWrites(j)) \/ Shutdown \/ Restart \/ UNCHANGED vars
  BY <1>0, <1>6 DEF OrphanWrites, Shutdown, Restart, vars, threads
<1>7. CASE Kill \/ Exit
  BY <1>0, <1>7 DEF Kill, Exit, ProcessEnds
<1> QED
  BY <1>2, <1>3, <1>4, <1>5, <1>6, <1>7 DEF Next

\* Once the last word on a local job is to cancel or delete it, no run of it
\* gets past its next progress report (runner.request_cancel, _clear_cancel,
\* and the emit of each run): the flag is cleared by handlers that were asked
\* for the job later, and by downloads, which are of links.
THEOREM CancelStopsRuns == Spec => CancelObeyed
<1>1. CancelInv /\ [Next]_vars => [ObeysCancel(FileJobs)]_vars
  <2> SUFFICES ASSUME CancelInv, [Next]_vars,
                      NEW w \in ProcWorkers, cur[w].job \in asked \cap FileJobs
               PROVE  ~PassesEmit(w)
    BY DEF ObeysCancel
  <2>1. cur[w].job \in cancelled /\ TypeInv
    BY DEF CancelInv, CancelSafe, FlagStays
  <2> QED
    BY <2>1, ReportStops
<1> QED
  BY <1>1, InitCancel, NextCancel, PTL DEF Spec, CancelObeyed

-----------------------------------------------------------------------------
(* The stages and the work in hand *)

\* The work in hand for the other jobs stays what it is.
OnlyHands(k) == \A j \in Jobs \ {k} : InHand(j)' <=> InHand(j)

\* The stage of job k stays, or moves between stages of a job that is there.
Lawful(k) == Stage(k)' = Stage(k) \/ {Stage(k)', Stage(k)} \subseteq Life!Existing

LEMMA StagesAre ==
  ASSUME TypeInv, NEW j \in Jobs
  PROVE  /\ Stage(j) \in Life!Stages
         /\ Exists(j) <=> Stage(j) \in Life!Existing
         /\ row[j].status = "absent" <=> Stage(j) = "absent"
BY DEF TypeInv, TypeOK, Row, Statuses, Active, Stage, Exists, Renderable,
       Life!Stages, Life!Existing

LEMMA OneStage ==
  ASSUME NEW k \in Jobs, OnlyWrites(k)
  PROVE  [j \in Jobs |-> Stage(j)]' = [[j \in Jobs |-> Stage(j)] EXCEPT ![k] = Stage(k)']
BY DEF OnlyWrites, Stage

LEMMA WriteIsLawful ==
  ASSUME TypeInv, NEW k \in Jobs, NEW r, Update(k, r),
         r.status \in Statuses \ {"absent", "deleted"}
  PROVE  OnlyWrites(k) /\ Lawful(k)
<1>1. OnlyWrites(k)
  BY WriteFrame
<1>2. CASE ~Exists(k)
  BY <1>1, <1>2 DEF Update, Lawful, Stage
<1>3. CASE Exists(k)
  <2>1. row'[k] = r
    BY <1>3 DEF Update, TypeInv, TypeOK
  <2>2. Stage(k) \in Life!Existing
    BY <1>3, StagesAre
  <2>3. Stage(k)' \in Life!Existing
    BY <2>1 DEF Stage, Statuses, Active, Renderable, Life!Existing
  <2> QED
    BY <1>1, <2>2, <2>3 DEF Lawful
<1> QED
  BY <1>2, <1>3

\* A step of the work in hand for job k that leaves some in hand.
LEMMA HandAdvances ==
  ASSUME TypeInv, TypeInv', NEW k \in Jobs, OnlyWrites(k), OnlyHands(k), Lawful(k),
         InHand(k), InHand(k)', lost' \in {lost, lost \ {k}}
  PROVE  Life!Advance(k)
<1>1. {j \in Jobs : InHand(j)}' = {j \in Jobs : InHand(j)}
  BY DEF OnlyHands
<1>2. Stage(k)' \in Life!Stages
  BY StagesAre DEF TypeInv, TypeOK, Row, Statuses, Active, Stage, Renderable,
     Life!Stages, Life!Existing
<1>3. [j \in Jobs |-> Stage(j)][k] = Stage(k)
  OBVIOUS
<1> QED
  BY <1>1, <1>2, <1>3, OneStage DEF Life!Advance, Life!Becomes, Lawful

\* A step that ends the last work in hand for job k.
LEMMA HandRests ==
  ASSUME TypeInv, TypeInv', StatusBacked', NEW k \in Jobs, OnlyWrites(k), OnlyHands(k),
         Lawful(k), InHand(k), ~InHand(k)', lost' = lost
  PROVE  Life!Rest(k)
<1>1. {j \in Jobs : InHand(j)}' = {j \in Jobs : InHand(j)} \ {k}
  BY DEF OnlyHands
<1>2. Stage(k)' \in Life!Stages
  BY DEF TypeInv, TypeOK, Row, Statuses, Active, Stage, Renderable,
     Life!Stages, Life!Existing
<1>3. [j \in Jobs |-> Stage(j)][k] = Stage(k)
  OBVIOUS
<1>4. ASSUME Stage(k)' = "waiting" PROVE k \in lost
  <2>1. row'[k].status \in Active
    BY <1>4 DEF Stage, TypeInv, TypeOK, Row, Statuses, Active
  <2>2. k \in lost' \/ Queued(k)' \/ \E t \in Threads : Owes(t, k)'
    BY <2>1 DEF StatusBacked
  <2>3. ASSUME NEW t \in Threads, Owes(t, k)' PROVE Engaged(t, k)'
    BY <2>3 DEF Owes, Engaged
  <2> QED
    BY <2>2, <2>3 DEF InHand
<1> QED
  BY <1>1, <1>2, <1>3, <1>4, OneStage DEF Life!Rest, Life!Becomes, Lawful

\* Thread t takes a step of its task, which is of job k, and may finish it.
LEMMA ThreadStep ==
  ASSUME TypeInv, TypeInv', StatusBacked', NEW k \in Jobs, NEW t \in Threads,
         OnlyMoves(t), OnlyWrites(k), Lawful(k), Engaged(t, k), UNCHANGED <<queue, lost>>,
         pc'[t] = "idle" \/ Engaged(t, k)'
  PROVE  Life!Advance(k) \/ Life!Rest(k)
<1>1. InHand(k)
  BY DEF InHand
<1>2. OnlyHands(k)
  <2> SUFFICES ASSUME NEW j \in Jobs \ {k} PROVE InHand(j)' <=> InHand(j)
    BY DEF OnlyHands
  <2>1. Queued(j)' <=> Queued(j)
    BY DEF Queued
  <2>2. ASSUME NEW x \in Threads PROVE Engaged(x, j)' <=> Engaged(x, j)
    BY <2>2 DEF Engaged, OnlyMoves
  <2> QED
    BY <2>1, <2>2 DEF InHand
<1> QED
  BY <1>1, <1>2, HandAdvances, HandRests

-----------------------------------------------------------------------------
(* Steps that change no stage and no work in hand *)

LEMMA NothingSeen ==
  ASSUME UNCHANGED <<row, lost>>, \A j \in Jobs : InHand(j)' <=> InHand(j)
  PROVE  UNCHANGED Life!life
<1>1. [j \in Jobs |-> Stage(j)]' = [j \in Jobs |-> Stage(j)]
  BY DEF Stage
<1>2. {j \in Jobs : InHand(j)}' = {j \in Jobs : InHand(j)}
  OBVIOUS
<1> QED
  BY <1>1, <1>2 DEF Life!life

\* No thread, no queue and no row changes.
LEMMA NothingMoves ==
  ASSUME UNCHANGED <<row, lost, queue, pc, cur>>
  PROVE  UNCHANGED Life!life
<1>1. \A j \in Jobs : InHand(j)' <=> InHand(j)
  BY DEF InHand, Queued, Engaged
<1> QED
  BY <1>1, NothingSeen

\* Only thread x moves, and it has no job in hand before or after.
LEMMA IdleMoves ==
  ASSUME NEW x \in Threads, OnlyMoves(x), UNCHANGED queue,
         pc[x] \in {"idle", "remove"}, pc'[x] \in {"idle", "remove"}
  PROVE  \A j \in Jobs : InHand(j)' <=> InHand(j)
<1> SUFFICES ASSUME NEW j \in Jobs PROVE InHand(j)' <=> InHand(j)
  OBVIOUS
<1>1. Queued(j)' <=> Queued(j)
  BY DEF Queued
<1>2. ASSUME NEW t \in Threads PROVE Engaged(t, j)' <=> Engaged(t, j)
  BY <1>2 DEF Engaged, OnlyMoves
<1> QED
  BY <1>1, <1>2 DEF InHand

-----------------------------------------------------------------------------
(* Requests *)

\* The loop takes up job k.
LEMMA LoopBegins ==
  ASSUME TypeInv, NEW k \in Jobs, NEW task, task.job = k, StartSubmit(Loop, task),
         pc[Loop] = "idle", UNCHANGED queue
  PROVE  {j \in Jobs : InHand(j)}' = {j \in Jobs : InHand(j)} \cup {k}
<1>1. Loop \in Threads /\ OnlyMoves(Loop) /\ pc'[Loop] = "clear" /\ cur'[Loop] = task
  BY LoopIsThread, Frames
<1>2. InHand(k)'
  BY <1>1 DEF InHand, Engaged
<1>3. ASSUME NEW j \in Jobs, j # k PROVE InHand(j)' <=> InHand(j)
  <2>1. Queued(j)' <=> Queued(j)
    BY DEF Queued
  <2>2. ASSUME NEW t \in Threads PROVE Engaged(t, j)' <=> Engaged(t, j)
    BY <1>1, <1>3, <2>2 DEF Engaged, OnlyMoves
  <2> QED
    BY <2>1, <2>2 DEF InHand
<1> QED
  BY <1>2, <1>3

LEMMA NewJobIsCreated ==
  ASSUME TypeInv, TypeInv', NEW k \in Jobs, NEW task, task.job = k, StartSubmit(Loop, task),
         pc[Loop] = "idle", UNCHANGED <<queue, lost>>, OnlyWrites(k),
         row[k].status = "absent", row'[k].status \in Active
  PROVE  Life!Create(k)
<1>1. Stage(k) = "absent" /\ Stage(k)' = "waiting"
  BY DEF Stage, Active
<1> QED
  BY <1>1, LoopBegins, OneStage DEF Life!Create, Life!Becomes

LEMMA RunIsStarted ==
  ASSUME TypeInv, NEW k \in Jobs, NEW task, task.job = k, StartSubmit(Loop, task),
         pc[Loop] = "idle", UNCHANGED <<queue, lost, row>>, Exists(k)
  PROVE  Life!Start(k)
<1>1. Stage(k) \in Life!Existing
  BY StagesAre
<1>2. [j \in Jobs |-> Stage(j)]' = [[j \in Jobs |-> Stage(j)] EXCEPT ![k] = Stage(k)]
  BY DEF Stage
<1> QED
  BY <1>1, <1>2, LoopBegins DEF Life!Start, Life!Becomes

LEMMA RequestsAreLife ==
  ASSUME TypeInv, TypeInv', Requests
  PROVE  [Life!Next]_(Life!life)
<1>0. PICK k \in Jobs :
      \/ CreateLocalJob(k) \/ (\E f \in Formats : YoutubeJob(k, f))
      \/ Analyze(k) \/ (\E S \in SUBSET Songs \ {{}} : Render(k, S))
      \/ Cancel(k) \/ Delete(k) \/ MoveVideo(k)
  BY DEF Requests
<1>1. row \in [Jobs -> Row]
  BY DEF TypeInv, TypeOK
<1>2. CASE CreateLocalJob(k)
  <2>1. OnlyWrites(k) /\ row'[k].status = "ready"
    BY <1>1, <1>2 DEF CreateLocalJob, OnlyWrites, Row
  <2> QED
    BY <1>2, <2>1, NewJobIsCreated
    DEF CreateLocalJob, Request, AnalyzeTask, Active, Life!Next
<1>3. ASSUME NEW f \in Formats, YoutubeJob(k, f) PROVE Life!Next
  <2>1. OnlyWrites(k) /\ row'[k].status = "downloading"
    BY <1>1, <1>3 DEF YoutubeJob, OnlyWrites, Row
  <2> QED
    BY <1>3, <2>1, NewJobIsCreated
    DEF YoutubeJob, Request, DownloadTask, Active, Life!Next
<1>4. CASE Analyze(k)
  <2>1. DownloadTask(k, "default").job = k /\ AnalyzeTask(k).job = k
    BY DEF DownloadTask, AnalyzeTask
  <2> QED
    BY <1>4, <2>1, RunIsStarted DEF Analyze, Request, Life!Next
<1>5. ASSUME NEW S \in SUBSET Songs, Render(k, S) PROVE Life!Next
  <2>1. Exists(k)
    BY <1>5 DEF Render, Renderable, Exists
  <2> QED
    BY <1>5, <2>1, RunIsStarted DEF Render, Request, RenderTask, Life!Next
<1>6. CASE Cancel(k) \/ MoveVideo(k)
  BY <1>6, NothingMoves DEF Cancel, MoveVideo, threads
<1>7. CASE Delete(k)
  <2>1. /\ OnlyMoves(Loop) /\ pc[Loop] = "idle" /\ pc'[Loop] = "remove"
        /\ UNCHANGED <<row, queue, lost>> /\ Loop \in Threads
    BY <1>7, LoopIsThread DEF Delete, Request, Go, OnlyMoves, TypeInv, TypeOK
  <2> QED
    BY <2>1, IdleMoves, NothingSeen
<1> QED
  BY <1>0, <1>2, <1>3, <1>4, <1>5, <1>6, <1>7

LEMMA RemovalIsLife ==
  ASSUME TypeInv, TypeInv', RemoveRow
  PROVE  [Life!Next]_(Life!life)
<1>1. Loop \in Threads
  BY LoopIsThread
<1>0. PICK k \in Jobs : k = cur[Loop].job
  BY <1>1, TaskFields DEF RemoveRow
<1>2. OnlyMoves(Loop) /\ pc'[Loop] = "idle" /\ pc[Loop] = "remove" /\ UNCHANGED <<queue, lost>>
  BY <1>1, Frames DEF RemoveRow
<1>3. \A j \in Jobs : InHand(j)' <=> InHand(j)
  BY <1>1, <1>2, IdleMoves
<1>4. CASE ~Exists(k)
  BY <1>0, <1>2, <1>3, <1>4, NothingSeen DEF RemoveRow, DeleteRow
<1>5. CASE Exists(k)
  <2>1. OnlyWrites(k) /\ row'[k].status = "deleted"
    BY <1>0, <1>5 DEF RemoveRow, DeleteRow, OnlyWrites, TypeInv, TypeOK, Row
  <2>2. Stage(k) \in Life!Existing /\ Stage(k)' = "deleted"
    BY <1>1, <1>5, <2>1, StagesAre DEF Stage, Active
  <2>3. {j \in Jobs : InHand(j)}' = {j \in Jobs : InHand(j)}
    BY <1>3
  <2> QED
    BY <1>1, <1>2, <2>1, <2>2, <2>3, OneStage DEF Life!Remove, Life!Becomes, Life!Next
<1> QED
  BY <1>4, <1>5

-----------------------------------------------------------------------------
(* Submission *)

LEMMA SubmissionIsLife ==
  ASSUME TypeInv, TypeInv', StatusBacked', NEW t \in Threads, Submission(t)
  PROVE  [Life!Next]_(Life!life)
<1>0. pc[t] \in {"clear", "mark", "submit"} /\ row \in [Jobs -> Row]
  BY DEF Submission, ClearCancel, MarkSubmitted, Submit, TypeInv, TypeOK
<1>1. PICK k \in Jobs : k = cur[t].job
  BY <1>0, TaskFields
<1>2. Engaged(t, k)
  BY <1>0, <1>1 DEF Engaged
<1>3. ASSUME OnlyMoves(t), pc'[t] \in {"mark", "submit", "fail"}, cur'[t] = cur[t],
             OnlyWrites(k), Lawful(k), UNCHANGED <<queue, lost>>
      PROVE  Life!Next
  BY <1>1, <1>2, <1>3, ThreadStep DEF Engaged, Life!Next
<1>4. row' = row => OnlyWrites(k) /\ Lawful(k)
  BY DEF OnlyWrites, Lawful, Stage
<1>5. CASE ClearCancel(t)
  BY <1>3, <1>4, <1>5, Frames DEF ClearCancel
<1>6. CASE MarkSubmitted(t)
  <2> DEFINE r == [row[k] EXCEPT !.status = SubmittedStatus(cur[t].op), !.error = "none"]
  <2>1. Update(k, r)
    BY <1>1, <1>6 DEF MarkSubmitted
  <2>2. cur[t].op \in {"download", "analyze", "render"}
    BY <1>0, TaskFields
  <2>3. r.status \in Statuses \ {"absent", "deleted"}
    BY <1>0, <2>2 DEF SubmittedStatus, Row, Statuses, Active
  <2>4. OnlyWrites(k) /\ Lawful(k)
    BY <2>1, <2>3, WriteIsLawful
  <2> QED
    BY <1>3, <1>6, <2>4, Frames DEF MarkSubmitted
<1>7. CASE Submit(t) /\ up # "up"
  BY <1>3, <1>4, <1>7, Frames DEF Submit
<1>8. CASE Submit(t) /\ up = "up"
  <2> DEFINE p == PoolOf(cur[t])
  <2>1. queue \in [{"job", "dl"} -> Seq(Task)] /\ p \in {"job", "dl"} /\ cur[t] \in Task
    BY <1>0, TaskFields DEF TypeInv, TypeOK, PoolOf
  <2>2. /\ queue' = [queue EXCEPT ![p] = Append(queue[p], cur[t])]
        /\ lost' = lost \ {k} /\ Finish(t) /\ row' = row
    BY <1>1, <1>8 DEF Submit
  <2>3. OnlyMoves(t) /\ pc'[t] = "idle"
    BY <2>2, Frames
  <2>4. Queued(k)'
    <3>1. Len(queue[p]) + 1 \in DOMAIN queue'[p] /\ queue'[p][Len(queue[p]) + 1] = cur[t]
      BY <2>1, <2>2
    <3>2. p \in DOMAIN queue'
      BY <2>1, <2>2
    <3>3. \E i \in DOMAIN queue'[p] : queue'[p][i].job = k
      BY <1>1, <3>1
    <3> QED
      BY <3>2, <3>3 DEF Queued
  <2>5. ASSUME NEW j \in Jobs \ {k} PROVE Queued(j)' <=> Queued(j)
    <3>1. ASSUME NEW q \in {"job", "dl"}, NEW i \in DOMAIN queue[q]
          PROVE  i \in DOMAIN queue'[q] /\ queue'[q][i] = queue[q][i]
      BY <2>1, <2>2, <3>1
    <3>2. ASSUME NEW q \in {"job", "dl"}, NEW i \in DOMAIN queue'[q]
          PROVE  \/ i \in DOMAIN queue[q] /\ queue'[q][i] = queue[q][i]
                 \/ queue'[q][i] = cur[t]
      BY <2>1, <2>2, <3>2
    <3>3. DOMAIN queue = {"job", "dl"} /\ DOMAIN queue' = {"job", "dl"}
      BY <2>1, <2>2
    <3>4. Queued(j) => Queued(j)'
      BY <3>1, <3>3 DEF Queued
    <3>5. Queued(j)' => Queued(j)
      BY <1>1, <3>2, <3>3 DEF Queued
    <3> QED
      BY <3>4, <3>5
  <2>6. ASSUME NEW j \in Jobs \ {k}, NEW x \in Threads PROVE Engaged(x, j)' <=> Engaged(x, j)
    BY <1>1, <2>3, <2>6 DEF Engaged, OnlyMoves
  <2>7. OnlyHands(k)
    BY <2>5, <2>6 DEF OnlyHands, InHand
  <2>8. InHand(k) /\ InHand(k)'
    BY <1>2, <2>4 DEF InHand
  <2> QED
    BY <1>4, <2>2, <2>7, <2>8, HandAdvances DEF Life!Next
<1> QED
  BY <1>5, <1>6, <1>7, <1>8 DEF Submission

-----------------------------------------------------------------------------
(* Workers *)

LEMMA TakeIsLife ==
  ASSUME TypeInv, TypeInv', NEW w \in Workers, Take(w)
  PROVE  UNCHANGED Life!life
<1> DEFINE p == w[1]
<1>1. /\ w \in Threads /\ p \in {"job", "dl"}
      /\ queue \in [{"job", "dl"} -> Seq(Task)] /\ queue[p] # <<>>
  BY PoolOfWorker, LoopIsThread DEF TypeInv, TypeOK, Take
<1>2. PICK task \in Task : task = Head(queue[p])
  BY <1>1
<1>3. PICK k \in Jobs : k = task.job
  BY <1>2 DEF Task
<1>4. FirstStep(task.op) \notin {"idle", "remove"}
  <2>1. task.op \in {"download", "analyze", "render"}
    BY <1>2 DEF Task
  <2> QED
    BY <2>1 DEF FirstStep
<1>5. /\ OnlyMoves(w) /\ pc'[w] = FirstStep(task.op) /\ cur'[w] = task
      /\ pc[w] = "idle" /\ UNCHANGED <<row, lost>>
      /\ queue' = [queue EXCEPT ![p] = Tail(queue[p])]
  BY <1>1, <1>2 DEF Take, Go, OnlyMoves, TypeInv, TypeOK
<1>6. InHand(k)
  <2>1. 1 \in DOMAIN queue[p] /\ queue[p][1].job = k /\ p \in DOMAIN queue
    BY <1>1, <1>2, <1>3
  <2> QED
    BY <2>1 DEF InHand, Queued
<1>7. InHand(k)'
  BY <1>1, <1>3, <1>4, <1>5 DEF InHand, Engaged
<1>8. ASSUME NEW j \in Jobs, j # k PROVE InHand(j)' <=> InHand(j)
  <2>1. DOMAIN queue = {"job", "dl"} /\ DOMAIN queue' = {"job", "dl"}
    BY <1>1, <1>5
  <2>2. ASSUME NEW q \in {"job", "dl"}, NEW i \in DOMAIN queue'[q]
        PROVE  \E m \in DOMAIN queue[q] : queue[q][m] = queue'[q][i]
    <3>1. CASE q # p
      BY <1>1, <1>5, <2>2, <3>1
    <3>2. CASE q = p
      BY <1>1, <1>5, <2>2, <3>2
    <3> QED
      BY <3>1, <3>2
  <2>3. ASSUME NEW q \in {"job", "dl"}, NEW i \in DOMAIN queue[q], queue[q][i].job = j
        PROVE  \E m \in DOMAIN queue'[q] : queue'[q][m] = queue[q][i]
    <3>1. CASE q # p
      BY <1>1, <1>5, <2>3, <3>1
    <3>2. CASE q = p
      <4>1. i # 1 /\ i \in 1..Len(queue[p])
        BY <1>1, <1>2, <1>3, <1>8, <2>3, <3>2
      <4>2. i - 1 \in DOMAIN Tail(queue[p]) /\ Tail(queue[p])[i - 1] = queue[p][i]
        BY <1>1, <4>1
      <4>3. queue'[p] = Tail(queue[p])
        BY <1>1, <1>5
      <4> QED
        BY <3>2, <4>2, <4>3
    <3> QED
      BY <3>1, <3>2
  <2>4. Queued(j)' <=> Queued(j)
    <3>1. Queued(j)' => Queued(j)
      BY <2>1, <2>2 DEF Queued
    <3>2. Queued(j) => Queued(j)'
      BY <2>1, <2>3 DEF Queued
    <3> QED
      BY <3>1, <3>2
  <2>5. ASSUME NEW t \in Threads PROVE Engaged(t, j)' <=> Engaged(t, j)
    BY <1>3, <1>5, <1>8, <2>5 DEF Engaged, OnlyMoves
  <2> QED
    BY <2>4, <2>5 DEF InHand
<1> QED
  BY <1>5, <1>6, <1>7, <1>8, NothingSeen

LEMMA WorkIsLife ==
  ASSUME TypeInv, TypeInv', StatusBacked', NEW w \in Workers, Work(w)
  PROVE  [Life!Next]_(Life!life)
<1>a. w \in Threads /\ pc[w] \notin {"idle", "remove"}
  BY LoopIsThread DEF Work, Download, RunAnalyze, RunRender,
     FetchLine, FetchEnd, FetchDone, Landed, ReadJob, MarkAnalyzing, Sample, DecodeWrite,
     DecodeCancelled, DecodeEnd, ListFrames, Detect, SaveAnalysis, LoadJob, MarkRendering,
     OpenFrames, ComposeSong, ComposeDone, ChooseTarget, MoveOutput, RecordRender,
     CleanWorkdir, Fail, Running, Step
<1>b. PICK k \in Jobs : k = cur[w].job
  BY <1>a, TaskFields
<1>c. UNCHANGED <<lost, queue>>
  BY DEF Work, Download, RunAnalyze, RunRender,
     FetchLine, FetchEnd, FetchDone, Landed, ReadJob, MarkAnalyzing, Sample, DecodeWrite,
     DecodeCancelled, DecodeEnd, ListFrames, Detect, SaveAnalysis, LoadJob, MarkRendering,
     OpenFrames, ComposeSong, ComposeDone, ChooseTarget, MoveOutput, RecordRender,
     CleanWorkdir, Fail, Running, Step
<1>d. Engaged(w, k) /\ row \in [Jobs -> Row]
  BY <1>a, <1>b DEF Engaged, TypeInv, TypeOK
<1>e. row' = row => OnlyWrites(k) /\ Lawful(k)
  BY DEF OnlyWrites, Lawful, Stage
<1> DEFINE Inner == Places \ {"idle", "remove"}
<1>1. ASSUME NEW p \in Inner, OnlyMoves(w), pc'[w] = p, cur'[w].job = k,
             OnlyWrites(k), Lawful(k)
      PROVE  Life!Next
  BY <1>1, <1>a, <1>c, <1>d, ThreadStep DEF Engaged, Life!Next
<1>2. ASSUME Finish(w), OnlyWrites(k), Lawful(k) PROVE Life!Next
  BY <1>2, <1>a, <1>c, <1>d, Frames, ThreadStep DEF Life!Next
<1>3. ASSUME NEW p \in Inner, Go(w, p), UNCHANGED <<row, cur>> PROVE Life!Next
  BY <1>1, <1>3, <1>a, <1>b, <1>e, Frames
<1>4. ASSUME NEW e, Raise(w, e), UNCHANGED <<row, cur>> PROVE Life!Next
  BY <1>3, <1>4 DEF Raise, Places
<1>5. ASSUME NEW p \in Inner, Emit(w, p), UNCHANGED <<row, cur>> PROVE Life!Next
  BY <1>3, <1>4, <1>5 DEF Emit
<1>6. ASSUME NEW p \in Inner, Go(w, p), UNCHANGED cur,
             NEW r, r.status \in Statuses \ {"absent", "deleted"}, Update(k, r)
      PROVE  Life!Next
  BY <1>1, <1>6, <1>a, <1>b, Frames, WriteIsLawful
<1>7. ASSUME Finish(w), NEW r, r.status \in Statuses \ {"absent", "deleted"}, Update(k, r)
      PROVE  Life!Next
  BY <1>2, <1>7, WriteIsLawful
<1>8. CASE FetchLine(w) \/ FetchEnd(w) \/ FetchDone(w)
  BY <1>3, <1>4, <1>8, <1>c, NothingMoves
  DEF FetchLine, FetchEnd, FetchDone, Running, Places
<1>9. CASE Landed(w)
  <2>1. OnlyMoves(w) /\ pc'[w] = "clear" /\ cur'[w].job = k
    BY <1>9, <1>a, <1>b, Frames DEF Landed, AnalyzeTask
  <2>2. OnlyWrites(k) /\ Lawful(k)
    <3>1. [row[k] EXCEPT !.status = "ready", !.path = mem[w].found].status
            \in Statuses \ {"absent", "deleted"}
      BY <1>d DEF Row, Statuses, Active
    <3> QED
      BY <1>9, <1>b, <3>1, WriteIsLawful DEF Landed
  <2> QED
    BY <1>1, <2>1, <2>2 DEF Places
<1>10. CASE ReadJob(w)
  BY <1>2, <1>3, <1>4, <1>10, <1>e DEF ReadJob, Places
<1>11. CASE MarkAnalyzing(w) \/ MarkRendering(w)
  <2>1. \A s \in {"analyzing", "rendering"} :
          [row[k] EXCEPT !.status = s].status \in Statuses \ {"absent", "deleted"}
    BY <1>d DEF Row, Statuses, Active
  <2> QED
    BY <1>6, <1>11, <1>b, <2>1 DEF MarkAnalyzing, MarkRendering, Running, Places
<1>12. CASE Sample(w) \/ DecodeCancelled(w) \/ DecodeEnd(w) \/ ListFrames(w) \/ Detect(w)
  BY <1>3, <1>4, <1>5, <1>12
  DEF Sample, DecodeCancelled, DecodeEnd, ListFrames, Detect, Running, Places
<1>13. CASE DecodeWrite(w)
  BY <1>13, <1>c, NothingMoves DEF DecodeWrite, Running
<1>14. CASE SaveAnalysis(w)
  <2>1. [row[k] EXCEPT !.status = "analyzed", !.analysis = mem[w].cover].status
          \in Statuses \ {"absent", "deleted"}
    BY <1>d DEF Row, Statuses
  <2> QED
    BY <1>7, <1>14, <1>b, <2>1 DEF SaveAnalysis
<1>15. CASE LoadJob(w) \/ OpenFrames(w) \/ ComposeDone(w) \/ ChooseTarget(w) \/ MoveOutput(w)
  BY <1>3, <1>4, <1>5, <1>15
  DEF LoadJob, OpenFrames, ComposeDone, ChooseTarget, MoveOutput, Running, Places
<1>16. CASE ComposeSong(w)
  BY <1>4, <1>16, <1>c, NothingMoves DEF ComposeSong, Running
<1>17. CASE RecordRender(w)
  <2>1. [row[k] EXCEPT !.status = "rendered", !.out = mem[w].target,
                       !.render = cur[w].songs].status \in Statuses \ {"absent", "deleted"}
    BY <1>d DEF Row, Statuses
  <2> QED
    BY <1>6, <1>17, <1>b, <2>1 DEF RecordRender, Running, Places
<1>18. CASE CleanWorkdir(w)
  BY <1>2, <1>18, <1>e DEF CleanWorkdir
<1>19. CASE Fail(w)
  <2>1. Failed(k, mem[w].outcome).status \in Statuses \ {"absent", "deleted"}
    BY <1>d DEF Failed, Row, Statuses
  <2> QED
    BY <1>7, <1>19, <1>b, <2>1 DEF Fail
<1> QED
  BY <1>8, <1>9, <1>10, <1>11, <1>12, <1>13, <1>14, <1>15, <1>16, <1>17, <1>18, <1>19
  DEF Work, Download, RunAnalyze, RunRender

-----------------------------------------------------------------------------
(* Stops of the process *)

LEMMA StopIsLife ==
  ASSUME TypeInv, Shutdown \/ ProcessEnds
  PROVE  Life!Next
<1>1. \A j \in Jobs : ~Queued(j)'
  BY DEF Shutdown, ProcessEnds, Queued
<1>2. \A j \in Jobs : InHand(j)' => InHand(j)
  BY <1>1 DEF Shutdown, ProcessEnds, threads, InHand, Engaged
<1>3. [j \in Jobs |-> Stage(j)]' = [j \in Jobs |-> Stage(j)]
  BY DEF Shutdown, ProcessEnds, Stage
<1>4. ASSUME NEW j \in Jobs, InHand(j), ~InHand(j)', Stage(j) = "waiting"
      PROVE  j \in lost'
  <2>1. CASE Shutdown
    BY <1>1, <1>4, <2>1 DEF Shutdown, threads, InHand, Engaged
  <2>2. CASE ProcessEnds
    BY <1>4, <2>2 DEF ProcessEnds, Stage, TypeInv, TypeOK, Row, Statuses, Active
  <2> QED
    BY <2>1, <2>2
<1>5. lost \subseteq lost'
  BY DEF Shutdown, ProcessEnds
<1> QED
  BY <1>2, <1>3, <1>4, <1>5 DEF Life!Next, Life!Stop

-----------------------------------------------------------------------------
(* The refinement *)

LEMMA InitIsLife == Init => Life!Init
<1> SUFFICES ASSUME Init PROVE Life!Init
  OBVIOUS
<1>1. \A j \in Jobs : Stage(j) = "absent" /\ ~InHand(j)
  BY DEF Init, NoRow, Stage, Active, InHand, Queued, Engaged
<1> QED
  BY <1>1 DEF Init, Life!Init

LEMMA NextIsLife ==
  BackedInv /\ BackedInv' /\ [Next]_vars => [Life!Next]_(Life!life)
<1> SUFFICES ASSUME TypeInv, TypeInv', StatusBacked', [Next]_vars
             PROVE  [Life!Next]_(Life!life)
  BY DEF BackedInv
<1>1. CASE Requests \/ RemoveRow
  BY <1>1, RequestsAreLife, RemovalIsLife
<1>2. CASE \E t \in Threads : Submission(t)
  BY <1>2, SubmissionIsLife
<1>3. CASE \E w \in Workers : Take(w) \/ Work(w)
  BY <1>3, TakeIsLife, WorkIsLife
<1>4. CASE (\E j \in Jobs : OrphanWrites(j)) \/ Restart
  BY <1>4, NothingMoves DEF OrphanWrites, Restart, threads
<1>5. CASE Shutdown \/ Kill \/ Exit
  BY <1>5, StopIsLife DEF Kill, Exit
<1>6. CASE UNCHANGED vars
  BY <1>6, NothingMoves DEF vars, threads
<1> QED
  BY <1>1, <1>2, <1>3, <1>4, <1>5, <1>6 DEF Next

\* The runner implements JobLife: whatever handlers, runs and stops of the
\* process interleave, a job is changed by a request or by work in hand for it,
\* and work in hand never ends on a stage that makes the user wait
\* (runner.submit_*, _run_*, _fail, main.py's handlers).
THEOREM RunnerIsLife == Spec => ImplementsLife
<1> QED
  BY InitIsLife, NextIsLife, InitBacked, NextBacked, PTL
  DEF Spec, ImplementsLife, Life!Spec

-----------------------------------------------------------------------------
(* The disk: one thread analyses and renders, and the threads that download  *)
(* never do.                                                                 *)

\* The thread that analyses and renders.
P == <<"job", 1>>

\* Where a thread can be between two steps of a download and its submission.
Fetching == {"idle", "fetch", "fetched", "landed", "fail", "clear", "mark", "submit"}

DownStays == \A w \in DownWorkers : pc[w] \in Fetching

\* What waits for the threads that download is downloads.
Sorted == \A i \in DOMAIN queue["dl"] : queue["dl"][i].op = "download"

\* The places where a run relies on what is on disk.
Relying == {"decoded", "detect", "compose", "publish", "move"}

FramesThere == pc[P] \in Relying => frames[cur[P].job] # "none"

SongsStaged == /\ pc[P] = "compose" => cur[P].songs \subseteq staged[cur[P].job] \cup mem[P].todo
               /\ pc[P] \in {"publish", "move"} => cur[P].songs \subseteq staged[cur[P].job]

TargetFree == pc[P] = "move" => mem[P].target = Len(outs) + 1

TargetMine == pc[P] = "record" => /\ mem[P].target \in DOMAIN outs
                                  /\ outs[mem[P].target].job = cur[P].job
                                  /\ cur[P].songs \subseteq outs[mem[P].target].pdfs

Held == FramesThere /\ SongsStaged /\ TargetFree /\ TargetMine

DiskInv == TypeInv /\ DownStays /\ Sorted /\ Held /\ RenderedIsPublished

-----------------------------------------------------------------------------
LEMMA TheThreads ==
  /\ ProcWorkers = {P}
  /\ P \in Threads /\ P \in Workers
  /\ Workers = DownWorkers \cup {P} /\ DownWorkers \subseteq Threads
  /\ P \notin DownWorkers /\ Loop \notin Workers
  /\ P[1] = "job" /\ \A w \in DownWorkers : w[1] = "dl"
<1>1. ProcWorkers = {P}
  BY DEF ProcWorkers, ProcessingWorkers, P
<1>2. P \notin DownWorkers /\ Loop \notin DownWorkers /\ P # Loop
      /\ P[1] = "job" /\ \A w \in DownWorkers : w[1] = "dl"
  BY DEF DownWorkers, Loop, P
<1> QED BY <1>1, <1>2 DEF Workers, Threads

\* While the processing thread and what it relies on stay, so does what holds.
LEMMA Undisturbed ==
  ASSUME TypeInv, Held, pc'[P] = pc[P], cur'[P] = cur[P], mem'[P] = mem[P],
         staged' = staged, outs' = outs,
         \A j \in Jobs : frames[j] # "none" => frames'[j] # "none"
  PROVE  Held'
<1>1. pc[P] # "idle" => cur[P].job \in Jobs
  BY TheThreads, TaskFields
<1> QED BY <1>1 DEF Held, FramesThere, SongsStaged, TargetFree, TargetMine, Relying

\* Elsewhere the processing thread relies on nothing.
LEMMA Elsewhere == pc'[P] \notin Relying \cup {"record"} => Held'
BY DEF Held, FramesThere, SongsStaged, TargetFree, TargetMine, Relying

LEMMA DownStaysOn ==
  ASSUME DownStays, \A w \in DownWorkers : pc'[w] = pc[w] \/ pc'[w] \in Fetching
  PROVE  DownStays'
BY DEF DownStays

\* A step that shows no job as rendered keeps what is said of those that are.
LEMMA NothingRendered ==
  ASSUME RenderedIsPublished, outs' = outs,
         \A j \in Jobs : row'[j].status = "rendered" => row'[j] = row[j]
  PROVE  RenderedIsPublished'
BY DEF RenderedIsPublished

LEMMA OtherStatus ==
  ASSUME TypeInv, RenderedIsPublished, outs' = outs,
         NEW j \in Jobs, NEW r, r.status # "rendered", Update(j, r)
  PROVE  RenderedIsPublished'
<1>1. row' = row \/ row' = [row EXCEPT ![j] = r]
  BY DEF Update
<1>2. \A i \in Jobs : row'[i].status = "rendered" => row'[i] = row[i]
  BY <1>1 DEF TypeInv, TypeOK
<1> QED BY <1>2, NothingRendered

-----------------------------------------------------------------------------
LEMMA InitDisk == Init => DiskInv
<1> SUFFICES ASSUME Init PROVE DiskInv
  OBVIOUS
<1>1. TypeInv
  BY InitType
<1>2. DownStays
  BY TheThreads DEF Init, DownStays, Fetching
<1>3. Sorted
  BY DEF Init, Sorted
<1>4. Held
  BY TheThreads DEF Init, Held, FramesThere, SongsStaged, TargetFree, TargetMine, Relying
<1>5. RenderedIsPublished
  BY DEF Init, RenderedIsPublished, NoRow
<1> QED BY <1>1, <1>2, <1>3, <1>4, <1>5 DEF DiskInv

\* The handlers: the loop is neither of the pools.
LEMMA RequestsDisk ==
  ASSUME DiskInv, Requests \/ RemoveRow
  PROVE  DownStays' /\ Sorted' /\ Held' /\ RenderedIsPublished'
<1> USE DEF DiskInv
<1> DEFINE Quiet == /\ \A t \in Workers : pc'[t] = pc[t] /\ cur'[t] = cur[t] /\ mem'[t] = mem[t]
                    /\ UNCHANGED <<queue, frames, staged, outs>>
                    /\ \A j \in Jobs : row'[j].status = "rendered" => row'[j] = row[j]
<1>0. pc \in [Threads -> Places] /\ cur \in [Threads -> Task \cup {NoTask}]
      /\ mem \in [Threads -> Memory] /\ row \in [Jobs -> Row]
  BY DEF TypeInv, TypeOK
<1>1. ASSUME NEW j \in Jobs,
             \/ CreateLocalJob(j) \/ (\E f \in Formats : YoutubeJob(j, f))
             \/ Analyze(j) \/ (\E S \in SUBSET Songs \ {{}} : Render(j, S))
             \/ Cancel(j) \/ Delete(j) \/ MoveVideo(j)
      PROVE  Quiet
  <2>0. row[j] \in Row
    BY <1>0
  <2>1. CASE CreateLocalJob(j)
    BY <1>0, <2>0, <2>1, TheThreads DEF CreateLocalJob, StartSubmit, Go, disk, Row
  <2>2. CASE \E f \in Formats : YoutubeJob(j, f)
    BY <1>0, <2>0, <2>2, TheThreads DEF YoutubeJob, StartSubmit, Go, disk, Row
  <2>3. CASE Analyze(j)
    BY <1>0, <2>3, TheThreads DEF Analyze, StartSubmit, Go, disk
  <2>4. CASE \E S \in SUBSET Songs \ {{}} : Render(j, S)
    BY <1>0, <2>4, TheThreads DEF Render, StartSubmit, Go, disk
  <2>5. CASE Cancel(j)
    BY <2>5 DEF Cancel, disk, threads
  <2>6. CASE Delete(j)
    BY <1>0, <2>6, TheThreads DEF Delete, Go, disk
  <2>7. CASE MoveVideo(j)
    BY <2>7 DEF MoveVideo, threads
  <2> QED BY <1>1, <2>1, <2>2, <2>3, <2>4, <2>5, <2>6, <2>7
<1>2. ASSUME RemoveRow PROVE Quiet
  <2>1. \A t \in Workers : pc'[t] = pc[t] /\ cur'[t] = cur[t] /\ mem'[t] = mem[t]
    BY <1>0, <1>2, TheThreads DEF RemoveRow, Finish, Go
  <2>2. \A j \in Jobs : row'[j].status = "rendered" => row'[j] = row[j]
    BY <1>0, <1>2 DEF RemoveRow, DeleteRow, Row
  <2>3. UNCHANGED <<queue, frames, staged, outs>>
    BY <1>2 DEF RemoveRow, disk
  <2> QED BY <2>1, <2>2, <2>3
<1>q. Quiet
  <2> HIDE DEF Quiet
  <2> QED BY <1>1, <1>2 DEF Requests
<1>3. DownStays'
  BY <1>q, TheThreads, DownStaysOn
<1>4. Sorted'
  BY <1>q DEF Sorted
<1>5. Held'
  BY <1>q, TheThreads, Undisturbed
<1> QED BY <1>q, <1>3, <1>4, <1>5, NothingRendered

\* A submission ends in a queue of the right pool.
LEMMA SubmissionDisk ==
  ASSUME DiskInv, NEW t \in Threads, Submission(t)
  PROVE  DownStays' /\ Sorted' /\ Held' /\ RenderedIsPublished'
<1> USE DEF DiskInv
<1>0. /\ pc[t] # "idle" /\ cur[t] \in Task /\ cur[t].job \in Jobs /\ row[cur[t].job] \in Row
      /\ cur[t].op \in {"download", "analyze", "render"}
  BY TaskFields DEF Submission, ClearCancel, MarkSubmitted, Submit
<1>1. /\ pc'[t] \in {"mark", "submit", "idle", "fail"}
      /\ \A u \in Threads \ {t} : pc'[u] = pc[u] /\ cur'[u] = cur[u] /\ mem'[u] = mem[u]
      /\ UNCHANGED <<frames, staged, outs>>
  BY DEF Submission, ClearCancel, MarkSubmitted, Submit, Finish, Raise, Go, disk, TypeInv, TypeOK
<1>2. DownStays'
  BY <1>1, TheThreads, DownStaysOn DEF Fetching
<1>3. Sorted'
  <2>1. CASE queue' = queue
    BY <2>1 DEF Sorted
  <2>2. CASE queue' = [queue EXCEPT ![PoolOf(cur[t])] = Append(@, cur[t])]
    <3>1. queue["dl"] \in Seq(Task) /\ DOMAIN queue = {"job", "dl"}
      BY DEF TypeInv, TypeOK
    <3>2. CASE cur[t].op = "download"
      <4>1. queue'["dl"] = Append(queue["dl"], cur[t])
        BY <2>2, <3>1, <3>2 DEF PoolOf
      <4> QED BY <1>0, <3>1, <3>2, <4>1 DEF Sorted
    <3>3. CASE cur[t].op # "download"
      BY <2>2, <3>1, <3>3 DEF PoolOf, Sorted
    <3> QED BY <3>2, <3>3
  <2> QED BY <2>1, <2>2 DEF Submission, ClearCancel, MarkSubmitted, Submit
<1>4. Held'
  <2>1. CASE t = P
    BY <1>1, <2>1, Elsewhere DEF Relying
  <2>2. CASE t # P
    BY <1>1, <2>2, TheThreads, Undisturbed
  <2> QED BY <2>1, <2>2
<1>5. RenderedIsPublished'
  <2>1. CASE MarkSubmitted(t)
    <3> DEFINE r == [row[cur[t].job] EXCEPT !.status = SubmittedStatus(cur[t].op), !.error = "none"]
    <3>1. r.status # "rendered"
      BY <1>0 DEF Row, SubmittedStatus
    <3>2. Update(cur[t].job, r)
      BY <2>1 DEF MarkSubmitted
    <3> QED BY <1>0, <1>1, <3>1, <3>2, OtherStatus
  <2>2. CASE row' = row
    BY <1>1, <2>2, NothingRendered
  <2> QED BY <2>1, <2>2 DEF Submission, ClearCancel, Submit
<1> QED BY <1>2, <1>3, <1>4, <1>5

LEMMA TakeDisk ==
  ASSUME DiskInv, NEW w \in Workers, Take(w)
  PROVE  DownStays' /\ Sorted' /\ Held' /\ RenderedIsPublished'
<1> USE DEF DiskInv
<1>0. w \in Threads /\ w[1] \in {"job", "dl"} /\ queue[w[1]] \in Seq(Task) /\ queue[w[1]] # <<>>
  BY TheThreads, PoolOfWorker DEF Take, TypeInv, TypeOK
<1> DEFINE task == Head(queue[w[1]])
<1>1. task \in Task /\ task.op \in {"download", "analyze", "render"}
  <2>1. task \in Task
    BY <1>0
  <2> QED BY <2>1 DEF Task
<1>2. /\ pc'[w] = FirstStep(task.op)
      /\ \A u \in Threads \ {w} : pc'[u] = pc[u] /\ cur'[u] = cur[u] /\ mem'[u] = mem[u]
      /\ queue' = [queue EXCEPT ![w[1]] = Tail(@)]
      /\ UNCHANGED <<row, frames, staged, outs>>
  BY <1>0 DEF Take, Go, disk, TypeInv, TypeOK
<1>3. DownStays'
  <2>1. CASE w = P
    BY <1>2, <2>1, TheThreads, DownStaysOn
  <2>2. CASE w # P
    <3>1. w[1] = "dl"
      BY <2>2, TheThreads
    <3>2. task.op = "download"
      BY <1>0, <3>1 DEF Sorted
    <3>3. pc'[w] = "fetch"
      BY <1>2, <3>2 DEF FirstStep
    <3> QED BY <1>2, <3>3, TheThreads, DownStaysOn DEF Fetching
  <2> QED BY <2>1, <2>2
<1>4. Sorted'
  <2>1. CASE w[1] = "dl"
    <3> DEFINE q == queue["dl"]
    <3>1. q \in Seq(Task) /\ q # <<>> /\ queue'["dl"] = Tail(q)
      BY <1>0, <1>2, <2>1 DEF TypeInv, TypeOK
    <3>2. \A i \in DOMAIN q : q[i].op = "download"
      BY DEF Sorted
    <3> HIDE DEF q
    <3>3. Len(Tail(q)) = Len(q) - 1 /\ \A i \in 1 .. Len(q) - 1 : Tail(q)[i] = q[i + 1]
      BY <3>1
    <3>4. Tail(q) \in Seq(Task) /\ Len(q) \in Nat
      BY <3>1
    <3>5. \A i \in DOMAIN Tail(q) : Tail(q)[i].op = "download"
      BY <3>1, <3>2, <3>3, <3>4
    <3> QED BY <3>1, <3>5 DEF Sorted
  <2>2. CASE w[1] = "job"
    BY <1>2, <2>2 DEF Sorted, TypeInv, TypeOK
  <2> QED BY <1>0, <2>1, <2>2
<1>5. Held'
  <2>1. CASE w = P
    <3>1. pc'[P] \in {"fetch", "read", "load"}
      BY <1>1, <1>2, <2>1 DEF FirstStep
    <3> QED BY <3>1, Elsewhere DEF Relying
  <2>2. CASE w # P
    BY <1>2, <2>2, TheThreads, Undisturbed
  <2> QED BY <2>1, <2>2
<1>6. RenderedIsPublished'
  BY <1>2, NothingRendered
<1> QED BY <1>3, <1>4, <1>5, <1>6

-----------------------------------------------------------------------------
\* A thread that downloads, or follows a download with an analysis.
LEMMA DownloadDisk ==
  ASSUME DiskInv, NEW w \in Workers, Download(w) \/ Fail(w)
  PROVE  DownStays' /\ Sorted' /\ Held' /\ RenderedIsPublished'
<1> USE DEF DiskInv
<1>0. w \in Threads
  BY TheThreads
<1>1. /\ pc'[w] \in Fetching
      /\ \A u \in Threads \ {w} : pc'[u] = pc[u] /\ cur'[u] = cur[u] /\ mem'[u] = mem[u]
      /\ UNCHANGED <<queue, frames, staged, outs>>
  <2>0. pc \in [Threads -> Places] /\ cur \in [Threads -> Task \cup {NoTask}]
        /\ mem \in [Threads -> Memory]
    BY DEF TypeInv, TypeOK
  <2>1. CASE FetchLine(w)
    BY <1>0, <2>0, <2>1 DEF FetchLine, Running, Step, Raise, Go, Fetching
  <2>2. CASE FetchEnd(w)
    BY <1>0, <2>0, <2>2 DEF FetchEnd, Running, Step, Go, Fetching, disk
  <2>3. CASE FetchDone(w)
    BY <1>0, <2>0, <2>3 DEF FetchDone, Running, Step, Raise, Go, Fetching
  <2>4. CASE Landed(w)
    BY <1>0, <2>0, <2>4 DEF Landed, Step, StartSubmit, Go, Fetching, disk
  <2>5. CASE Fail(w)
    BY <1>0, <2>0, <2>5 DEF Fail, Step, Finish, Go, Fetching, disk
  <2> QED BY <2>1, <2>2, <2>3, <2>4, <2>5 DEF Download
<1>2. DownStays'
  BY <1>1, TheThreads, DownStaysOn
<1>3. Sorted'
  BY <1>1 DEF Sorted
<1>4. Held'
  <2>1. CASE w = P
    BY <1>1, <2>1, Elsewhere DEF Relying, Fetching
  <2>2. CASE w # P
    BY <1>1, <2>2, TheThreads, Undisturbed
  <2> QED BY <2>1, <2>2
<1>5. RenderedIsPublished'
  <2>0. pc[w] # "idle" /\ cur[w].job \in Jobs /\ row[cur[w].job] \in Row
    BY <1>0, TaskFields DEF Download, FetchLine, FetchEnd, FetchDone, Landed, Fail, Running, Step
  <2>1. CASE Landed(w)
    <3>1. [row[cur[w].job] EXCEPT !.status = "ready", !.path = mem[w].found].status # "rendered"
      BY <2>0 DEF Row
    <3> QED BY <1>1, <2>0, <2>1, <3>1, OtherStatus DEF Landed
  <2>2. CASE Fail(w)
    <3>1. Failed(cur[w].job, mem[w].outcome).status # "rendered"
      BY <2>0 DEF Row, Failed
    <3> QED BY <1>1, <2>0, <2>2, <3>1, OtherStatus DEF Fail
  <2>3. CASE row' = row
    BY <1>1, <2>3, NothingRendered
  <2> QED BY <2>1, <2>2, <2>3 DEF Download, FetchLine, FetchEnd, FetchDone
<1> QED BY <1>2, <1>3, <1>4, <1>5

\* Only the processing thread analyses and renders.
LEMMA OneProcessor ==
  ASSUME DiskInv, NEW w \in Workers, RunAnalyze(w) \/ RunRender(w)
  PROVE  w = P
<1>1. pc[w] \notin Fetching
  BY DEF RunAnalyze, RunRender, Running, Step, Fetching, ReadJob, MarkAnalyzing, Sample,
     DecodeWrite, DecodeCancelled, DecodeEnd, ListFrames, Detect, SaveAnalysis, LoadJob,
     MarkRendering, OpenFrames, ComposeSong, ComposeDone, ChooseTarget, MoveOutput,
     RecordRender, CleanWorkdir
<1> QED BY <1>1, TheThreads DEF DiskInv, DownStays

\* An analysis leaves the PDFs alone, removes no frames, and goes on to what
\* relies on frames only when there are some.
LEMMA AnalyzeDisk ==
  ASSUME DiskInv, RunAnalyze(P)
  PROVE  DownStays' /\ Sorted' /\ Held' /\ RenderedIsPublished'
<1> USE DEF DiskInv
<1>0. /\ pc[P] # "idle" /\ cur[P].job \in Jobs /\ row[cur[P].job] \in Row
      /\ mem[P] \in Memory
  BY TheThreads, TaskFields DEF RunAnalyze, Running, Step, ReadJob, MarkAnalyzing, Sample,
     DecodeWrite, DecodeCancelled, DecodeEnd, ListFrames, Detect, SaveAnalysis
<1>t. pc \in [Threads -> Places] /\ cur \in [Threads -> Task \cup {NoTask}]
      /\ mem \in [Threads -> Memory] /\ frames \in [Jobs -> Coverage]
  BY DEF TypeInv, TypeOK
<1> DEFINE Calm == /\ \A u \in Threads \ {P} : pc'[u] = pc[u]
                   /\ UNCHANGED <<queue, staged, outs>>
                   /\ \/ pc'[P] \notin Relying \cup {"record"}
                      \/ /\ pc'[P] \in {"decoded", "detect"} /\ cur' = cur
                         /\ frames'[cur[P].job] # "none"
<1>1. Calm
  <2>1. CASE ReadJob(P)
    BY <1>t, <2>1, TheThreads DEF ReadJob, Step, Finish, Raise, Go, disk, Relying
  <2>2. CASE MarkAnalyzing(P)
    BY <1>t, <2>2, TheThreads DEF MarkAnalyzing, Running, Step, Go, disk, Relying
  <2>3. CASE Sample(P)
    BY <1>t, <2>3, TheThreads DEF Sample, Running, Step, Raise, Go, disk, Relying
  <2>4. CASE DecodeWrite(P)
    BY <1>t, <2>4, TheThreads DEF DecodeWrite, Running, Step, Relying
  <2>5. CASE DecodeCancelled(P)
    BY <1>t, <2>5, TheThreads DEF DecodeCancelled, Running, Step, Raise, Go, Relying
  <2>6. CASE DecodeEnd(P)
    <3>1. CASE Raise(P, "engine")
      BY <1>t, <2>6, <3>1, TheThreads DEF DecodeEnd, Running, Step, Raise, Go, Relying
    <3>2. CASE Emit(P, "decoded") /\ frames' = [frames EXCEPT ![cur[P].job] =
                 IF \E f \in mem[P].found : f.part THEN "partial" ELSE "whole"]
      <4>1. frames'[cur[P].job] # "none"
        BY <1>0, <1>t, <3>2
      <4>2. pc'[P] \in {"decoded", "fail"} /\ \A u \in Threads \ {P} : pc'[u] = pc[u]
        BY <1>t, <3>2, TheThreads DEF Emit, Raise, Go
      <4> QED BY <2>6, <4>1, <4>2 DEF DecodeEnd, Running, Step, Relying
    <3> QED BY <2>6, <3>1, <3>2 DEF DecodeEnd
  <2>7. CASE ListFrames(P)
    <3>1. frames[cur[P].job] # "none"
      BY <2>7 DEF ListFrames, Running, Step, Held, FramesThere, Relying
    <3> QED BY <1>t, <2>7, <3>1, TheThreads DEF ListFrames, Running, Step, Go, disk, Relying
  <2>8. CASE Detect(P)
    BY <1>t, <2>8, TheThreads DEF Detect, Emit, Running, Step, Raise, Go, disk, Relying
  <2>9. CASE SaveAnalysis(P)
    BY <1>t, <2>9, TheThreads DEF SaveAnalysis, Step, Finish, Go, disk, Relying
  <2> QED BY <2>1, <2>2, <2>3, <2>4, <2>5, <2>6, <2>7, <2>8, <2>9 DEF RunAnalyze
<1>2. DownStays'
  BY <1>1, TheThreads, DownStaysOn
<1>3. Sorted'
  BY <1>1 DEF Sorted
<1>4. Held'
  BY <1>1, Elsewhere DEF Held, FramesThere, SongsStaged, TargetFree, TargetMine
<1>5. RenderedIsPublished'
  <2>1. CASE MarkAnalyzing(P)
    <3>1. [row[cur[P].job] EXCEPT !.status = "analyzing"].status # "rendered"
      BY <1>0 DEF Row
    <3> QED BY <1>0, <1>1, <2>1, <3>1, OtherStatus DEF MarkAnalyzing
  <2>2. CASE SaveAnalysis(P)
    <3>1. [row[cur[P].job] EXCEPT !.status = "analyzed", !.analysis = mem[P].cover].status
            # "rendered"
      BY <1>0 DEF Row
    <3> QED BY <1>0, <1>1, <2>2, <3>1, OtherStatus DEF SaveAnalysis
  <2>3. CASE row' = row
    BY <1>1, <2>3, NothingRendered
  <2> QED BY <2>1, <2>2, <2>3 DEF RunAnalyze, ReadJob, Sample, DecodeWrite, DecodeCancelled,
          DecodeEnd, ListFrames, Detect
<1> QED BY <1>2, <1>3, <1>4, <1>5

\* The move makes at most one new folder, and leaves those that are there alone.
LEMMA MoveIsNew ==
  ASSUME DiskInv, pc[P] = "move"
  PROVE  /\ \A S : Filled(P, S) = Append(outs, [job |-> cur[P].job, pdfs |-> S])
         /\ HalfMoved(P) => \/ outs' = outs
                           \/ \E S \in SUBSET Songs :
                                outs' = Append(outs, [job |-> cur[P].job, pdfs |-> S])
<1>1. outs \in Seq(Folder) /\ mem[P].target = Len(outs) + 1
  BY DEF DiskInv, TypeInv, TypeOK, Held, TargetFree
<1>2. mem[P].target \notin DOMAIN outs
  BY <1>1
<1>3. \A S : Filled(P, S) = Append(outs, [job |-> cur[P].job, pdfs |-> S])
  BY <1>2 DEF Filled
<1>4. staged[cur[P].job] \subseteq Songs
  BY TheThreads, TaskFields DEF DiskInv, TypeInv, TypeOK
<1> QED BY <1>3, <1>4 DEF HalfMoved

\* Folders that are there stay as they are, when one is added or none.
LEMMA FoldersKept ==
  ASSUME DiskInv, NEW S \in SUBSET Songs, cur[P].job \in Jobs,
         outs' = outs \/ outs' = Append(outs, [job |-> cur[P].job, pdfs |-> S])
  PROVE  \A k \in DOMAIN outs : k \in DOMAIN outs' /\ outs'[k] = outs[k]
<1>1. outs \in Seq(Folder) /\ [job |-> cur[P].job, pdfs |-> S] \in Folder
  BY DEF DiskInv, TypeInv, TypeOK, Folder
<1> QED BY <1>1

LEMMA RenderDisk ==
  ASSUME DiskInv, RunRender(P)
  PROVE  DownStays' /\ Sorted' /\ Held' /\ RenderedIsPublished'
<1> USE DEF DiskInv
<1> DEFINE j == cur[P].job
<1>0. /\ pc[P] # "idle" /\ j \in Jobs /\ row[j] \in Row /\ mem[P] \in Memory
  BY TheThreads, TaskFields DEF RunRender, Running, Step, LoadJob, MarkRendering, OpenFrames,
     ComposeSong, ComposeDone, ChooseTarget, MoveOutput, RecordRender, CleanWorkdir
<1>t. pc \in [Threads -> Places] /\ cur \in [Threads -> Task \cup {NoTask}]
      /\ mem \in [Threads -> Memory] /\ frames \in [Jobs -> Coverage]
      /\ staged \in [Jobs -> SUBSET Songs] /\ outs \in Seq(Folder) /\ row \in [Jobs -> Row]
  BY DEF TypeInv, TypeOK
<1>1. queue' = queue /\ \A u \in Threads \ {P} : pc'[u] = pc[u]
  BY <1>t, TheThreads DEF RunRender, Running, Step, LoadJob, MarkRendering, OpenFrames,
     ComposeSong, ComposeDone, ChooseTarget, MoveOutput, RecordRender, CleanWorkdir, Go,
     Raise, Emit, Finish
<1>2. DownStays' /\ Sorted'
  BY <1>1, TheThreads, DownStaysOn DEF Sorted
<1>3. CASE LoadJob(P)
  <2>1. Held'
    BY <1>t, <1>3, TheThreads, Elsewhere DEF LoadJob, Raise, Go, Relying
  <2> QED BY <1>2, <1>3, <2>1, NothingRendered DEF LoadJob, disk
<1>4. CASE MarkRendering(P)
  <2>1. Held'
    BY <1>t, <1>4, TheThreads, Elsewhere DEF MarkRendering, Go, Relying
  <2>2. [row[j] EXCEPT !.status = "rendering"].status # "rendered"
    BY <1>0 DEF Row
  <2> QED BY <1>0, <1>2, <1>4, <2>1, <2>2, OtherStatus DEF MarkRendering, disk
<1>5. CASE OpenFrames(P)
  <2>1. CASE Raise(P, "frames")
    BY <1>2, <1>5, <1>t, <2>1, TheThreads, Elsewhere, NothingRendered
       DEF OpenFrames, Raise, Go, disk, Relying
  <2>2. CASE frames[j] # "none" /\ Go(P, "compose") /\ mem' = [mem EXCEPT ![P].todo = cur[P].songs]
    <3>1. pc'[P] = "compose" /\ mem'[P].todo = cur[P].songs
      BY <1>0, <1>t, <2>2, TheThreads DEF Go, Memory
    <3>2. cur' = cur /\ frames' = frames /\ outs' = outs /\ row' = row
      BY <1>5 DEF OpenFrames, Running, disk
    <3>3. Held'
      BY <2>2, <3>1, <3>2 DEF Held, FramesThere, SongsStaged, TargetFree, TargetMine
    <3> QED BY <1>2, <3>2, <3>3, NothingRendered
  <2> QED BY <1>5, <2>1, <2>2 DEF OpenFrames
<1>6. CASE ComposeSong(P)
  <2>0. cur' = cur /\ frames' = frames /\ outs' = outs /\ row' = row /\ pc[P] = "compose"
    BY <1>6 DEF ComposeSong, Running, Step
  <2>1. CASE pc' = pc /\ \E s \in mem[P].todo :
               /\ staged' = [staged EXCEPT ![j] = @ \cup {s}]
               /\ mem' = [mem EXCEPT ![P].todo = @ \ {s}]
    <3>1. PICK s \in mem[P].todo : /\ staged' = [staged EXCEPT ![j] = @ \cup {s}]
                                   /\ mem' = [mem EXCEPT ![P].todo = @ \ {s}]
      BY <2>1
    <3>2. staged'[j] = staged[j] \cup {s} /\ mem'[P].todo = mem[P].todo \ {s}
      BY <1>0, <1>t, <3>1, TheThreads DEF Memory
    <3>3. cur[P].songs \subseteq staged[j] \cup mem[P].todo /\ frames[j] # "none"
      BY <2>0 DEF Held, SongsStaged, FramesThere, Relying
    <3>4. cur[P].songs \subseteq staged'[j] \cup mem'[P].todo
      BY <3>2, <3>3
    <3>5. Held'
      BY <2>0, <2>1, <3>3, <3>4 DEF Held, FramesThere, SongsStaged, TargetFree, TargetMine
    <3> QED BY <1>2, <2>0, <3>5, NothingRendered
  <2>2. CASE pc'[P] = "fail"
    BY <1>2, <2>0, <2>2, Elsewhere, NothingRendered DEF Relying
  <2> QED BY <1>6, <1>t, <2>1, <2>2, TheThreads DEF ComposeSong, Raise, Go
<1>7. CASE ComposeDone(P)
  <2>0. cur' = cur /\ frames' = frames /\ outs' = outs /\ row' = row /\ staged' = staged
        /\ pc[P] = "compose" /\ mem[P].todo = {}
    BY <1>7 DEF ComposeDone, Running, Step, disk
  <2>1. CASE pc'[P] = "publish"
    <3>1. cur[P].songs \subseteq staged[j] /\ frames[j] # "none"
      BY <2>0 DEF Held, SongsStaged, FramesThere, Relying
    <3>2. Held'
      BY <2>0, <2>1, <3>1 DEF Held, FramesThere, SongsStaged, TargetFree, TargetMine
    <3> QED BY <1>2, <2>0, <3>2, NothingRendered
  <2>2. CASE pc'[P] = "fail"
    BY <1>2, <2>0, <2>2, Elsewhere, NothingRendered DEF Relying
  <2> QED BY <1>7, <1>t, <2>1, <2>2, TheThreads DEF ComposeDone, Emit, Raise, Go
<1>8. CASE ChooseTarget(P)
  <2>0. cur' = cur /\ frames' = frames /\ outs' = outs /\ row' = row /\ staged' = staged
        /\ pc[P] = "publish"
    BY <1>8 DEF ChooseTarget, Running, Step, disk
  <2>1. pc'[P] = "move" /\ mem'[P].target = Len(outs) + 1
    BY <1>0, <1>8, <1>t, TheThreads DEF ChooseTarget, Go, FreeTarget, Memory
  <2>2. cur[P].songs \subseteq staged[j] /\ frames[j] # "none"
    BY <2>0 DEF Held, SongsStaged, FramesThere, Relying
  <2>3. Held'
    BY <2>0, <2>1, <2>2 DEF Held, FramesThere, SongsStaged, TargetFree, TargetMine
  <2> QED BY <1>2, <2>0, <2>3, NothingRendered
<1>9. CASE MoveOutput(P)
  <2>0. cur' = cur /\ row' = row /\ pc[P] = "move"
    BY <1>9 DEF MoveOutput, Running, Step
  <2>1. CASE outs' = Filled(P, staged[j]) /\ Go(P, "record") /\ mem' = mem
    <3>1. outs' = Append(outs, [job |-> j, pdfs |-> staged[j]])
      BY <2>0, <2>1, MoveIsNew
    <3>2. mem[P].target = Len(outs) + 1 /\ cur[P].songs \subseteq staged[j]
      BY <2>0 DEF Held, SongsStaged, TargetFree
    <3>3. DOMAIN outs' = 1 .. Len(outs) + 1
          /\ outs'[Len(outs) + 1] = [job |-> j, pdfs |-> staged[j]]
          /\ \A k \in DOMAIN outs : k \in DOMAIN outs' /\ outs'[k] = outs[k]
      <4>1. [job |-> j, pdfs |-> staged[j]] \in Folder
        BY <1>0, <1>t DEF Folder
      <4> QED BY <1>t, <3>1, <4>1
    <3>4. Len(outs) \in Nat /\ pc'[P] = "record"
      BY <1>t, <2>1, TheThreads DEF Go
    <3>5. TargetMine'
      BY <2>0, <2>1, <3>2, <3>3, <3>4 DEF TargetMine
    <3>6. Held'
      BY <2>0, <3>4, <3>5 DEF Held, FramesThere, SongsStaged, TargetFree, Relying
    <3>7. RenderedIsPublished'
      BY <2>0, <3>3 DEF RenderedIsPublished
    <3> QED BY <1>2, <3>6, <3>7
  <2>2. CASE HalfMoved(P) /\ Raise(P, "engine")
    <3>1. pc'[P] = "fail"
      BY <1>t, <2>2, TheThreads DEF Raise, Go
    <3>2. Held'
      BY <3>1, Elsewhere DEF Relying
    <3>3. RenderedIsPublished'
      BY <1>0, <2>0, <2>2, MoveIsNew, FoldersKept DEF RenderedIsPublished
    <3> QED BY <1>2, <3>2, <3>3
  <2> QED BY <1>9, <2>1, <2>2 DEF MoveOutput
<1>10. CASE RecordRender(P)
  <2>0. outs' = outs /\ pc'[P] = "clean" /\ pc[P] = "record"
    BY <1>10, <1>t, TheThreads DEF RecordRender, Running, Step, Go, disk
  <2>1. Held'
    BY <2>0, Elsewhere DEF Relying
  <2> DEFINE r == [row[j] EXCEPT !.status = "rendered", !.out = mem[P].target,
                                 !.render = cur[P].songs]
  <2>2. r.out = mem[P].target /\ r.render = cur[P].songs
    BY <1>0 DEF Row
  <2>3. /\ mem[P].target \in DOMAIN outs /\ outs[mem[P].target].job = j
        /\ cur[P].songs \subseteq outs[mem[P].target].pdfs
    BY <2>0 DEF Held, TargetMine
  <2>4. row' = row \/ row' = [row EXCEPT ![j] = r]
    BY <1>10 DEF RecordRender, Update
  <2>5. ASSUME NEW i \in Jobs, row'[i].status = "rendered"
        PROVE  /\ row'[i].out \in DOMAIN outs
               /\ outs[row'[i].out].job = i
               /\ row'[i].render \subseteq outs[row'[i].out].pdfs
    <3>1. CASE row'[i] = row[i]
      BY <2>5, <3>1 DEF RenderedIsPublished
    <3>2. CASE i = j /\ row'[i] = r
      BY <2>2, <2>3, <3>2
    <3> HIDE DEF r
    <3> QED BY <1>t, <2>4, <3>1, <3>2
  <2>6. RenderedIsPublished'
    BY <2>0, <2>5 DEF RenderedIsPublished
  <2> QED BY <1>2, <2>1, <2>6
<1>11. CASE CleanWorkdir(P)
  <2>1. Held'
    BY <1>t, <1>11, TheThreads, Elsewhere DEF CleanWorkdir, Finish, Go, Relying
  <2> QED BY <1>2, <1>11, <2>1, NothingRendered DEF CleanWorkdir
<1> QED BY <1>3, <1>4, <1>5, <1>6, <1>7, <1>8, <1>9, <1>10, <1>11 DEF RunRender

\* A stop leaves the folders that are there as they are.
LEMMA StopKeeps ==
  ASSUME DiskInv, ProcessEnds
  PROVE  \A k \in DOMAIN outs : k \in DOMAIN outs' /\ outs'[k] = outs[k]
<1>1. CASE pc[P] = "move"
  <2>1. HalfMoved(P)
    BY <1>1, TheThreads DEF ProcessEnds
  <2>2. cur[P].job \in Jobs
    BY <1>1, TheThreads, TaskFields DEF DiskInv
  <2> QED BY <1>1, <2>1, <2>2, MoveIsNew, FoldersKept
<1>2. CASE pc[P] # "move"
  BY <1>2, TheThreads DEF ProcessEnds
<1> QED BY <1>1, <1>2

\* An orphan only adds frames; a stop empties the queues and the threads.
LEMMA SurroundingsDisk ==
  ASSUME DiskInv,
         (\E j \in Jobs : OrphanWrites(j)) \/ Shutdown \/ Kill \/ Exit \/ Restart
  PROVE  DownStays' /\ Sorted' /\ Held' /\ RenderedIsPublished'
<1> USE DEF DiskInv
<1>t. queue \in [{"job", "dl"} -> Seq(Task)] /\ frames \in [Jobs -> Coverage]
  BY DEF TypeInv, TypeOK
<1>1. CASE \E j \in Jobs : OrphanWrites(j)
  <2>1. UNCHANGED <<pc, cur, mem, queue, staged, outs, row>>
    BY <1>1 DEF OrphanWrites, threads
  <2>2. \A j \in Jobs : frames[j] # "none" => frames'[j] # "none"
    BY <1>1, <1>t DEF OrphanWrites
  <2>3. Held'
    BY <2>1, <2>2, Undisturbed
  <2> QED BY <2>1, <2>3, NothingRendered DEF DownStays, Sorted
<1>2. CASE Shutdown \/ Restart
  <2>1. UNCHANGED <<pc, cur, mem, frames, staged, outs, row>>
    BY <1>2 DEF Shutdown, Restart, threads, disk
  <2>2. Sorted'
    BY <1>2, <1>t DEF Shutdown, Restart, Sorted
  <2>3. Held'
    BY <2>1, Undisturbed
  <2> QED BY <2>1, <2>2, <2>3, NothingRendered DEF DownStays
<1>3. CASE Kill \/ Exit
  <2>1. /\ pc' = [t \in Threads |-> "idle"] /\ row' = row
        /\ queue' = [p \in DOMAIN queue |-> <<>>]
    BY <1>3 DEF Kill, Exit, ProcessEnds
  <2>2. DownStays' /\ Held'
    BY <2>1, TheThreads, DownStaysOn, Elsewhere DEF Fetching, Relying
  <2>3. Sorted'
    BY <1>t, <2>1 DEF Sorted
  <2>4. RenderedIsPublished'
    BY <1>3, <2>1, StopKeeps DEF Kill, Exit, RenderedIsPublished
  <2> QED BY <2>2, <2>3, <2>4
<1> QED BY <1>1, <1>2, <1>3

LEMMA NextDisk == DiskInv /\ [Next]_vars => DiskInv'
<1> SUFFICES ASSUME DiskInv, [Next]_vars PROVE DiskInv'
  OBVIOUS
<1>1. TypeInv'
  BY NextType DEF DiskInv
<1>2. DownStays' /\ Sorted' /\ Held' /\ RenderedIsPublished'
  <2>1. CASE Requests \/ RemoveRow
    BY <2>1, RequestsDisk
  <2>2. CASE \E t \in Threads : Submission(t)
    BY <2>2, SubmissionDisk
  <2>3. CASE \E w \in Workers : Take(w)
    BY <2>3, TakeDisk
  <2>4. CASE \E w \in Workers : Work(w)
    <3>1. PICK w \in Workers : Work(w)
      BY <2>4
    <3>2. CASE Download(w) \/ Fail(w)
      BY <3>2, DownloadDisk
    <3>3. CASE RunAnalyze(w) \/ RunRender(w)
      <4>1. w = P
        BY <3>3, OneProcessor
      <4> QED BY <3>3, <4>1, AnalyzeDisk, RenderDisk
    <3> QED BY <3>1, <3>2, <3>3 DEF Work
  <2>5. CASE (\E j \in Jobs : OrphanWrites(j)) \/ Shutdown \/ Kill \/ Exit \/ Restart
    BY <2>5, SurroundingsDisk
  <2>6. CASE UNCHANGED vars
    <3>1. UNCHANGED <<pc, cur, mem, queue, frames, staged, outs, row>>
      BY <2>6 DEF vars, threads, disk
    <3>2. Held'
      BY <3>1, Undisturbed DEF DiskInv
    <3> QED BY <3>1, <3>2, NothingRendered DEF DiskInv, DownStays, Sorted
  <2> QED BY <2>1, <2>2, <2>3, <2>4, <2>5, <2>6 DEF Next
<1> QED BY <1>1, <1>2 DEF DiskInv

-----------------------------------------------------------------------------
LEMMA AlwaysDisk == Spec => []DiskInv
BY InitDisk, NextDisk, PTL DEF Spec

(* No run of a job has its frames removed under it, because the run that    *)
(* removes them and the run that reads them are runs of the one thread that *)
(* renders (runner.py:46, 238-244).                                         *)
THEOREM FramesAreKept == Spec => []FramesStay
<1>1. DiskInv => FramesStay
  <2> SUFFICES ASSUME DiskInv, NEW w \in Workers,
                      pc[w] \in {"decoded", "detect", "compose", "publish", "move"}
               PROVE  frames[cur[w].job] # "none"
    BY DEF FramesStay
  <2>1. w = P
    BY TheThreads DEF DiskInv, DownStays, Fetching
  <2> QED BY <2>1 DEF DiskInv, Held, FramesThere, Relying
<1> QED BY <1>1, AlwaysDisk, PTL DEF Spec

(* A job shown as rendered has a folder, made for that job, with every PDF  *)
(* of the render its row describes (runner.py:222-236, 247-257).            *)
THEOREM RenderedHasFolder == Spec => []RenderedIsPublished
<1>1. DiskInv => RenderedIsPublished
  BY DEF DiskInv
<1> QED BY <1>1, AlwaysDisk, PTL DEF Spec

(* A folder that was handed to the user is never written to again, because  *)
(* between the choice of a name and the move onto it nobody else publishes  *)
(* (runner.py:222-236).                                                     *)
THEOREM FoldersStay == Spec => PublishedIntact
<1>1. ASSUME DiskInv, [Next]_vars, NEW k \in DOMAIN outs
      PROVE  k \in DOMAIN outs' /\ outs'[k] = outs[k]
  <2>1. CASE outs' = outs
    BY <1>1, <2>1
  <2>2. CASE \E w \in Workers : MoveOutput(w)
    <3>1. PICK w \in Workers : MoveOutput(w)
      BY <2>2
    <3>2. w = P
      BY <1>1, <3>1, OneProcessor DEF RunRender
    <3>3. /\ pc[P] = "move" /\ cur[P].job \in Jobs
          /\ outs' = Filled(P, staged[cur[P].job]) \/ HalfMoved(P)
      BY <1>1, <3>1, <3>2, TheThreads, TaskFields DEF MoveOutput, Running, Step, DiskInv
    <3>4. staged[cur[P].job] \subseteq Songs
      BY <1>1, <3>3 DEF DiskInv, TypeInv, TypeOK
    <3> QED BY <1>1, <3>3, <3>4, MoveIsNew, FoldersKept
  <2>3. Requests => outs' = outs
    BY DEF Requests, CreateLocalJob, YoutubeJob, Analyze, Render, Cancel, Delete, MoveVideo, disk
  <2>4. ASSUME NEW w \in Workers, Download(w) PROVE outs' = outs
    BY <2>4 DEF Download, FetchLine, FetchEnd, FetchDone, Landed, disk
  <2>5. ASSUME NEW w \in Workers, RunAnalyze(w) PROVE outs' = outs
    BY <2>5 DEF RunAnalyze, ReadJob, MarkAnalyzing, Sample, DecodeWrite, DecodeCancelled,
       DecodeEnd, ListFrames, Detect, SaveAnalysis, disk
  <2>6. ASSUME NEW w \in Workers, RunRender(w) PROVE outs' = outs \/ MoveOutput(w)
    BY <2>6 DEF RunRender, LoadJob, MarkRendering, OpenFrames, ComposeSong, ComposeDone,
       ChooseTarget, RecordRender, CleanWorkdir, disk
  <2>7. ASSUME NEW w \in Workers, Take(w) \/ Fail(w) PROVE outs' = outs
    BY <2>7 DEF Take, Fail, disk
  <2>8. ASSUME NEW t \in Threads, Submission(t) PROVE outs' = outs
    BY <2>8 DEF Submission, ClearCancel, MarkSubmitted, Submit, disk
  <2>9. RemoveRow \/ (\E j \in Jobs : OrphanWrites(j)) => outs' = outs
    BY DEF RemoveRow, OrphanWrites, disk
  <2>10. Shutdown \/ Restart => outs' = outs
    BY DEF Shutdown, Restart, disk
  <2>13. CASE Kill \/ Exit
    BY <1>1, <2>13, StopKeeps DEF Kill, Exit
  <2>11. UNCHANGED vars => outs' = outs
    BY DEF vars, disk
  <2>12. Next => outs' = outs \/ (\E w \in Workers : MoveOutput(w)) \/ Kill \/ Exit
    BY <2>3, <2>4, <2>5, <2>6, <2>7, <2>8, <2>9, <2>10 DEF Next, Work
  <2> QED BY <1>1, <2>1, <2>2, <2>11, <2>12, <2>13
<1>2. DiskInv /\ [Next]_vars =>
        [\A k \in DOMAIN outs : k \in DOMAIN outs' /\ outs'[k] = outs[k]]_vars
  BY <1>1
<1> QED BY <1>2, AlwaysDisk, PTL DEF Spec, PublishedIntact
=============================================================================
