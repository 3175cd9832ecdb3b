------------------------------- MODULE MCJobs -------------------------------
(***************************************************************************)
(* Small instances of Jobs for TLC, and what the documentation, the user   *)
(* interface and the comments of the repository claim of it.  The runs of  *)
(* the claims end in a counterexample: README.md says what each shows.     *)
(***************************************************************************)
EXTENDS Jobs, TLC

CONSTANTS f1, u1, s1, s2

\* A job of a link that is run again after its render is downloaded again
\* (main.analyze, HistoryPanel): it does not fail for want of the video that
\* its own render removed.
RerunDownloadsAgain == \A j \in UrlJobs :
  row[j].out # 0 => row[j].error # "source"

\* Running a job again analyses the original video (HistoryPanel), all of it,
\* not the frames an interrupted run left behind (sampling.extract_frames).
AnalysisCoversVideo == \A j \in FileJobs : row[j].analysis # "partial"

\* A run can be cancelled at any point (ProgressScreen): the analysis that
\* follows a download does not go on after a cancel (runner._run_download).
CancelObeyedByLinks == [][ObeysCancel(UrlJobs)]_vars

\* The folder of a job holds one PDF per song of its render (README), and none
\* of an earlier render that was cancelled or failed (pipeline.render_all).
FolderHoldsOnlyItsRender == \A j \in Jobs :
  row[j].status = "rendered" => outs[row[j].out].pdfs \subseteq row[j].render

\* The path in the table is the video that was downloaded (ytdlp.download), not
\* what an earlier, failed download left beside it.
PathIsWholeVideo == \A j \in UrlJobs : \A f \in row[j].path : ~f.part

\* What is intermediate is deleted when the job finishes (config): nothing of
\* a deleted job stays on disk once no thread works for it.
DeletedLeavesNothing == \A j \in Jobs :
  /\ row[j].status = "deleted" /\ ~Queued(j)
  /\ \A t \in Threads : pc[t] = "idle"
  => frames[j] = "none"

\* The interface finds out from the job's state (progress): a job that waits or
\* runs settles even when the sidecar is stopped and started again.
SettlesAcrossStops == \A j \in Jobs :
  row[j].status \in Active ~> row[j].status \notin Active
=============================================================================
