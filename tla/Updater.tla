------------------------------- MODULE Updater -------------------------------
(***************************************************************************)
(* ytdlp.update: the download of the latest yt-dlp into the data directory *)
(* and its installation as the user's copy.  Each request runs in a thread *)
(* of its own.  All of them write the same yt-dlp.part, while releases are *)
(* published, connections break and the process may die.                   *)
(***************************************************************************)
EXTENDS Naturals

CONSTANTS Updaters,    \* the requests to update, one run of update() each
          Chunks,      \* reads it takes to download the binary
          MaxReleases, \* bound on the releases published
          MaxStops     \* bound on the times the process dies

ASSUME UpdaterAssumption == /\ Chunks \in Nat \ {0} /\ MaxReleases \in Nat \ {0}
                            /\ MaxStops \in Nat
                            /\ "none" \notin Updaters /\ "old" \notin Updaters

VARIABLES
  latest,    \* the release that is the latest one now
  data,      \* the contents of each file ever created, chunk by chunk
  tmp,       \* the file named yt-dlp.part
  target,    \* the file named yt-dlp, the user's copy
  exec,      \* the files with the executable bit
  pc,        \* what each request does next
  run,       \* what each request knows: checksum and asset by release, progress
  stops,     \* times the process died
  overlapped \* history: whether a request began while another was at work

vars == <<latest, data, tmp, target, exec, pc, run, stops, overlapped>>

NoFile   == "none"
Files    == Updaters \cup {"old"}   \* a file is known by who created it
Releases == 1..MaxReleases

\* 0 stands for a chunk that was never written.
Contents == [1..Chunks -> Releases \cup {0}]

Blank == [k \in 1..Chunks |-> 0]

\* expected is the release the checksum was published for, asset the one the
\* connection serves, got the chunks read from it, file what open() returned.
Run  == [expected : Releases, asset : Releases, got : 0..Chunks, file : Files \cup {NoFile}]
NoRun == [expected |-> 1, asset |-> 1, got |-> 0, file |-> NoFile]

Active == {"open", "chunk", "replace", "chmod"}

\* The data directory holds no copy yet, or a working one.
Init == /\ latest = 1
        /\ data = [f \in Files |-> [k \in 1..Chunks |-> IF f = "old" THEN 1 ELSE 0]]
        /\ tmp = NoFile
        /\ target \in {NoFile, "old"}
        /\ exec = {"old"}
        /\ pc = [u \in Updaters |-> "idle"]
        /\ run = [u \in Updaters |-> NoRun]
        /\ stops = 0
        /\ overlapped = FALSE

-----------------------------------------------------------------------------
Go(u, p) == pc' = [pc EXCEPT ![u] = p]

\* The request raises, removing whatever is named yt-dlp.part.
Discard(u) == /\ tmp' = NoFile
              /\ Go(u, "failed")
              /\ UNCHANGED <<latest, data, target, exec, run, stops>>

\* It raises what is no OSError (an answer that is no HTTP, no checksum of that
\* name): the file of that name, of this request or an earlier one, stays.
Abandon(u) == /\ Go(u, "failed")
              /\ UNCHANGED <<latest, data, tmp, target, exec, run, stops>>

\* Any request to the release server may fail.
NetworkFails(u) == /\ pc[u] \in {"open", "chunk"}
                   /\ Discard(u) \/ Abandon(u)
                   /\ UNCHANGED overlapped

\* The checksums of the release that is the latest now.
FetchSums(u) ==
  /\ pc[u] = "idle"
  /\ overlapped' = (overlapped \/ \E v \in Updaters : pc[v] \in Active)
  /\ \/ /\ run' = [run EXCEPT ![u].expected = latest]
        /\ Go(u, "open")
        /\ UNCHANGED <<latest, data, tmp, target, exec, stops>>
     \/ Discard(u) \/ Abandon(u)

\* The binary of the release that is the latest by then; open(tmp, "wb")
\* empties the file of that name if there is one.
OpenTmp(u) ==
  LET f == IF tmp = NoFile THEN u ELSE tmp IN
  /\ pc[u] = "open"
  /\ tmp' = f
  /\ data' = [data EXCEPT ![f] = Blank]
  /\ run' = [run EXCEPT ![u] = [@ EXCEPT !.asset = latest, !.file = f]]
  /\ Go(u, "chunk")
  /\ UNCHANGED <<latest, target, exec, stops, overlapped>>

\* A chunk goes to its place in the file, whatever name the file has by now.
ReadChunk(u) ==
  LET k == run[u].got + 1 IN
  /\ pc[u] = "chunk"
  /\ k \in 1..Chunks
  /\ data' = [data EXCEPT ![run[u].file][k] = run[u].asset]
  /\ run' = [run EXCEPT ![u].got = k]
  /\ UNCHANGED <<latest, tmp, target, exec, pc, stops, overlapped>>

\* Mutant of DigestMatches: the download is taken as it comes.
AnyDigest(u) == TRUE

\* The digest is of the stream, not of the file.
DigestMatches(u) == run[u].got = Chunks /\ run[u].asset = run[u].expected

\* The stream ends, perhaps early.
Verify(u) ==
  /\ pc[u] = "chunk"
  /\ IF DigestMatches(u)
     THEN Go(u, "replace") /\ UNCHANGED <<latest, data, tmp, target, exec, run, stops>>
     ELSE Discard(u)
  /\ UNCHANGED overlapped

\* tmp.replace(target), which raises if nothing has that name any more.
Replace(u) ==
  /\ pc[u] = "replace"
  /\ \/ /\ tmp # NoFile
        /\ target' = tmp /\ tmp' = NoFile
        /\ Go(u, "chmod")
     \/ /\ tmp = NoFile
        /\ Go(u, "failed")
        /\ UNCHANGED <<target, tmp>>
  /\ UNCHANGED <<latest, data, exec, run, stops, overlapped>>

\* Mutant of Chmod: it marks the file by the name it was downloaded under.
ChmodTmp(u) ==
  /\ pc[u] = "chmod"
  /\ exec' = exec \cup {tmp}
  /\ Go(u, "done")
  /\ UNCHANGED <<latest, data, tmp, target, run, stops, overlapped>>

Chmod(u) ==
  /\ pc[u] = "chmod"
  /\ exec' = exec \cup {target}
  /\ Go(u, "done")
  /\ UNCHANGED <<latest, data, tmp, target, run, stops, overlapped>>

Publish == /\ latest < MaxReleases
           /\ latest' = latest + 1
           /\ UNCHANGED <<data, tmp, target, exec, pc, run, stops, overlapped>>

\* The process dies: its threads are gone, the files stay.
Die == /\ stops < MaxStops
       /\ stops' = stops + 1
       /\ pc' = [u \in Updaters |-> IF pc[u] \in Active THEN "failed" ELSE pc[u]]
       /\ UNCHANGED <<latest, data, tmp, target, exec, run, overlapped>>

Update(u) == \/ FetchSums(u) \/ OpenTmp(u) \/ ReadChunk(u) \/ NetworkFails(u)
             \/ Verify(u) \/ Replace(u) \/ Chmod(u)

Next == (\E u \in Updaters : Update(u)) \/ Publish \/ Die

Spec == Init /\ [][Next]_vars

-----------------------------------------------------------------------------
\* The variables hold what the code can put in them.
TypeOK == /\ latest \in Releases
          /\ data \in [Files -> Contents]
          /\ tmp \in Files \cup {NoFile}
          /\ target \in Files \cup {NoFile}
          /\ exec \subseteq Files \cup {NoFile}
          /\ pc \in [Updaters -> Active \cup {"idle", "failed", "done"}]
          /\ run \in [Updaters -> Run]
          /\ stops \in Nat
          /\ overlapped \in BOOLEAN

IsRelease(f) == \E r \in Releases : \A k \in 1..Chunks : data[f][k] = r

\* As long as no two updates overlapped, the user's copy of yt-dlp, which every
\* download prefers, is one whole release: a download that was cut, mixed, left
\* behind by a crash, or that belongs to another release than its checksum
\* never replaces it (ytdlp.update).
CopyIsWhole == ~overlapped /\ target # NoFile => IsRelease(target)

\* The copy can be executed, or the request that installed a copy last still
\* has its chmod to do: requests that overlap do not take each other's files
\* away between the two.  Only a death between the two leaves it so.
CopyRuns == stops = 0 /\ target # NoFile =>
              target \in exec \/ \E u \in Updaters : pc[u] = "chmod"

\* A truncated or tampered download never replaces the working copy (the
\* comment in ytdlp.update), also with two updates at once, which the user
\* interface and the server allow.  It does not hold.
WorkingCopyIsWhole == target # NoFile => IsRelease(target)
=============================================================================
