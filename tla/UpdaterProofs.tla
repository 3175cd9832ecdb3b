---------------------------- MODULE UpdaterProofs ----------------------------
(***************************************************************************)
(* For any number of requests, chunks and releases: as long as no two      *)
(* updates overlapped, the user's copy of yt-dlp is one whole release.     *)
(***************************************************************************)
EXTENDS Updater, TLAPS

\* At most one request is at work.
Alone == \A u, v \in Updaters : pc[u] \in Active /\ pc[v] \in Active => u = v

\* The file being written is not the one in use.
Apart == tmp # NoFile => tmp # target

\* A request that has not opened its file owns no file and has read nothing.
Fresh == \A u \in Updaters : pc[u] \in {"idle", "open"} =>
           u # tmp /\ u # target /\ run[u].got = 0

\* What a request has read so far is in the file it opened, which is yt-dlp.part.
Written == \A u \in Updaters : pc[u] \in {"chunk", "replace"} =>
             /\ run[u].file = tmp /\ tmp \in Files
             /\ \A k \in 1..run[u].got : data[tmp][k] = run[u].asset

\* A request installs its file after the last chunk.
Complete == \A u \in Updaters : pc[u] = "replace" => run[u].got = Chunks

\* What the updates keep as long as they do not overlap.
Held == TypeOK /\ Alone /\ Apart /\ Fresh /\ Written /\ Complete /\ CopyIsWhole

\* The inductive invariant: once two have overlapped nothing is claimed.
IInv == overlapped \/ Held

USE UpdaterAssumption DEF NoFile, Files, Releases, Active

\* A copy that is there when the process starts is a whole one.
LEMMA InitHolds == Init => Held
<1> SUFFICES ASSUME Init PROVE Held
  OBVIOUS
<1>1. TypeOK
  <2>1. data \in [Files -> Contents]
    BY DEF Init, Contents
  <2>2. run \in [Updaters -> Run]
    BY DEF Init, NoRun, Run
  <2>3. /\ latest \in Releases /\ tmp = NoFile /\ target \in Files \cup {NoFile}
        /\ exec \subseteq Files \cup {NoFile} /\ stops \in Nat
        /\ pc \in [Updaters -> Active \cup {"idle", "failed", "done"}]
    BY DEF Init
  <2>4. overlapped \in BOOLEAN
    BY Zenon DEF Init
  <2> QED BY <2>1, <2>2, <2>3, <2>4 DEF TypeOK
<1>2. CopyIsWhole
  <2>1. \A k \in 1..Chunks : data["old"][k] = 1
    BY DEF Init
  <2>2. 1 \in Releases /\ target \in {NoFile, "old"}
    BY DEF Init
  <2> QED BY <2>1, <2>2 DEF CopyIsWhole, IsRelease
<1> QED BY <1>1, <1>2 DEF Init, Held, Alone, Apart, Fresh, Written, Complete, NoRun

\* A failure disturbs nobody, whether yt-dlp.part stays or not: only the request
\* itself is at work.
LEMMA DiscardHolds ==
  ASSUME Held, NEW u \in Updaters, Discard(u) \/ Abandon(u), UNCHANGED overlapped,
         \A v \in Updaters : pc[v] \in Active => v = u
  PROVE  Held'
<1> USE DEF Held, Discard, Abandon, Go
<1>1. TypeOK'
  BY DEF TypeOK
<1>2. Alone' /\ Apart'
  BY DEF TypeOK, Alone, Apart
<1>3. Fresh' /\ Written' /\ Complete'
  BY DEF TypeOK, Fresh, Written, Complete
<1>4. CopyIsWhole'
  BY DEF CopyIsWhole, IsRelease
<1> QED BY <1>1, <1>2, <1>3, <1>4

\* A request that begins alone finds no request at work.
LEMMA FetchSumsHolds ==
  ASSUME ~overlapped', Held, NEW u \in Updaters, FetchSums(u)
  PROVE  Held'
<1>0. /\ pc[u] = "idle" /\ UNCHANGED overlapped
      /\ \A v \in Updaters : pc[v] \notin Active
  BY DEF FetchSums, Held, TypeOK
<1>1. CASE Discard(u) \/ Abandon(u)
  BY <1>0, <1>1, DiscardHolds
<1>2. CASE /\ run' = [run EXCEPT ![u].expected = latest]
           /\ Go(u, "open")
           /\ UNCHANGED <<latest, data, tmp, target, exec, stops>>
  <2> USE <1>0, <1>2 DEF Held, Go
  <2>1. TypeOK'
    BY DEF TypeOK, Run
  <2>2. \A v \in Updaters : /\ run'[v].got = run[v].got
                            /\ run'[v].file = run[v].file
                            /\ run'[v].asset = run[v].asset
    BY DEF TypeOK, Run
  <2>3. Alone' /\ Apart'
    BY <1>0 DEF TypeOK, Alone, Apart
  <2>4. Fresh' /\ Written' /\ Complete'
    BY <1>0, <2>2 DEF TypeOK, Fresh, Written, Complete
  <2>5. CopyIsWhole'
    BY DEF CopyIsWhole, IsRelease
  <2> QED BY <2>1, <2>3, <2>4, <2>5
<1> QED BY <1>1, <1>2 DEF FetchSums

\* The file that is opened, new or left behind, is not the one in use.
LEMMA OpenTmpHolds ==
  ASSUME Held, NEW u \in Updaters, OpenTmp(u)
  PROVE  Held'
<1> DEFINE f == IF tmp = NoFile THEN u ELSE tmp
<1>0. pc[u] = "open" /\ \A v \in Updaters : pc[v] \in Active => v = u
  BY DEF OpenTmp, Held, Alone
<1>1. f \in Files /\ f # target /\ f # NoFile /\ run[u].got = 0
  BY <1>0 DEF Held, TypeOK, Apart, Fresh
<1>2. /\ tmp' = f /\ data' = [data EXCEPT ![f] = Blank]
      /\ run' = [run EXCEPT ![u] = [run[u] EXCEPT !.asset = latest, !.file = f]]
      /\ pc' = [pc EXCEPT ![u] = "chunk"]
      /\ UNCHANGED <<latest, target, exec, stops, overlapped>>
  BY DEF OpenTmp, Go
<1> HIDE DEF f
<1> USE <1>1, <1>2 DEF Held
<1>3. TypeOK'
  <2>1. Blank \in Contents
    BY DEF Blank, Contents
  <2>2. PICK r : r = [run[u] EXCEPT !.asset = latest, !.file = f]
    OBVIOUS
  <2>3. run' = [run EXCEPT ![u] = r]
    BY <2>2 DEF TypeOK
  <2>4. r \in Run
    <3>1. latest \in Releases /\ run[u] \in Run /\ f \in Files
      BY DEF TypeOK
    <3> QED BY <2>2, <3>1 DEF Run
  <2>5. run' \in [Updaters -> Run]
    BY <2>3, <2>4 DEF TypeOK
  <2> QED BY <2>1, <2>5 DEF TypeOK
<1>4. run'[u].got = 0 /\ run'[u].file = f
  BY DEF TypeOK, Run
<1>5. Alone' /\ Apart'
  BY <1>0 DEF TypeOK, Alone, Apart
<1>6. Fresh'
  <2>1. \A v \in Updaters : pc'[v] \in {"idle", "open"} =>
          v # u /\ v # tmp /\ v # target /\ run'[v].got = run[v].got /\ run[v].got = 0
    BY <1>0 DEF TypeOK, Fresh
  <2>2. f = u \/ f = tmp
    BY DEF f
  <2> QED BY <2>1, <2>2 DEF Fresh
<1>7. Written' /\ Complete'
  <2>1. \A v \in Updaters : pc'[v] \in {"chunk", "replace"} => v = u
    BY <1>0 DEF TypeOK
  <2>2. pc'[u] = "chunk" /\ (1..run'[u].got) = {}
    BY <1>4 DEF TypeOK
  <2> QED BY <1>4, <2>1, <2>2 DEF Written, Complete
<1>8. CopyIsWhole'
  BY DEF CopyIsWhole, IsRelease, TypeOK
<1> QED BY <1>3, <1>5, <1>6, <1>7, <1>8

\* A chunk lands in yt-dlp.part, never in the copy in use.
LEMMA ReadChunkHolds ==
  ASSUME Held, NEW u \in Updaters, ReadChunk(u)
  PROVE  Held'
<1>0. pc[u] = "chunk" /\ \A v \in Updaters : pc[v] \in Active => v = u
  BY DEF ReadChunk, Held, Alone
<1> PICK k : k = run[u].got + 1
  OBVIOUS
<1>1. /\ k \in 1..Chunks
      /\ run[u].file = tmp /\ tmp \in Files /\ tmp # target
      /\ run[u].asset \in Releases /\ run[u].got \in 0..Chunks
      /\ \A i \in 1..run[u].got : data[tmp][i] = run[u].asset
  BY <1>0 DEF ReadChunk, Held, TypeOK, Written, Apart, Run
<1>2. /\ data' = [data EXCEPT ![tmp][k] = run[u].asset]
      /\ run' = [run EXCEPT ![u].got = k]
      /\ UNCHANGED <<latest, tmp, target, exec, pc, stops, overlapped>>
  BY <1>1 DEF ReadChunk
<1>3. data[tmp] \in Contents
  BY <1>1 DEF Held, TypeOK
<1>4. /\ data'[tmp] = [data[tmp] EXCEPT ![k] = run[u].asset]
      /\ \A g \in Files \ {tmp} : data'[g] = data[g]
      /\ data' \in [Files -> Contents]
  BY <1>1, <1>2, <1>3 DEF Held, TypeOK, Contents
<1>5. /\ run' \in [Updaters -> Run]
      /\ run'[u].got = k /\ run'[u].file = run[u].file /\ run'[u].asset = run[u].asset
      /\ \A v \in Updaters \ {u} : run'[v] = run[v]
  BY <1>1, <1>2 DEF Held, TypeOK, Run
<1>6. TypeOK'
  BY <1>2, <1>4, <1>5 DEF Held, TypeOK
<1>7. Alone' /\ Apart' /\ Fresh' /\ Complete'
  BY <1>0, <1>2, <1>5 DEF Held, Alone, Apart, Fresh, Complete
<1>8. Written'
  <2>1. \A i \in 1..k : data'[tmp][i] = run[u].asset
    <3> SUFFICES ASSUME NEW i \in 1..k PROVE data'[tmp][i] = run[u].asset
      OBVIOUS
    <3>1. CASE i = k
      BY <1>1, <1>3, <1>4, <3>1 DEF Contents
    <3>2. CASE i # k
      <4>1. i \in 1..Chunks /\ i \in 1..run[u].got
        BY <1>1, <3>2
      <4>2. data'[tmp][i] = data[tmp][i]
        BY <1>3, <1>4, <3>2, <4>1 DEF Contents
      <4> QED BY <1>1, <4>1, <4>2
    <3> QED BY <3>1, <3>2
  <2>2. \A v \in Updaters : pc'[v] \in {"chunk", "replace"} => v = u
    BY <1>0, <1>2
  <2> QED BY <1>1, <1>2, <1>5, <2>1, <2>2 DEF Written
<1>9. CopyIsWhole'
  BY <1>1, <1>2, <1>4 DEF Held, CopyIsWhole, IsRelease, TypeOK
<1> QED BY <1>6, <1>7, <1>8, <1>9 DEF Held

\* Only a stream that was read to its end passes the digest.
LEMMA VerifyHolds ==
  ASSUME Held, NEW u \in Updaters, Verify(u)
  PROVE  Held'
<1>0. pc[u] = "chunk" /\ \A v \in Updaters : pc[v] \in Active => v = u
  BY DEF Verify, Held, Alone
<1>1. CASE ~DigestMatches(u)
  BY <1>0, <1>1, DiscardHolds DEF Verify
<1>2. CASE DigestMatches(u)
  <2>1. pc' = [pc EXCEPT ![u] = "replace"]
        /\ UNCHANGED <<latest, data, tmp, target, exec, run, stops, overlapped>>
        /\ run[u].got = Chunks
    BY <1>2 DEF Verify, Go, DigestMatches
  <2> USE <2>1 DEF Held
  <2>2. TypeOK' /\ Alone' /\ Apart' /\ Fresh'
    BY <1>0 DEF TypeOK, Alone, Apart, Fresh
  <2>3. Written' /\ Complete' /\ CopyIsWhole'
    BY <1>0 DEF TypeOK, Written, Complete, CopyIsWhole, IsRelease
  <2> QED BY <2>2, <2>3
<1> QED BY <1>1, <1>2

\* What takes the place of the copy is the release that was read to its end.
LEMMA ReplaceHolds ==
  ASSUME Held, NEW u \in Updaters, Replace(u)
  PROVE  Held'
<1>0. pc[u] = "replace" /\ \A v \in Updaters : pc[v] \in Active => v = u
  BY DEF Replace, Held, Alone
<1>1. /\ tmp \in Files /\ tmp # NoFile /\ run[u].asset \in Releases
      /\ \A k \in 1..Chunks : data[tmp][k] = run[u].asset
  BY <1>0 DEF Held, TypeOK, Written, Complete, Run
<1>2. /\ target' = tmp /\ tmp' = NoFile /\ pc' = [pc EXCEPT ![u] = "chmod"]
      /\ UNCHANGED <<latest, data, exec, run, stops, overlapped>>
  BY <1>1 DEF Replace, Go
<1>3. IsRelease(target)'
  BY <1>1, <1>2 DEF IsRelease
<1> USE <1>2 DEF Held
<1>4. TypeOK'
  BY <1>1 DEF TypeOK
<1>5. Alone' /\ Apart'
  BY <1>0 DEF TypeOK, Alone, Apart
<1>6. Fresh' /\ Written' /\ Complete'
  BY <1>0, <1>1 DEF TypeOK, Fresh, Written, Complete
<1> QED BY <1>3, <1>4, <1>5, <1>6 DEF CopyIsWhole

\* Steps that touch neither the files nor what the requests know.
LEMMA OtherHolds ==
  ASSUME Held, Publish \/ Die \/ UNCHANGED vars \/ \E u \in Updaters : Chmod(u)
  PROVE  Held'
<1>1. UNCHANGED <<data, tmp, target, run, overlapped>>
  BY DEF Publish, Die, vars, Chmod
<1>2. TypeOK'
  BY DEF Held, TypeOK, Publish, Die, vars, Chmod, Go
<1>3. \A v \in Updaters : /\ pc'[v] \in Active => pc[v] \in Active
                          /\ pc'[v] \in {"idle", "open", "chunk", "replace"}
                               => pc'[v] = pc[v]
  BY DEF Held, TypeOK, Publish, Die, vars, Chmod, Go
<1>4. Alone' /\ Apart' /\ Fresh'
  BY <1>1, <1>3 DEF Held, Alone, Apart, Fresh
<1>5. Written' /\ Complete' /\ CopyIsWhole'
  BY <1>1, <1>3 DEF Held, Written, Complete, CopyIsWhole, IsRelease
<1> QED BY <1>2, <1>4, <1>5 DEF Held

\* Every step of updates that do not overlap keeps what they rely on.
LEMMA StepHolds == IInv /\ [Next]_vars => IInv'
<1> SUFFICES ASSUME IInv, [Next]_vars, ~overlapped' PROVE Held'
  BY DEF IInv
<1>1. ~overlapped
  BY DEF Next, Update, FetchSums, OpenTmp, ReadChunk, NetworkFails, Verify, Replace,
         Chmod, Publish, Die, vars
<1>2. Held
  BY <1>1 DEF IInv
<1>3. ASSUME NEW u \in Updaters, NetworkFails(u) PROVE Held'
  BY <1>2, <1>3, DiscardHolds DEF NetworkFails, Held, Alone
<1> QED BY <1>2, <1>3, FetchSumsHolds, OpenTmpHolds, ReadChunkHolds, VerifyHolds,
           ReplaceHolds, OtherHolds DEF Next, Update

\* Updates that do not overlap never put a truncated, mixed or unverified
\* download in the place of the copy of yt-dlp that downloads use
\* (ytdlp.update), whatever fails, is published or dies meanwhile.
THEOREM SerialUpdatesKeepCopyWhole == Spec => []CopyIsWhole
<1>1. Init => IInv
  BY InitHolds DEF IInv
<1>2. IInv /\ [Next]_vars => IInv'
  BY StepHolds
<1>3. IInv => CopyIsWhole
  BY DEF IInv, Held, CopyIsWhole
<1> QED BY <1>1, <1>2, <1>3, PTL DEF Spec

-----------------------------------------------------------------------------
\* The request that puts a copy in place has its chmod to do next.
RunsInv == /\ pc \in [Updaters -> Active \cup {"idle", "failed", "done"}]
           /\ stops \in Nat
           /\ CopyRuns

LEMMA RunsStep == RunsInv /\ [Next]_vars => RunsInv'
<1> SUFFICES ASSUME RunsInv, [Next]_vars PROVE RunsInv'
  OBVIOUS
<1> USE DEF RunsInv
<1>1. ASSUME NEW u \in Updaters, Update(u), ~Replace(u), ~Chmod(u) PROVE RunsInv'
  <2>1. UNCHANGED <<target, exec, stops>> /\ pc[u] # "chmod"
        /\ \E p \in {"open", "chunk", "replace", "failed"} :
             pc' = [pc EXCEPT ![u] = p] \/ pc' = pc
    BY <1>1 DEF Update, FetchSums, OpenTmp, ReadChunk, NetworkFails, Verify, Discard, Abandon, Go
  <2> QED BY <2>1 DEF CopyRuns, Active
<1>2. ASSUME NEW u \in Updaters, Replace(u) PROVE RunsInv'
  <2>1. CASE pc' = [pc EXCEPT ![u] = "chmod"] /\ stops' = stops
    BY <2>1 DEF CopyRuns, Active
  <2>2. CASE pc' = [pc EXCEPT ![u] = "failed"] /\ UNCHANGED <<target, exec, stops>>
    BY <1>2, <2>2 DEF Replace, CopyRuns
  <2> QED BY <1>2, <2>1, <2>2 DEF Replace, Go
<1>3. ASSUME NEW u \in Updaters, Chmod(u) PROVE RunsInv'
  <2>1. target' \in exec'
    BY <1>3 DEF Chmod
  <2> QED BY <1>3, <2>1 DEF Chmod, Go, CopyRuns, Active
<1>4. CASE Die
  BY <1>4 DEF Die, CopyRuns, Active
<1>5. CASE Publish \/ UNCHANGED vars
  BY <1>5 DEF Publish, vars, CopyRuns
<1> QED BY <1>1, <1>2, <1>3, <1>4, <1>5 DEF Next

\* However updates overlap, the copy that is in place can be executed or the
\* request that put it there will see to it (ytdlp.update): only a death of the
\* process between the two leaves a copy that cannot be.
THEOREM InstalledCopyRuns == Spec => []CopyRuns
<1>1. Init => RunsInv
  BY DEF Init, RunsInv, CopyRuns
<1>2. RunsInv => CopyRuns
  BY DEF RunsInv
<1> QED BY <1>1, <1>2, RunsStep, PTL DEF Spec
=============================================================================
