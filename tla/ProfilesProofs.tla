--------------------------- MODULE ProfilesProofs ---------------------------
(***************************************************************************)
(* For any names, imports, folders and bounds: the library never holds two *)
(* profiles of one name, what a rewrite saved that ran alone stays in it,  *)
(* and the preferences that are loaded are those that were saved.          *)
(***************************************************************************)
EXTENDS DataDir, TLAPS

USE DEF Threads, vars, history

\* What a save is about to write is a set of profiles.
LEMMA SavedTyped ==
  ASSUME NEW S \in SUBSET Profile, NEW n \in Names, NEW k \in 1..MaxOps
  PROVE  Saved(S, n, k) \in SUBSET Profile
BY DEF Saved, Profile

\* A look at the library, whether the load raises or not, changes only counters.
LEMMA LookTyped ==
  ASSUME NEW t \in Threads, NEW op \in {"match", "list", "save", "import"},
         TypeOK, Look(t, op)
  PROVE  TypeOK'
<1>1. UNCHANGED <<file, pc, mem, stops, kept, beside, overlapped, torn>>
  BY DEF Look, LoadRaises
<1>2. ops' \in 0..MaxOps
  BY ProfilesAssumption DEF TypeOK, Look, Begin
<1>3. raised' = raised \cup {op} \/ raised' = raised
  BY DEF Look, LoadRaises
<1>4. raised' \subseteq {"match", "list", "save", "import"}
  BY <1>3 DEF TypeOK
<1> QED BY <1>1, <1>2, <1>4 DEF TypeOK

\* A rewrite that has begun holds profiles in memory.
LEMMA RewriteTyped ==
  ASSUME NEW t \in Threads, NEW new \in SUBSET Profile, TypeOK,
         ops' \in 0..MaxOps, Rewrite(t, new)
  PROVE  TypeOK'
<1>1. overlapped' \in BOOLEAN /\ beside' \subseteq Threads
  BY DEF TypeOK, Rewrite
<1>2. UNCHANGED <<file, stops, raised, kept, torn>>
  BY DEF Rewrite
<1>3. pc' \in [Threads -> {"idle", "truncate", "write"}] /\ mem' \in [Threads -> SUBSET Profile]
  BY DEF TypeOK, Rewrite
<1> QED BY <1>1, <1>2, <1>3 DEF TypeOK

\* A library that does not exist yet is an empty one.
LEMMA TypeInit == Init => TypeOK
<1> SUFFICES ASSUME Init PROVE TypeOK
  OBVIOUS
<1>1. overlapped \in BOOLEAN /\ torn \in BOOLEAN /\ beside = {}
  BY DEF Init
<1>2. file = Whole({}) /\ pc = [t \in Threads |-> "idle"] /\ mem = [t \in Threads |-> {}]
  BY DEF Init
<1>3. ops = 0 /\ stops = 0 /\ raised = {} /\ kept = {}
  BY DEF Init
<1> QED BY <1>1, <1>2, <1>3, ProfilesAssumption DEF TypeOK, Whole, Profile

\* The variables always hold what the code can put in them.
LEMMA TypeStep == TypeOK /\ [Next]_vars => TypeOK'
<1> SUFFICES ASSUME TypeOK, [Next]_vars PROVE TypeOK'
  OBVIOUS
<1> USE ProfilesAssumption DEF TypeOK
<1>1. CASE Match
  BY <1>1, LookTyped DEF Match
<1>2. CASE List
  BY <1>2, LookTyped DEF List
<1>3. ASSUME NEW n \in Names, Save(n) PROVE TypeOK'
  <2>1. CASE LoadRaises("save")
    BY <1>3, <2>1, LookTyped DEF Look, Save
  <2>2. CASE Rewrite("worker", Saved(file.has, n, ops + 1))
    <3>1. ops' = ops + 1 /\ ops + 1 \in 1..MaxOps
      BY <1>3 DEF Save, Begin
    <3>2. Saved(file.has, n, ops + 1) \in SUBSET Profile
      BY <3>1, SavedTyped
    <3>3. "worker" \in Threads /\ ops' \in 0..MaxOps
      BY <3>1
    <3> QED BY <2>2, <3>2, <3>3, RewriteTyped
  <2> QED BY <1>3, <2>1, <2>2 DEF Save
<1>4. ASSUME NEW S \in Imports, Import(S) PROVE TypeOK'
  <2>1. CASE LoadRaises("import")
    BY <1>4, <2>1, LookTyped DEF Look, Import
  <2>2. CASE Rewrite("loop", Imported(file.has, S, ops + 1))
    <3>1. ops' = ops + 1 /\ ops + 1 \in 1..MaxOps
      BY <1>4 DEF Import, Begin
    <3>2. Imported(file.has, S, ops + 1) \in SUBSET Profile
      BY <3>1 DEF Imported, Profile
    <3>3. "loop" \in Threads /\ ops' \in 0..MaxOps
      BY <3>1
    <3> QED BY <2>2, <3>2, <3>3, RewriteTyped
  <2> QED BY <1>4, <2>1, <2>2 DEF Import
<1>5. ASSUME NEW t \in Threads, Truncate(t) PROVE TypeOK'
  BY <1>5 DEF Truncate, Empty
<1>6. ASSUME NEW t \in Threads, Write(t) PROVE TypeOK'
  BY <1>6 DEF Write, Whole, Garbled, NamesOf, Profile
<1>7. CASE Die
  <2>1. torn' \in BOOLEAN
    BY <1>7, Zenon DEF Die
  <2> QED BY <1>7, <2>1 DEF Die
<1>8. CASE UNCHANGED vars
  BY <1>8
<1> QED BY <1>1, <1>2, <1>3, <1>4, <1>5, <1>6, <1>7, <1>8 DEF Next

\* Over a set with one profile per name, saving leaves one profile per name.
LEMMA SavedUnique ==
  ASSUME NEW S, NEW n, NEW k,
         \A p, q \in S : p.name = q.name => p = q
  PROVE  \A p, q \in Saved(S, n, k) : p.name = q.name => p = q
BY DEF Saved

\* No step brings a second profile of a name, into the file or into memory.
LEMMA UniqueStep == TypeOK /\ OnePerName /\ [Next]_vars => OnePerName'
<1> SUFFICES ASSUME TypeOK, OnePerName, [Next]_vars PROVE OnePerName'
  OBVIOUS
<1> DEFINE Unique(S) == \A p, q \in S : p.name = q.name => p = q
<1>a. Unique(file.has) /\ Unique(mem["worker"]) /\ Unique(mem["loop"])
  BY DEF OnePerName
<1>b. Unique(file'.has) /\ Unique(mem'["worker"]) /\ Unique(mem'["loop"]) => OnePerName'
  BY DEF OnePerName
<1>1. CASE Match
  BY <1>a, <1>b, <1>1 DEF Match, Look, LoadRaises
<1>2. CASE List
  BY <1>a, <1>b, <1>2 DEF List, Look, LoadRaises
<1>r. ASSUME NEW t \in Threads, NEW new, Unique(new), Rewrite(t, new) PROVE OnePerName'
  BY <1>a, <1>b, <1>r DEF Rewrite, TypeOK
<1>l. ASSUME NEW op, LoadRaises(op) PROVE OnePerName'
  BY <1>a, <1>b, <1>l DEF LoadRaises
<1>3. ASSUME NEW n \in Names, Save(n) PROVE OnePerName'
  <2>1. Unique(Saved(file.has, n, ops + 1))
    BY <1>a, SavedUnique
  <2> QED BY <1>r, <1>l, <1>3, <2>1 DEF Save
<1>4. ASSUME NEW S \in Imports, Import(S) PROVE OnePerName'
  <2>1. Unique(Imported(file.has, S, ops + 1))
    BY <1>a DEF Imported
  <2> QED BY <1>r, <1>l, <1>4, <2>1 DEF Import
<1>5. ASSUME NEW t \in Threads, Truncate(t) PROVE OnePerName'
  BY <1>a, <1>b, <1>5 DEF Truncate, Empty
<1>6. ASSUME NEW t \in Threads, Write(t) PROVE OnePerName'
  BY <1>a, <1>b, <1>6 DEF Write, Whole, Garbled, TypeOK
<1>7. CASE Die
  BY <1>a, <1>b, <1>7 DEF Die
<1>8. CASE UNCHANGED vars
  BY <1>a, <1>b, <1>8
<1> QED BY <1>1, <1>2, <1>3, <1>4, <1>5, <1>6, <1>7, <1>8 DEF Next

\* However saves, imports, crashes and restarts interleave, a name of the
\* library (profiles.save_profile, main.import_profiles) stands for one profile.
THEOREM NamesAreKeys == Spec => []OnePerName
<1>1. Init => OnePerName
  BY DEF Init, OnePerName, Whole
<1>2. TypeOK /\ OnePerName /\ [Next]_vars => (TypeOK /\ OnePerName)'
  BY TypeStep, UniqueStep
<1> QED BY <1>1, <1>2, TypeInit, PTL DEF Spec

-----------------------------------------------------------------------------
\* A thread whose rewrite has met no other is the only one at work.
Alone == \A t, u \in Threads : pc[t] # "idle" /\ t \notin beside /\ pc[u] # "idle" => t = u

\* What a thread is going to write has every name that was kept ...
Carried == \A t \in Threads : pc[t] # "idle" => kept \subseteq NamesOf(mem[t])

\* ... and so has the file, as long as it can be read.
OnFile == Readable => kept \subseteq NamesOf(file.has)

\* Without overlap and without a death inside a write, the file cannot be read
\* while a thread is between its truncation and its write, and then it is empty.
Untorn == ~overlapped /\ ~torn =>
            /\ beside = {}
            /\ IF \E t \in Threads : pc[t] = "write" THEN file = Empty ELSE Readable

KeepInv == Alone /\ Carried /\ OnFile /\ Untorn

\* Loads that raise and steps that only look change nothing of it.
LEMMA LookKeeps ==
  ASSUME KeepInv, UNCHANGED <<file, pc, mem, kept, beside, overlapped, torn>>
  PROVE  KeepInv'
BY DEF KeepInv, Alone, Carried, OnFile, Untorn, Readable

\* A rewrite takes over all the names that are there, whoever else is at work.
LEMMA RewriteKeeps ==
  ASSUME TypeOK, KeepInv, NEW t \in Threads, NEW new, pc[t] = "idle", Rewrite(t, new),
         NamesOf(file.has) \subseteq NamesOf(new)
  PROVE  KeepInv'
<1>1. /\ pc' = [pc EXCEPT ![t] = "truncate"] /\ mem' = [mem EXCEPT ![t] = new]
      /\ UNCHANGED <<file, kept, torn>> /\ Readable
  BY DEF Rewrite
<1>2. /\ pc'[t] = "truncate" /\ mem'[t] = new
      /\ \A u \in Threads \ {t} : pc'[u] = pc[u] /\ mem'[u] = mem[u]
  BY <1>1 DEF TypeOK
<1>3. kept \subseteq NamesOf(new)
  BY <1>1 DEF KeepInv, OnFile
<1>4. Carried'
  <2>1. ASSUME NEW u \in Threads, pc'[u] # "idle" PROVE kept' \subseteq NamesOf(mem'[u])
    BY <1>1, <1>2, <1>3, <2>1 DEF KeepInv, Carried
  <2> QED BY <2>1 DEF Carried, NamesOf
<1>5. OnFile'
  BY <1>1 DEF KeepInv, OnFile, Readable, NamesOf
<1>6. CASE \A u \in Threads : pc[u] = "idle"
  <2>1. beside' = beside \ {t} /\ overlapped' = overlapped
    BY <1>6 DEF Rewrite
  <2>2. Alone'
    BY <1>2, <1>6 DEF Alone
  <2>3. Untorn'
    BY <1>1, <1>2, <1>6, <2>1 DEF KeepInv, Untorn, Readable
  <2> QED BY <1>4, <1>5, <2>2, <2>3 DEF KeepInv
<1>7. CASE \E u \in Threads : pc[u] # "idle"
  <2>1. beside' = Threads /\ overlapped'
    BY <1>7 DEF Rewrite
  <2> QED BY <1>4, <1>5, <2>1 DEF KeepInv, Alone, Untorn
<1> QED BY <1>6, <1>7

\* Saving and importing keep the names that are there.
LEMMA NamesStay ==
  ASSUME NEW old, NEW n, NEW S, NEW stamp
  PROVE  /\ NamesOf(old) \subseteq NamesOf(Saved(old, n, stamp))
         /\ NamesOf(old) \subseteq NamesOf(Imported(old, S, stamp))
<1>1. ASSUME NEW p \in old PROVE p.name \in NamesOf(Saved(old, n, stamp))
  <2>1. CASE p.name = n
    <3>1. [name |-> n, stamp |-> stamp] \in Saved(old, n, stamp)
      BY DEF Saved
    <3> QED BY <2>1, <3>1 DEF NamesOf
  <2>2. CASE p.name # n
    BY <2>2 DEF Saved, NamesOf
  <2> QED BY <2>1, <2>2
<1>2. ASSUME NEW p \in old PROVE p.name \in NamesOf(Imported(old, S, stamp))
  <2>1. CASE p.name \in S
    <3>1. [name |-> p.name, stamp |-> stamp] \in Imported(old, S, stamp)
      BY <2>1 DEF Imported
    <3> QED BY <3>1 DEF NamesOf
  <2>2. CASE p.name \notin S
    BY <2>2 DEF Imported, NamesOf
  <2> QED BY <2>1, <2>2
<1> QED BY <1>1, <1>2 DEF NamesOf

\* A thread that writes alone keeps all it carries; one that another's rewrite
\* overlapped carries at least what was kept before.
LEMMA WriteKeeps ==
  ASSUME TypeOK, KeepInv, NEW t \in Threads, Write(t)
  PROVE  KeepInv'
<1>1. /\ pc'[t] = "idle" /\ pc[t] = "write"
      /\ \A u \in Threads \ {t} : pc'[u] = pc[u] /\ mem'[u] = mem[u]
      /\ UNCHANGED <<beside, overlapped, torn>>
  BY DEF Write, TypeOK
<1>2. kept' = IF t \in beside THEN kept ELSE kept \cup NamesOf(mem[t])
  BY DEF Write
<1>3. kept \subseteq NamesOf(mem[t])
  BY <1>1 DEF KeepInv, Carried
<1>4. t \notin beside => \A u \in Threads : pc'[u] = "idle"
  BY <1>1 DEF KeepInv, Alone
<1>5. Carried'
  <2>1. ASSUME NEW u \in Threads, pc'[u] # "idle" PROVE kept' \subseteq NamesOf(mem'[u])
    <3>1. t \in beside /\ u # t
      BY <1>1, <1>4, <2>1
    <3> QED BY <1>1, <1>2, <2>1, <3>1 DEF KeepInv, Carried
  <2> QED BY <2>1 DEF Carried, NamesOf
<1>6. OnFile'
  <2>1. CASE file' = Whole(mem[t])
    <3>1. kept' \subseteq NamesOf(file'.has)
      BY <1>2, <1>3, <2>1 DEF Whole
    <3> QED BY <3>1 DEF OnFile, NamesOf
  <2>2. CASE file' = Garbled
    BY <2>2 DEF OnFile, Readable, Garbled
  <2> QED BY <2>1, <2>2 DEF Write
<1>7. Alone'
  BY <1>1 DEF KeepInv, Alone
<1>8. Untorn'
  <2> SUFFICES ASSUME ~overlapped, ~torn
               PROVE  /\ beside = {} /\ Readable'
                      /\ \A u \in Threads : pc'[u] # "write"
    BY <1>1 DEF Untorn
  <2>1. beside = {} /\ file = Empty
    BY <1>1 DEF KeepInv, Untorn
  <2>2. file' = Whole(mem[t])
    BY <2>1 DEF Write, Empty
  <2> QED BY <1>4, <2>1, <2>2 DEF Readable, Whole
<1> QED BY <1>5, <1>6, <1>7, <1>8 DEF KeepInv

LEMMA KeepStep == TypeOK /\ KeepInv /\ [Next]_vars => KeepInv'
<1> SUFFICES ASSUME TypeOK, KeepInv, [Next]_vars PROVE KeepInv'
  OBVIOUS
<1>1. CASE Match \/ List
  BY <1>1, LookKeeps DEF Match, List, Look, LoadRaises
<1>2. ASSUME NEW n \in Names, Save(n) PROVE KeepInv'
  <2>1. CASE LoadRaises("save")
    BY <2>1, LookKeeps DEF LoadRaises
  <2>2. CASE Rewrite("worker", Saved(file.has, n, ops + 1))
    BY <1>2, <2>2, NamesStay, RewriteKeeps DEF Save, Begin
  <2> QED BY <1>2, <2>1, <2>2 DEF Save
<1>3. ASSUME NEW S \in Imports, Import(S) PROVE KeepInv'
  <2>1. CASE LoadRaises("import")
    BY <2>1, LookKeeps DEF LoadRaises
  <2>2. CASE Rewrite("loop", Imported(file.has, S, ops + 1))
    BY <1>3, <2>2, NamesStay, RewriteKeeps DEF Import, Begin
  <2> QED BY <1>3, <2>1, <2>2 DEF Import
<1>4. ASSUME NEW t \in Threads, Truncate(t) PROVE KeepInv'
  <2>1. /\ pc'[t] = "write" /\ pc[t] = "truncate" /\ (\A u \in Threads \ {t} : pc'[u] = pc[u])
        /\ file' = Empty /\ UNCHANGED <<mem, kept, beside, overlapped, torn>>
    BY <1>4 DEF Truncate, TypeOK
  <2>2. Alone' /\ Carried'
    BY <2>1 DEF KeepInv, Alone, Carried
  <2>3. OnFile' /\ Untorn'
    BY <2>1 DEF KeepInv, OnFile, Untorn, Readable, Empty
  <2> QED BY <2>2, <2>3 DEF KeepInv
<1>5. ASSUME NEW t \in Threads, Write(t) PROVE KeepInv'
  BY <1>5, WriteKeeps
<1>6. CASE Die
  <2>1. /\ \A t \in Threads : pc'[t] = "idle"
        /\ UNCHANGED <<file, kept, beside, overlapped>>
    BY <1>6 DEF Die
  <2>2. ~torn' => ~torn /\ \A t \in Threads : pc[t] # "write"
    BY <1>6, Zenon DEF Die
  <2>3. Alone' /\ Carried'
    BY <2>1 DEF Alone, Carried
  <2>4. OnFile' /\ Untorn'
    BY <2>1, <2>2 DEF KeepInv, OnFile, Untorn, Readable
  <2> QED BY <2>3, <2>4 DEF KeepInv
<1>7. CASE UNCHANGED vars
  BY <1>7, LookKeeps
<1> QED BY <1>1, <1>2, <1>3, <1>4, <1>5, <1>6, <1>7 DEF Next

\* Whatever rewrites overlap and whenever the process dies: a profile saved or
\* imported by a rewrite that ran alone (profiles.save_profile,
\* main.import_profiles) is in the library as long as that can be read.  Without
\* overlap, and without a death between the truncation and the write, it can be
\* read: the empty file in between is only ever met by a thread that looks.
THEOREM SerialWritesKeepLibrary == Spec => []LibraryKept
<1>1. Init => KeepInv
  BY DEF Init, KeepInv, Alone, Carried, OnFile, Untorn, Readable, Whole, NamesOf
<1>2. TypeOK /\ KeepInv /\ [Next]_vars => (TypeOK /\ KeepInv)'
  BY TypeStep, KeepStep
<1>3. KeepInv => LibraryKept
  BY DEF KeepInv, LibraryKept, OnFile, Untorn
<1> QED BY <1>1, <1>2, <1>3, TypeInit, PTL DEF Spec

-----------------------------------------------------------------------------
\* With the preferences beside it the library is that of Profiles still, and
\* whatever is proved of it there holds of the data directory.
THEOREM LibraryAlone == DirSpec => Spec
<1>1. DirInit => Init
  BY DEF DirInit
<1>2. [DirNext]_<<vars, preferences>> => [Next]_vars
  BY DEF DirNext, ProfilesGoOn, ProfilesBegin, Next
<1> QED BY <1>1, <1>2, PTL DEF DirSpec, Spec

\* What the writer r is about to write: what was saved last, with its patch.
Carries(r) == r.answer = [f \in DOMAIN saved |-> IF f \in DOMAIN r.patch THEN r.patch[f] ELSE saved[f]]

Shaped(r) == r = [n |-> r.n, kind |-> r.kind, patch |-> r.patch, at |-> r.at,
                  answer |-> r.answer, put |-> r.put]

\* One handler writes at a time, and while none does the file is as saved.
OneWrites == ~cut => /\ P!Remembered
                     /\ \A r \in requests : r.at = "writing" => Carries(r)
                     /\ \A r, q \in requests : r.at = "writing" /\ q.at = "writing" => r = q

FileInv == OneWrites /\ \A r \in requests : Shaped(r)

LEMMA ShapeStep ==
  (\A r \in requests : Shaped(r)) /\ [DirNext]_<<vars, preferences>>
    => \A r \in requests' : Shaped(r)
<1> SUFFICES ASSUME \A r \in requests : Shaped(r), [DirNext]_<<vars, preferences>>,
                    NEW r \in requests'
             PROVE  Shaped(r)
  OBVIOUS
<1>1. ASSUME NEW q \in requests, NEW s, NEW a, NEW k,
             r = [q EXCEPT !.at = s] \/ r = [q EXCEPT !.at = s, !.answer = a]
               \/ r = [q EXCEPT !.at = s, !.put = k]
      PROVE  Shaped(r)
  BY <1>1 DEF Shaped
<1>2. ASSUME NEW q \in requests, P!Save(q) PROVE Shaped(r)
  BY <1>1, <1>2 DEF P!Save, P!Becomes
<1>3. ASSUME NEW q \in requests, P!Put(q) \/ P!Render(q) PROVE Shaped(r)
  BY <1>1, <1>2, <1>3 DEF P!Put, P!Render, P!Becomes
<1>4. ASSUME NEW q \in requests, P!Write(q) PROVE Shaped(r)
  BY <1>1, <1>4 DEF P!Write, P!Becomes
<1>5. ASSUME NEW q \in requests, P!Deliver(q) PROVE Shaped(r)
  BY <1>5 DEF P!Deliver
<1>6. ASSUME NEW kind, NEW patch, P!Post(kind, patch) PROVE Shaped(r)
  BY <1>6 DEF P!Post, Shaped
<1>7. CASE P!Start \/ P!Die \/ UNCHANGED preferences
  BY <1>7 DEF P!Start, P!Die, preferences
<1> QED
  BY <1>3, <1>4, <1>5, <1>6, <1>7
     DEF DirNext, P!Begins, P!GoesOn, P!Change, P!Generate

LEMMA WriteStep == FileInv /\ [DirNext]_<<vars, preferences>> => OneWrites'
<1> SUFFICES ASSUME FileInv, [DirNext]_<<vars, preferences>>, ~cut' PROVE OneWrites'
  BY DEF OneWrites
<1> USE DEF FileInv, OneWrites, P!Remembered, P!LoopIdle, P!Loaded
<1>1. CASE P!Start
  BY <1>1 DEF P!Start, Carries
<1>2. ASSUME NEW r \in requests, P!LoopIdle, P!Save(r) PROVE OneWrites'
  <2> DEFINE w == [r EXCEPT !.at = "writing", !.answer = P!Patched(P!Loaded, r.patch)]
  <2>1. ~cut /\ P!Loaded = saved
    BY <1>2 DEF P!Save, P!history
  <2>2. requests' = (requests \ {r}) \cup {w} /\ saved' = saved
    BY <1>2 DEF P!Save, P!Becomes, P!history
  <2>3. w.at = "writing" /\ w.patch = r.patch /\ w.answer = P!Patched(P!Loaded, r.patch)
    BY DEF Shaped
  <2>4. \A q \in requests' : q.at = "writing" => q = w
    BY <1>2, <2>2
  <2>5. w \in requests'
    BY <2>2
  <2>6. w.answer = [f \in DOMAIN saved' |-> IF f \in DOMAIN w.patch THEN w.patch[f] ELSE saved'[f]]
    BY <2>1, <2>2, <2>3 DEF P!Patched
  <2> HIDE DEF w
  <2>7. \A q \in requests' : q.at = "writing" => Carries(q)'
    BY <2>4, <2>6 DEF Carries
  <2> QED BY <2>3, <2>4, <2>5, <2>7
<1>3. ASSUME NEW r \in requests, P!Put(r) \/ P!Render(r) PROVE OneWrites'
  <2>1. CASE P!Save(r) /\ P!LoopIdle
    BY <1>2, <2>1
  <2>2. CASE /\ P!LoopIdle
             /\ P!Becomes(r, [r EXCEPT !.at = "answered"])
             /\ UNCHANGED <<prefs, shown, posted, P!history>>
    <3>1. [r EXCEPT !.at = "answered"].at = "answered"
      BY DEF Shaped
    <3> QED BY <2>2, <3>1 DEF P!Becomes, P!history, Carries
  <2> QED BY <1>3, <2>1, <2>2 DEF P!Put, P!Render
<1>4. ASSUME NEW kind, NEW patch, P!Post(kind, patch) PROVE OneWrites'
  BY <1>4 DEF P!Post, P!history, Carries
<1>5. ASSUME NEW r \in requests, P!Write(r) PROVE OneWrites'
  <2> DEFINE w == [r EXCEPT !.at = "answered", !.put = puts']
  <2>1. requests' = (requests \ {r}) \cup {w} /\ prefs' = P!Whole(r.answer) /\ ~cut
    BY <1>5 DEF P!Write, P!Becomes
  <2>2. w.at = "answered"
    BY DEF Shaped
  <2>3. \A q \in requests' : q.at # "writing"
    BY <1>5, <2>1, <2>2 DEF P!Write
  <2>4. P!Loaded' = saved'
    BY <1>5, <2>1 DEF P!Write, P!Whole, Carries
  <2> QED BY <2>3, <2>4
<1>6. ASSUME NEW r \in requests, P!Deliver(r) PROVE OneWrites'
  BY <1>6 DEF P!Deliver, Carries
<1>7. CASE P!Die
  BY <1>7 DEF P!Die
<1>8. CASE UNCHANGED preferences
  BY <1>8 DEF preferences, Carries
<1> QED
  BY <1>1, <1>3, <1>4, <1>5, <1>6, <1>7, <1>8
     DEF DirNext, P!Begins, P!GoesOn, P!Change, P!Generate

-----------------------------------------------------------------------------
\* For any folders, and any number of changes and renders that overlap with
\* each other and with what is done to the library, between two saves what is
\* loaded is what was saved, unless the process died inside a write.
THEOREM SettingsAreRemembered == DirSpec => []Remembered
<1>1. DirInit => FileInv
  BY DEF DirInit, P!Init, FileInv, OneWrites, P!Remembered, P!Loaded, P!Whole
<1>2. FileInv => Remembered
  BY DEF FileInv, OneWrites, Remembered, P!Remembered
<1>3. FileInv /\ [DirNext]_<<vars, preferences>> => FileInv'
  BY ShapeStep, WriteStep DEF FileInv, Shaped
<1> QED BY <1>1, <1>2, <1>3, PTL DEF DirSpec
=============================================================================
