------------------------------ MODULE Profiles ------------------------------
(***************************************************************************)
(* The library of layout profiles, profiles.json: what the processing      *)
(* worker does with it (it tries the profiles when an analysis starts, and *)
(* saves one when a render asks for it) and what the event loop does (the  *)
(* handlers that list and import).  Both rewrite the whole file, and no    *)
(* lock orders them: a load, the truncation that opening for writing does, *)
(* and the write itself are steps of their own.                            *)
(***************************************************************************)
EXTENDS Naturals

CONSTANTS Names,     \* the names a profile can be given
          Imports,   \* the sets of names a user can import
          MaxOps,    \* bound on the operations begun
          MaxStops   \* bound on the times the process dies

ASSUME ProfilesAssumption == Imports \subseteq SUBSET Names /\ MaxOps \in Nat /\ MaxStops \in Nat

VARIABLES
  file,    \* profiles.json: its profiles, and what its text can be read as
  pc,      \* what each thread does next: nothing, truncate the file, write it
  mem,     \* the profiles each thread is going to write
  ops,     \* operations begun so far; stamps the profiles they create
  stops,   \* times the process died
  raised,  \* history: the operations that could not read the file
  kept,    \* history: the names saved or imported by rewrites that ran alone
  beside,  \* history: the threads whose rewrite overlaps, or overlapped, another
  overlapped, \* history: whether any two rewrites ever overlapped
  torn     \* history: whether the process ever died inside a write

history == <<raised, kept, beside, overlapped, torn>>

vars == <<file, pc, mem, ops, stops, history>>

Threads == {"worker", "loop"}

\* stamp stands for the region, the mode and the creation time of a profile.
Profile == [name : Names, stamp : 1..MaxOps]

NamesOf(S) == {p.name : p \in S}

Whole(S) == [text |-> "whole", has |-> S]
Empty    == [text |-> "empty", has |-> {}]
Garbled  == [text |-> "garbled", has |-> {}]

\* A file that does not exist yet reads as no profiles.
Init == /\ file = Whole({})
        /\ pc = [t \in Threads |-> "idle"]
        /\ mem = [t \in Threads |-> {}]
        /\ ops = 0 /\ stops = 0
        /\ raised = {} /\ kept = {} /\ beside = {} /\ overlapped = FALSE /\ torn = FALSE

-----------------------------------------------------------------------------
\* Thread t begins an operation, with a load that reads the file in one piece.
Begin(t) == /\ pc[t] = "idle"
            /\ ops < MaxOps
            /\ ops' = ops + 1

Readable == file.text = "whole"

\* The load raises: text that is no JSON is not caught.
LoadRaises(op) == /\ ~Readable
                  /\ raised' = raised \cup {op}
                  /\ UNCHANGED <<file, pc, mem, stops, kept, beside, overlapped, torn>>

\* match_profile, when an analysis starts, and the handler that lists.
Look(t, op) == /\ Begin(t)
               /\ \/ LoadRaises(op)
                  \/ Readable /\ UNCHANGED <<file, pc, mem, stops, history>>

Match == Look("worker", "match")
List  == Look("loop", "list")

\* Mutant of Saved: what is saved again under a name stays there twice.
Pile(old, n, stamp) == old \cup {[name |-> n, stamp |-> stamp]}

\* Mutant of Saved: the library is what was saved last.
SavedAlone(old, n, stamp) == {[name |-> n, stamp |-> stamp]}

\* save_profile appends in place of the profile of the same name.
Saved(old, n, stamp) == {p \in old : p.name # n} \cup {[name |-> n, stamp |-> stamp]}

\* What was read is changed in memory, to be written back.
Rewrite(t, new) == /\ Readable
                   /\ mem' = [mem EXCEPT ![t] = new]
                   /\ pc' = [pc EXCEPT ![t] = "truncate"]
                   /\ \/ /\ \A u \in Threads : pc[u] = "idle"
                         /\ beside' = beside \ {t}
                         /\ UNCHANGED overlapped
                      \/ /\ \E u \in Threads : pc[u] # "idle"
                         /\ beside' = Threads
                         /\ overlapped' = TRUE
                   /\ UNCHANGED <<file, stops, raised, kept, torn>>

Save(n) == /\ Begin("worker")
           /\ LoadRaises("save") \/ Rewrite("worker", Saved(file.has, n, ops + 1))

\* Nothing is written unless every profile of the import is valid.
Imported(old, S, stamp) == {p \in old : p.name \notin S} \cup [name : S, stamp : {stamp}]

Import(S) == /\ Begin("loop")
             /\ LoadRaises("import") \/ Rewrite("loop", Imported(file.has, S, ops + 1))

\* write_text opens the file, which empties it ...
Truncate(t) == /\ pc[t] = "truncate"
               /\ file' = Empty
               /\ pc' = [pc EXCEPT ![t] = "write"]
               /\ UNCHANGED <<mem, ops, stops, history>>

\* ... and writes from its start: over a longer text that the other thread
\* wrote in between, the end of that text remains.
Write(t) == /\ pc[t] = "write"
            /\ \/ file' = Whole(mem[t])
               \/ file.text # "empty" /\ file' = Garbled
            /\ kept' = IF t \in beside THEN kept ELSE kept \cup NamesOf(mem[t])
            /\ pc' = [pc EXCEPT ![t] = "idle"]
            /\ mem' = [mem EXCEPT ![t] = {}]
            /\ UNCHANGED <<ops, stops, raised, beside, overlapped, torn>>

\* The process dies and is started again; the file is as it was left.
Die == /\ stops < MaxStops
       /\ stops' = stops + 1
       /\ pc' = [t \in Threads |-> "idle"]
       /\ mem' = [t \in Threads |-> {}]
       /\ torn' = (torn \/ \E t \in Threads : pc[t] = "write")
       /\ UNCHANGED <<file, ops, raised, kept, beside, overlapped>>

Next == \/ Match \/ List
        \/ \E n \in Names : Save(n)
        \/ \E S \in Imports : Import(S)
        \/ \E t \in Threads : Truncate(t) \/ Write(t)
        \/ Die

Spec == Init /\ [][Next]_vars

-----------------------------------------------------------------------------
\* The variables hold what the code can put in them.
TypeOK == /\ file \in [text : {"whole", "empty", "garbled"}, has : SUBSET Profile]
          /\ pc \in [Threads -> {"idle", "truncate", "write"}]
          /\ mem \in [Threads -> SUBSET Profile]
          /\ ops \in 0..MaxOps /\ stops \in 0..MaxStops
          /\ raised \subseteq {"match", "list", "save", "import"}
          /\ kept \subseteq Names /\ beside \subseteq Threads
          /\ overlapped \in BOOLEAN /\ torn \in BOOLEAN

\* A name stands for one profile, in the file and in whatever a thread is
\* about to make of it, however saves, imports and crashes interleave.
OnePerName == \A S \in {file.has} \cup {mem[t] : t \in Threads} :
  \A p, q \in S : p.name = q.name => p = q

\* A rewrite that ran alone is for good: as long as the library can be read it
\* has a profile under every name that such a save or import left in it, whatever
\* saves, imports (those that overlap too) and restarts came later.  And at rest
\* it can be read, unless two rewrites overlapped or the process died between
\* the truncation and the write of one.
LibraryKept ==
  /\ Readable => kept \subseteq NamesOf(file.has)
  /\ (\A t \in Threads : pc[t] = "idle") /\ ~overlapped /\ ~torn => Readable

\* The profiles that exist are tried before an analysis detects anything: the
\* analysis does not fail because the library cannot be read.  It does not hold.
ProfilesAreTried == "match" \notin raised
=============================================================================
