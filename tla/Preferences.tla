----------------------------- MODULE Preferences -----------------------------
(***************************************************************************)
(* The preferences: preferences.json, the handlers that rewrite it (for a  *)
(* setting that is changed, and to remember the folder of a render), and   *)
(* the copy of them that the page shows and works with.                    *)
(*                                                                         *)
(* The event loop runs one handler at a time.  The file is emptied and     *)
(* then written, and the worker threads may load it in between.            *)
(***************************************************************************)
EXTENDS Naturals

CONSTANTS Folders,     \* the folders a user may choose
          MaxRequests  \* bound on the requests of the page

VARIABLES
  prefs,     \* preferences.json: what it holds, and what its text can be read as
  shown,     \* the preferences state of the page (none or one)
  requests,  \* the requests that may change preferences, until the page has the answer
  posted,    \* requests so far, which numbers them
  saved,     \* history: every setting as it was saved last
  puts,      \* history: changes saved so far
  newest,    \* history: how many of them the page had seen in what it shows
  cut        \* history: the process died inside a write

history == <<saved, puts, newest, cut>>
vars    == <<prefs, shown, requests, posted, history>>

None == "none"

\* updates_enabled stands for every setting that is changed in the panel only.
Preference == [output_dir : Folders \cup {None}, updates_enabled : BOOLEAN]
Patch      == [output_dir : Folders] \cup [updates_enabled : BOOLEAN]
Defaults   == [output_dir |-> None, updates_enabled |-> TRUE]

Whole(p) == [text |-> "whole", has |-> p]
Torn     == [text |-> "empty", has |-> Defaults]

\* load_preferences: what cannot be read is ignored.
Loaded == IF prefs.text = "whole" THEN prefs.has ELSE Defaults

Patched(p, patch) == [f \in DOMAIN p |-> IF f \in DOMAIN patch THEN patch[f] ELSE p[f]]

\* A file that does not exist yet reads as the defaults.
Init == /\ prefs = Whole(Defaults)
        /\ shown = {}
        /\ requests = {} /\ posted = 0
        /\ saved = Defaults /\ puts = 0 /\ newest = 0 /\ cut = FALSE

-----------------------------------------------------------------------------
(* The page *)

Post(kind, patch) ==
  /\ posted < MaxRequests
  /\ posted' = posted + 1
  /\ requests' = requests \cup {[n |-> posted + 1, kind |-> kind, patch |-> patch,
                                 at |-> "sent", answer |-> Defaults, put |-> 0]}
  /\ UNCHANGED <<prefs, history>>

\* A change in the preferences panel, also while another one is under way.
Change(patch) == shown # {} /\ Post("put", patch) /\ UNCHANGED shown

\* A render: a folder is asked for if the page knows of none, and kept there.
Generate(d) == \E p \in shown :
  /\ p.output_dir \in {d, None}
  /\ shown' = {[p EXCEPT !.output_dir = d]}
  /\ Post("render", [output_dir |-> d])

\* The answer to a change, all preferences, is what the page has from then on.
Deliver(r) ==
  /\ r \in requests /\ r.at = "answered"
  /\ requests' = requests \ {r}
  /\ IF r.kind = "put" THEN shown' = {r.answer} /\ newest' = r.put
                       ELSE UNCHANGED <<shown, newest>>
  /\ UNCHANGED <<prefs, posted, saved, puts, cut>>

-----------------------------------------------------------------------------
(* The handlers *)

\* Mutant of LoopIdle: handlers run in a pool of threads.
NoLoop == TRUE

LoopIdle == \A r \in requests : r.at # "writing"

Becomes(r, s) == requests' = (requests \ {r}) \cup {s}

\* get_preferences, once when the page starts.
Start == /\ shown = {} /\ LoopIdle
         /\ shown' = {Loaded} /\ newest' = puts
         /\ UNCHANGED <<prefs, requests, posted, saved, puts, cut>>

\* save_preferences: the file is loaded, changed in memory and opened ...
Save(r) == /\ prefs' = Torn
           /\ Becomes(r, [r EXCEPT !.at = "writing", !.answer = Patched(Loaded, r.patch)])
           /\ UNCHANGED <<shown, posted, history>>

\* put_preferences
Put(r) == /\ r \in requests /\ r.at = "sent" /\ r.kind = "put"
          /\ LoopIdle
          /\ Save(r)

\* render remembers the folder unless it is the one remembered, or the job is
\* not one that can be rendered.
Render(r) == /\ r \in requests /\ r.at = "sent" /\ r.kind = "render"
             /\ LoopIdle
             /\ \/ r.patch.output_dir # Loaded.output_dir /\ Save(r)
                \/ /\ Becomes(r, [r EXCEPT !.at = "answered"])
                   /\ UNCHANGED <<prefs, shown, posted, history>>

\* ... and written.
Write(r) == /\ r \in requests /\ r.at = "writing"
            /\ prefs' = Whole(r.answer)
            /\ saved' = [f \in DOMAIN saved |-> IF f \in DOMAIN r.patch THEN r.patch[f] ELSE saved[f]]
            /\ puts' = IF r.kind = "put" THEN puts + 1 ELSE puts
            /\ Becomes(r, [r EXCEPT !.at = "answered", !.put = puts'])
            /\ UNCHANGED <<shown, posted, newest, cut>>

\* The application ends, whatever it was doing, and is started again.
Die == /\ cut' = (cut \/ ~LoopIdle)
       /\ shown' = {} /\ requests' = {}
       /\ UNCHANGED <<prefs, posted, saved, puts, newest>>

\* What begins on the event loop, and the rest.
Begins == Start \/ \E r \in requests : Put(r) \/ Render(r)

GoesOn == \/ \E p \in Patch : Change(p)
          \/ \E d \in Folders : Generate(d)
          \/ \E r \in requests : Write(r) \/ Deliver(r)

Next == Begins \/ GoesOn \/ Die

Spec == Init /\ [][Next]_vars

-----------------------------------------------------------------------------
(* What the preferences promise *)

\* The variables hold what the code can put in them.
TypeOK ==
  /\ prefs \in [text : {"whole", "empty"}, has : Preference]
  /\ shown \subseteq Preference
  /\ requests \subseteq [n : 1..MaxRequests, kind : {"put", "render"}, patch : Patch,
                         at : {"sent", "writing", "answered"}, answer : Preference,
                         put : 0..MaxRequests]
  /\ posted \in 0..MaxRequests /\ puts \in 0..MaxRequests /\ newest \in 0..MaxRequests
  /\ saved \in Preference /\ cut \in BOOLEAN

\* What is loaded between two saves is every setting as it was saved last,
\* however the changes of the panel and the folders of renders overlap, and
\* through restarts: that a torn file reads as the defaults does not turn into
\* a loss, unless the process died inside a write (config.py).
Remembered == LoopIdle /\ ~cut => Loaded = saved

\* Once every answer has come, that of the last change last, the panel shows
\* what is saved.
PanelIsTrue == requests = {} /\ newest = puts /\ ~cut =>
  \A p \in shown : p.updates_enabled = Loaded.updates_enabled

\* The folder is "remembered between sessions; asked for once" (config.py): the
\* page knows of a folder when one is saved.  It does not hold.
AskedOnce == requests = {} /\ ~cut /\ saved.output_dir # None =>
  \A p \in shown : p.output_dir # None

\* A worker that loads the preferences gets what was saved.  It does not hold
\* while a handler writes.
WorkersKnow == ~cut => Loaded = saved
=============================================================================
