------------------------------- MODULE DataDir -------------------------------
(***************************************************************************)
(* The two JSON files of the data directory together (server/config.py):   *)
(* the library of profiles and the preferences.  The handlers of both run  *)
(* on one event loop, a save of a profile on the processing thread, and    *)
(* one death of the process ends them all.                                 *)
(***************************************************************************)
EXTENDS Profiles

CONSTANTS Folders, MaxRequests,
          MaxBegun  \* bound on operations and requests together

ASSUME DataDirAssumption == MaxRequests \in Nat /\ MaxBegun \in Nat /\ "none" \notin Folders

VARIABLES prefs, shown, requests, posted, saved, puts, newest, cut

preferences == <<prefs, shown, requests, posted, saved, puts, newest, cut>>

P == INSTANCE Preferences

DirInit == Init /\ P!Init

\* The thread of the worker, and what a handler has begun.
ProfilesGoOn == \/ Match \/ (\E n \in Names : Save(n))
                \/ \E t \in Threads : Truncate(t) \/ Write(t)

ProfilesBegin == List \/ \E S \in Imports : Import(S)

DirNext ==
  /\ \/ ProfilesGoOn /\ UNCHANGED preferences
     \/ P!LoopIdle /\ ProfilesBegin /\ UNCHANGED preferences
     \/ P!GoesOn /\ UNCHANGED vars
     \/ pc["loop"] = "idle" /\ P!Begins /\ UNCHANGED vars
     \/ Die /\ P!Die
  /\ ops' + posted' <= MaxBegun

DirSpec == DirInit /\ [][DirNext]_<<vars, preferences>>

-----------------------------------------------------------------------------
\* What is loaded between two saves of preferences is what was saved last
\* (Preferences), whatever is done to the library meanwhile.
Remembered == P!Remembered

PanelIsTrue == P!PanelIsTrue

TypesOK == TypeOK /\ P!TypeOK
=============================================================================
