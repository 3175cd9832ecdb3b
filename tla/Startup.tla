------------------------------ MODULE Startup ------------------------------
(***************************************************************************)
(* The three processes of the desktop application as they come up and go   *)
(* away: the Tauri shell (src-tauri/src/main.rs), the Python sidecar it    *)
(* starts (server/__main__.py) and the web page in its window              *)
(* (src/backend.ts, src/App.tsx).  The sidecar announces itself with a     *)
(* line on its stdout; the shell keeps it and emits an event; the page     *)
(* asks the shell once and then listens.                                   *)
(***************************************************************************)

VARIABLES
  shell,    \* "setup", "running", or how it ended: "closed", "killed"
  sidecar,  \* "none", "starting", "announced", "serving" or "dead"
  bound,    \* its socket listens
  pidTaken, \* whether another process got the pid of a dead shell
  pipe,     \* the handshake line is in the stdout pipe
  info,     \* the shell knows the port and the token
  toEmit,   \* the event the shell is about to emit
  page,     \* what the page is doing
  answer,   \* what backend_info answered, while it is on its way
  hears,    \* the events the page has a listener for
  emitted   \* history: the events emitted so far

startupVars == <<shell, sidecar, bound, pidTaken, pipe, info, toEmit, page, answer, hears, emitted>>

Events == {"backend-ready", "backend-failed", "backend-exited"}

StartupInit ==
  /\ shell = "setup" /\ sidecar = "none" /\ bound = FALSE /\ pidTaken = FALSE
  /\ pipe = FALSE /\ info = FALSE /\ toEmit = "nothing"
  /\ page = "loading" /\ answer = "none" /\ hears = {}
  /\ emitted = {}

ShellRuns  == shell \in {"setup", "running"}
Alive      == sidecar \in {"starting", "announced", "serving"}

-----------------------------------------------------------------------------
(* The shell *)

\* spawn_sidecar: the executable may be missing, and may fail to start.
Spawn ==
  /\ shell = "setup"
  /\ shell' = "running"
  /\ \/ sidecar' = "starting" /\ UNCHANGED toEmit
     \/ toEmit' = "backend-failed" /\ UNCHANGED sidecar
  /\ UNCHANGED <<bound, pidTaken, pipe, info, page, answer, hears, emitted>>

ReadHandshake ==
  /\ shell = "running" /\ pipe /\ toEmit = "nothing"
  /\ pipe' = FALSE /\ info' = TRUE
  /\ toEmit' = "backend-ready"
  /\ UNCHANGED <<shell, sidecar, bound, pidTaken, page, answer, hears, emitted>>

ReadTermination ==
  /\ shell = "running" /\ sidecar = "dead" /\ ~pipe /\ toEmit = "nothing"
  /\ "backend-exited" \notin emitted
  /\ toEmit' = "backend-exited"
  /\ UNCHANGED <<shell, sidecar, bound, pidTaken, pipe, info, page, answer, hears, emitted>>

\* An event reaches the listeners there are when it is emitted.
Emit ==
  /\ ShellRuns /\ toEmit # "nothing"
  /\ toEmit' = "nothing"
  /\ emitted' = emitted \cup {toEmit}
  /\ page' = IF toEmit \in hears /\ page = "waiting" THEN "ready" ELSE page
  /\ UNCHANGED <<shell, sidecar, bound, pidTaken, pipe, info, answer, hears>>

\* ExitRequested and Exit: kill_sidecar, and the page goes with the window.
Close ==
  /\ shell = "running"
  /\ shell' = "closed" /\ page' = "gone"
  /\ sidecar' = IF Alive THEN "dead" ELSE sidecar
  /\ UNCHANGED <<bound, pidTaken, pipe, info, toEmit, answer, hears, emitted>>

\* The shell dies without running its exit handlers.
Crash ==
  /\ shell = "running"
  /\ shell' = "killed" /\ page' = "gone"
  /\ UNCHANGED <<sidecar, bound, pidTaken, pipe, info, toEmit, answer, hears, emitted>>

\* The pid of a dead shell is given to another process.
ReusePid ==
  /\ ~ShellRuns /\ ~pidTaken
  /\ pidTaken' = TRUE
  /\ UNCHANGED <<shell, sidecar, bound, pipe, info, toEmit, page, answer, hears, emitted>>

-----------------------------------------------------------------------------
(* The sidecar *)

Advance(from, to) == /\ sidecar = from /\ sidecar' = to
                     /\ UNCHANGED <<shell, bound, pidTaken, info, toEmit, page, answer,
                                    hears, emitted>>

\* bind and listen: from here on the system queues connections.
Bind == /\ sidecar = "starting" /\ ~bound
        /\ bound' = TRUE
        /\ UNCHANGED <<shell, sidecar, pidTaken, pipe, info, toEmit, page, answer,
                       hears, emitted>>

\* Mutant of MayAnnounce: the line goes out before there is a socket.
BeforeBind == TRUE

MayAnnounce == bound

\* The handshake line; without a reader for it the sidecar dies of a broken pipe.
Announce == /\ MayAnnounce
            /\ \/ ShellRuns /\ Advance("starting", "announced") /\ pipe' = TRUE
               \/ ~ShellRuns /\ Advance("starting", "dead") /\ UNCHANGED pipe

\* uvicorn takes the socket over, after the import of the application.
Serve == Advance("announced", "serving") /\ UNCHANGED pipe

\* A failure at startup, or later.
Die == \E from \in {"starting", "announced", "serving"} :
         Advance(from, "dead") /\ UNCHANGED pipe

\* Mutant of WatchStdin: the thread is not started.
NoWatch == FALSE /\ UNCHANGED startupVars

\* _watch_parent, a thread that starts after the handshake: signal 0 to the
\* pid of the shell fails.
WatchParent == /\ ~ShellRuns /\ ~pidTaken
               /\ \E from \in {"announced", "serving"} : Advance(from, "dead")
               /\ UNCHANGED pipe

\* _watch_stdin: the end of the pipe that the shell held.
WatchStdin == /\ ~ShellRuns
              /\ \E from \in {"announced", "serving"} : Advance(from, "dead")
              /\ UNCHANGED pipe

-----------------------------------------------------------------------------
(* The page *)

Page == UNCHANGED <<shell, sidecar, bound, pidTaken, pipe, info, toEmit, emitted>>

BackendInfo == IF info THEN "info" ELSE "null"

\* initBackend invokes backend_info, which copies what the shell knows.
Invoke == /\ page = "loading" /\ ShellRuns
          /\ page' = "asked"
          /\ answer' = BackendInfo
          /\ Page /\ UNCHANGED hears

\* With no answer yet, the timer is set and the listener is asked for.
Answered == /\ page = "asked"
            /\ page' = IF answer = "info" THEN "ready" ELSE "waiting"
            /\ answer' = "none"
            /\ Page /\ UNCHANGED hears

\* listen() takes effect in the shell.
Listen == /\ page = "waiting" /\ hears = {}
          /\ hears' = {"backend-ready"}
          /\ Page /\ UNCHANGED <<page, answer>>

\* Mutant of GiveUp: no timer.
NeverGiveUp == FALSE /\ UNCHANGED startupVars

\* 60 seconds without the event.
GiveUp == /\ page = "waiting"
          /\ page' = "error"
          /\ Page /\ UNCHANGED <<answer, hears>>

Shell   == Spawn \/ ReadHandshake \/ ReadTermination \/ Emit
Sidecar == Bind \/ Announce \/ Serve
PageSteps == Invoke \/ Answered \/ Listen

StartupNext ==
  \/ Shell \/ Close \/ Crash \/ ReusePid
  \/ Sidecar \/ Die \/ WatchParent \/ WatchStdin
  \/ PageSteps \/ GiveUp

StartupSpec == StartupInit /\ [][StartupNext]_startupVars

\* Each process runs on, its watchdog threads and the timer of the page with
\* it; nobody has to close, crash or kill anything.
StartupFairness ==
  /\ WF_startupVars(Shell) /\ WF_startupVars(Sidecar)
  /\ WF_startupVars(WatchParent) /\ WF_startupVars(WatchStdin)
  /\ WF_startupVars(PageSteps) /\ WF_startupVars(GiveUp)

StartupFairSpec == StartupSpec /\ StartupFairness

-----------------------------------------------------------------------------
\* The variables hold what the processes can put in them.
StartupTypes ==
  /\ shell \in {"setup", "running", "closed", "killed"}
  /\ sidecar \in {"none", "starting", "announced", "serving", "dead"}
  /\ {bound, pidTaken, pipe, info} \subseteq BOOLEAN
  /\ toEmit \in Events \cup {"nothing"}
  /\ page \in {"loading", "asked", "waiting", "ready", "error", "gone"}
  /\ answer \in {"none", "null", "info"}
  /\ hears \subseteq Events /\ emitted \subseteq Events

\* A page that believes it has a backend never meets a port nobody listens on,
\* unless the sidecar has died: the line on stdout is the proof that the
\* socket is bound.
ReadyIsReachable == page = "ready" /\ Alive => bound

\* A sidecar does not outlive its shell, however the shell ended and whoever
\* has its pid by now.
NoOrphan == ~ShellRuns ~> ~Alive

\* The page does not wait for ever: it gets a backend or says there is none.
StartupEnds == page = "loading" ~> page \in {"ready", "error", "gone"}

\* A page that loads before the sidecar is up gets the port and the token
\* later, through the backend-ready event (backend.ts): with its listener in
\* place it does not give up after the event was emitted.
\* It does not hold: the event may come between the answer and the listener.
LateHandshakeArrives == [][page' = "error" /\ "backend-ready" \in hears
                             => "backend-ready" \notin emitted]_page
=============================================================================
