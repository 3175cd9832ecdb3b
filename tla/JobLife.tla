------------------------------ MODULE JobLife ------------------------------
(***************************************************************************)
(* What a job is to whoever looks at it: the stage its row is in, whether  *)
(* the runner has work for it in hand, and whether a stop of the process   *)
(* took that work away.  The runner (Jobs) implements this specification;  *)
(* the page (Screen) is built on it.                                       *)
(***************************************************************************)
CONSTANTS Jobs,     \* ids of jobs
          Settled   \* the stages in which a job waits for the user

VARIABLES stage,    \* the stage of each job
          busy,     \* the jobs with a handler, a queued task or a run
          stranded  \* the jobs whose work was dropped by a stop

life == <<stage, busy, stranded>>

Existing == Settled \cup {"waiting"}
Stages   == Existing \cup {"absent", "deleted"}

Init == /\ stage = [j \in Jobs |-> "absent"]
        /\ busy = {}
        /\ stranded = {}

Becomes(j, s) == stage' = [stage EXCEPT ![j] = s]

\* A new job waits from its first moment on.
Create(j) == /\ stage[j] = "absent"
             /\ Becomes(j, "waiting")
             /\ busy' = busy \cup {j}
             /\ UNCHANGED stranded

\* A request for another run.
Start(j) == /\ stage[j] \in Existing
            /\ \E s \in {stage[j], "waiting"} : Becomes(j, s)
            /\ busy' = busy \cup {j}
            /\ UNCHANGED stranded

\* Work in hand writes a stage, or is secured after a stop.
Advance(j) == /\ j \in busy
              /\ \E s \in Stages :
                   /\ s = stage[j] \/ {s, stage[j]} \subseteq Existing
                   /\ Becomes(j, s)
              /\ stranded' \in {stranded, stranded \ {j}}
              /\ UNCHANGED busy

\* The last work in hand ends: the job waits for the user, or is gone, or a
\* stop has already taken what its stage promises.
Rest(j) == /\ j \in busy
           /\ \E s \in Stages :
                /\ s = stage[j] \/ {s, stage[j]} \subseteq Existing
                /\ s = "waiting" => j \in stranded
                /\ Becomes(j, s)
           /\ busy' = busy \ {j}
           /\ UNCHANGED stranded

Remove(j) == /\ stage[j] \in Existing
             /\ Becomes(j, "deleted")
             /\ UNCHANGED <<busy, stranded>>

\* A stop of the process drops work; the stages stay as they are.
Stop == /\ busy' \subseteq busy
        /\ stranded \subseteq stranded'
        /\ \A j \in busy \ busy' : stage[j] = "waiting" => j \in stranded'
        /\ UNCHANGED stage

Next == \/ \E j \in Jobs : Create(j) \/ Start(j) \/ Advance(j) \/ Rest(j) \/ Remove(j)
        \/ Stop

Spec == Init /\ [][Next]_life

\* Work in hand ends.
RunsEnd == \A j \in Jobs : j \in busy ~> j \notin busy
=============================================================================
