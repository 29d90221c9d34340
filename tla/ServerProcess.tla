---------------------------- MODULE ServerProcess ----------------------------
(***************************************************************************)
(* What lives in the memory of the server process only: the worker of the  *)
(* stock notifications and the export jobs.  They share nothing but the    *)
(* process, and end with it: the lifespan of the application starts the    *)
(* worker with an empty queue, and a restart finds no job and no index.    *)
(***************************************************************************)
EXTENDS Requests, Integers, Sequences, FiniteSets

CONSTANTS Quantity, Threshold, Default, Opening, MaxMovements
CONSTANTS Key, Body, Job, Nothing

ASSUME QuantityAssumption == Quantity \subseteq Int \ {0}
ASSUME BoundAssumption == MaxMovements \in Nat /\ Opening \in Int
ASSUME NothingAssumption == Nothing \notin Job \cup Key \cup Body

VARIABLES log, threshold, default, active, worker, queue, judging, notes, crossed, late, lost
workerVars ==
    <<log, threshold, default, active, worker, queue, judging, notes, crossed, late, lost>>

VARIABLES job, index, row, request
jobVars == <<job, index, row, request>>

VARIABLES
    crashes,   \* number of restarts so far
    moving     \* the component whose steps a behavior takes

(* Bound: restarts of a behavior. *)
CONSTANT MaxCrashes

Worker == INSTANCE StockNotifications
Jobs == INSTANCE Exports

vars == <<workerVars, jobVars, crashes, moving>>

(* Bound: a behavior moves the worker or the jobs.  A step of one neither   *)
(* enables nor disables a step of the other, so their interleavings show    *)
(* nothing that each of them with the restarts does not.                    *)
Init == Worker!Init /\ Jobs!Init /\ crashes = 0 /\ moving \in {"worker", "jobs"}

WorkerOnly == moving = "worker" /\ UNCHANGED <<jobVars, crashes, moving>>
JobsOnly == moving = "jobs" /\ UNCHANGED <<workerVars, crashes, moving>>

(* The process ends; the lifespan of the next one starts a worker. *)
Restart ==
    /\ crashes < MaxCrashes
    /\ crashes' = crashes + 1
    /\ Worker!Crash
    /\ Jobs!Crash
    /\ UNCHANGED moving

Next ==
    \/ Worker!Next /\ WorkerOnly
    \/ Jobs!Next /\ JobsOnly
    \/ Restart

(* The event loop runs the worker and every task that can go on. *)
Fairness ==
    /\ WF_vars((Worker!Listen \/ Worker!Judge) /\ WorkerOnly)
    /\ \A j \in Job : WF_vars(Jobs!Run(j) /\ JobsOnly)

Spec == Init /\ [][Next]_vars
FairSpec == Spec /\ Fairness

-----------------------------------------------------------------------------

(* Every crossing is notified once while the worker keeps up, however often *)
(* the process was restarted in between.                                    *)
NotifiedWhileKeepingUp == Worker!NotifiedWhileKeepingUp

(* No answer names the job of another body, before or after a restart. *)
AnswerFitsBody == Jobs!AnswerFitsBody

(* Every queued job ends, at the latest with the process. *)
EveryJobEnds == Jobs!EveryJobEnds

(* No crossing goes unnoticed while the worker runs (Backend-Architecture). *)
CrossingNoticed == Worker!CrossingNoticed

(* The worker "reconnects on connection loss" (worker.py). *)
ListensAgain == Worker!ListensAgain

(* One key and one body name one job (ExportService.create_export). *)
SameKeySameJob == Jobs!SameKeySameJob

=============================================================================
