----------------------------- MODULE WorkerClock -----------------------------
(***************************************************************************)
(* The periodic request of the project worker (runtime.rs, run_owner): the *)
(* clock `last_full`, everything that sets it back, and with it the        *)
(* liveness of the reconciliation.  Module ProjectReconcile leaves open    *)
(* which visits of the worker ask for everything; here the clock decides.  *)
(*                                                                         *)
(* The clock is set back when it has run out and everything is asked for,  *)
(* when a full run completes, and in every round that finds the session    *)
(* collection being reconciled.  One worker serves all roots, so a full    *)
(* run of another root that completes sets it back as well.                *)
(***************************************************************************)
EXTENDS ProjectReconcile

VARIABLES
    due,   \* more than 30 seconds have passed since last_full
    busy   \* the sessions or another root have work queued or under way

clockVars == <<due, busy>>
allVars == <<vars, clockVars>>

(* New controllers, that of the sessions too, have everything queued.        *)
ClockInit == Init /\ due = FALSE /\ busy = TRUE

(* The worker looks at the clock, and another root has its turn, between the *)
(* runs of this root, so what happens to them meanwhile is taken then.       *)
BetweenRuns == pc \in {"idle", "picked"}

(* A change is observed elsewhere, and the work it gives is done.            *)
NoticeElsewhere == ~busy /\ BetweenRuns /\ busy' = TRUE /\ UNCHANGED <<vars, due>>
SettleElsewhere == busy /\ BetweenRuns /\ busy' = FALSE /\ UNCHANGED <<vars, due>>

(* 30 seconds pass.                                                          *)
Elapse ==
    /\ ~due /\ BetweenRuns
    /\ used.forces < MaxForces
    /\ due' = TRUE
    /\ UNCHANGED <<vars, busy>>

(* A round of the worker.  If it finds the sessions being reconciled, or a   *)
(* full run of another root has completed, the clock is set back; otherwise  *)
(* a clock that has run out asks for everything: here, if there is a client, *)
(* and of the sessions and the other roots.                                  *)
VisitForgets ==
    \E running \in BOOLEAN :
        LET force == due /\ ~running IN
        /\ running => busy
        /\ \/ WorkerPick(FALSE)
           \/ pc = "idle" /\ leases = 0 /\ UNCHANGED vars
        /\ due' = FALSE
        /\ busy' = (busy \/ force)
Visit ==
    \E running \in BOOLEAN :
        LET force == due /\ ~running IN
        /\ running => busy
        /\ \/ WorkerPick(force)
           \/ pc = "idle" /\ leases = 0 /\ UNCHANGED vars
        /\ due' = FALSE
        /\ busy' = (busy \/ force)

(* The run of this root; a full one that completes sets the clock back.      *)
Works ==
    /\ pc # "idle" /\ Worker
    /\ due' = (due /\ ~(FinishRun /\ ticket.scope = Full /\ Completed(job.report)))
    /\ UNCHANGED busy

(* An owner that starts has a new clock.                                     *)
Outside ==
    /\ Environment \/ Reader
    /\ IF used'.crashes # used.crashes THEN due' = FALSE /\ busy' = TRUE
                                       ELSE UNCHANGED clockVars

ClockNext == Visit \/ Works \/ Outside \/ NoticeElsewhere \/ SettleElsewhere \/ Elapse

ClockSpec == ClockInit /\ [][ClockNext]_allVars

(***************************************************************************)
(* The worker thread keeps running, the watcher delivers what it has       *)
(* queued, a connection that holds the lifecycle lock goes on, work        *)
(* elsewhere gets done while this root needs none, for which the sessions  *)
(* wait, and the clock runs out if nothing elsewhere can set it back.      *)
(***************************************************************************)
Fairness ==
    /\ WF_allVars(Visit \/ Works)
    /\ WF_allVars(AttachWatch /\ UNCHANGED clockVars)
    /\ \A p \in Path :
           WF_allVars((\E precise \in BOOLEAN : Deliver(p, precise)) /\ UNCHANGED clockVars)
    /\ WF_allVars(Idle(ctl) /\ SettleElsewhere)
    /\ WF_allVars(~busy /\ Elapse)

FairSpec == ClockSpec /\ Fairness

(* While a client stays connected, the index ends up equal to the files and  *)
(* readable: lost events, failed runs, failed reads and changes before the   *)
(* watcher are all caught.  Three premises: the files stop changing, the     *)
(* faults stop, and so does what happens elsewhere, for the worker sets the  *)
(* clock back in every round in which the sessions are being reconciled, and *)
(* sessions that go on changing can postpone the periodic request for good.  *)
Converges ==
    <>[](leases > 0) /\ <>[][~NoticeElsewhere]_allVars =>
        <>[](/\ Idle(ctl) /\ Eligible(ctl)
             /\ \A p \in Path : Searchable(rows)[p] =
                     IF disk[p] \in Version THEN disk[p] ELSE NoVersion)
=============================================================================
