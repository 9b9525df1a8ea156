------------------------------- MODULE Routing -------------------------------
(***************************************************************************)
(* Connection ids meet the Scheduler.  Each I/O worker w (1 .. N) creates  *)
(* and closes connections with ids from its Manager (ConnectionIds), and   *)
(* threads schedule synchronous tasks for live connections with the        *)
(* connection id as hash key (Interface, Transport -> Scheduler::schedule, *)
(* modelled by Scheduler), while the application may stop the Scheduler.  *)
(* Worker w of the Scheduler's vector is the thread whose Manager is       *)
(* Manager(w - 1).                                                         *)
(***************************************************************************)
EXTENDS Naturals, FiniteSets, Sequences

CONSTANTS N, Width, MaxLive, Callers, QueueLimit

VARIABLES
    seed, live,                                            \* ConnectionIds
    quit, vec, alive, queue, stopPc, del, pc, target, key, uaf   \* Scheduler

idVars == <<seed, live>>
schedVars == <<quit, vec, alive, queue, stopPc, del, pc, target, key, uaf>>
vars == <<idVars, schedVars>>

Ids == INSTANCE ConnectionIds

(* The hash keys callers use are the ids of connections that are live.     *)
LiveIds == UNION {live[w] : w \in 1 .. N}

Sched == INSTANCE Scheduler WITH Keys <- 0 .. 2^Width - 1

(* A thread schedules a task for a connection that is live.                *)
CallerStep(p) ==
    \/ \E h \in LiveIds : Sched!CheckQuit(p, h)
    \/ Sched!ReadWorker(p)
    \/ Sched!AddTask(p)

Init == Ids!Init /\ Sched!Init

Next ==
    \/ Ids!Next /\ UNCHANGED schedVars
    \/ \E p \in Callers : CallerStep(p) /\ UNCHANGED idVars
    \/ \E w \in Sched!Wk : Sched!Drain(w) /\ UNCHANGED idVars
    \/ (Sched!Stop \/ Sched!StopDelete \/ Sched!StopClear) /\ UNCHANGED idVars

(* The Scheduler's threads are fair as in Scheduler; the workers may stop  *)
(* creating and closing connections.                                       *)
Fairness ==
    /\ \A p \in Callers : WF_vars(CallerStep(p) /\ UNCHANGED idVars)
    /\ \A w \in Sched!Wk : WF_vars(Sched!Drain(w) /\ UNCHANGED idVars)
    /\ WF_vars(Sched!StopDelete /\ UNCHANGED idVars)
    /\ WF_vars(Sched!StopClear /\ UNCHANGED idVars)

Spec == Init /\ [][Next]_vars /\ Fairness

-----------------------------------------------------------------------------
TypeOK == Ids!TypeOK /\ Sched!TypeOK

(* Spec 4.5: all operations on a connection run on the worker that owns    *)
(* it: whenever schedule(connid, ...) reads its worker from the vector     *)
(* while the connection is live, that worker's Manager holds the id        *)
(* (getConnectionId's residue, Scheduler::schedule's index, Worker::run's  *)
(* Manager::get(_workerId - 1)).                                           *)
RoutedToOwner ==
    [][\A p \in Callers :
         (pc[p] = "checked" /\ pc'[p] = "read" /\ ~uaf' /\ key[p] \in LiveIds)
            => key[p] \in live[target'[p]]]_vars

IdsDistinct == Ids!IdsDistinct

SyncCallerResumed == Sched!SyncCallerResumed

NoUseAfterFree == Sched!NoUseAfterFree
=============================================================================
