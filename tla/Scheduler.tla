------------------------------ MODULE Scheduler ------------------------------
(***************************************************************************)
(* Scheduler::schedule(hashkey, ...) racing Scheduler::stop                *)
(* (src/core/scheduler.cpp, scheduler.h, worker.h, worker.cpp, queue.h).   *)
(*                                                                         *)
(* Callers are threads making the synchronous schedule(hashkey, fun, req,  *)
(* rsp): they build an ExecutorEx, schedule it and block in cond.yield()   *)
(* until the task is destroyed (~ExecutorEx resumes the condition).        *)
(* schedule reads the plain bool _quit, then _workers.size(), then         *)
(* _workers[index], then calls worker->addTask: four separate reads of     *)
(* state stop() changes.  stop() sets _quit, deletes every Worker (its     *)
(* queue's destructor deletes the pending tasks) and clears the vector;    *)
(* ~Worker does not stop or join the worker's thread.  A read of a freed   *)
(* Worker or past the end of the vector is undefined; the model records it *)
(* in uaf and lets the caller's task be lost.                              *)
(***************************************************************************)
EXTENDS Naturals, Sequences

CONSTANTS
    N,            \* I/O workers: the vector holds workers 0 .. N
    Callers,      \* threads calling the synchronous schedule
    Keys,         \* the hash keys they schedule with (connection ids)
    QueueLimit    \* Worker::_queueLimit

Wk == 0 .. N

VARIABLES
    quit,       \* Scheduler::_quit
    vec,        \* Scheduler::_workers, as worker numbers
    alive,      \* alive[w]: Worker w not yet deleted
    queue,      \* queue[w]: the callers whose tasks wait in w's queue
    stopPc,     \* where stop() is: "run", "deleting", "cleared"
    del,        \* next vector position stop() deletes
    pc,         \* pc[p]: where caller p is
    target,     \* target[p]: the worker p read from the vector
    key,        \* key[p]: the hash key p schedules with
    uaf         \* an undefined read of freed or out-of-range memory happened

vars == <<quit, vec, alive, queue, stopPc, del, pc, target, key, uaf>>

-----------------------------------------------------------------------------
(* Scheduler::schedule(hashkey, c): index = hashkey % (size - 1) + 1,      *)
(* 0-based.                                                                *)
Slot(h, size) == (h % (size - 1)) + 1

(* schedule(hashkey, ...) with hash key h; its first two checks: _quit, then _workers.size() < 2; a refused *)
(* task is deleted, which resumes the condition, and the call returns      *)
(* false without yielding.                                                 *)
CheckQuit(p, h) ==
    /\ pc[p] = "idle"
    /\ key' = [key EXCEPT ![p] = h]
    /\ pc' = [pc EXCEPT ![p] = IF quit \/ Len(vec) < 2 THEN "done" ELSE "checked"]
    /\ UNCHANGED <<quit, vec, alive, queue, stopPc, del, target, uaf>>

(* index = hashkey % (_workers.size() - 1) + 1; worker = _workers[index]:  *)
(* size is read again, and once the vector is cleared size() - 1 wraps and *)
(* the index runs off the end.                                             *)
ReadWorker(p) ==
    /\ pc[p] = "checked"
    /\ IF Len(vec) >= 2
       THEN /\ target' = [target EXCEPT ![p] = vec[Slot(key[p], Len(vec)) + 1]]
            /\ UNCHANGED uaf
       ELSE /\ uaf' = TRUE
            /\ UNCHANGED target
    /\ pc' = [pc EXCEPT ![p] = "read"]
    /\ UNCHANGED <<quit, vec, alive, queue, stopPc, del, key>>

(* Worker::addTask: refuse above _queueLimit (schedule deletes the task,   *)
(* resuming the caller), else push and yield.  On a freed Worker the push  *)
(* is undefined and the task is never seen again.                          *)
AddTask(p) ==
    /\ pc[p] = "read"
    /\ LET w == target[p] IN
       CASE uaf \/ ~alive[w] ->
              /\ uaf' = TRUE
              /\ pc' = [pc EXCEPT ![p] = "waiting"]
              /\ UNCHANGED queue
         [] Len(queue[w]) > QueueLimit ->
              /\ pc' = [pc EXCEPT ![p] = "done"]
              /\ UNCHANGED <<queue, uaf>>
         [] OTHER ->
              /\ queue' = [queue EXCEPT ![w] = Append(@, p)]
              /\ pc' = [pc EXCEPT ![p] = "waiting"]
              /\ UNCHANGED uaf
    /\ UNCHANGED <<quit, vec, alive, stopPc, del, target, key>>

(* Resume every caller whose task is destroyed.                            *)
Resume(ps) == [p \in Callers |-> IF p \in ps THEN "done" ELSE pc[p]]

(* Worker::onSignals: swap the queue out, run each task and delete it.     *)
Drain(w) ==
    /\ alive[w]
    /\ queue[w] # <<>>
    /\ pc' = Resume({queue[w][i] : i \in 1 .. Len(queue[w])})
    /\ queue' = [queue EXCEPT ![w] = <<>>]
    /\ UNCHANGED <<quit, vec, alive, stopPc, del, target, uaf, key>>

(* ~Worker without draining its queue (mutant of DeleteWorker).            *)
DeleteWorkerKeepTasks(w) ==
    /\ alive' = [alive EXCEPT ![w] = FALSE]
    /\ UNCHANGED <<pc, queue>>

(* delete *it: ~Worker, whose ~MessageQueue deletes the pending tasks.     *)
DeleteWorker(w) ==
    /\ alive' = [alive EXCEPT ![w] = FALSE]
    /\ pc' = Resume({queue[w][i] : i \in 1 .. Len(queue[w])})
    /\ queue' = [queue EXCEPT ![w] = <<>>]

(* Scheduler::stop: _quit = true ...                                       *)
Stop ==
    /\ stopPc = "run"
    /\ quit' = TRUE
    /\ stopPc' = "deleting"
    /\ UNCHANGED <<vec, alive, queue, del, pc, target, uaf, key>>

(* ... delete each worker in vector order ...                              *)
StopDelete ==
    /\ stopPc = "deleting"
    /\ del <= Len(vec)
    /\ DeleteWorker(vec[del])
    /\ del' = del + 1
    /\ UNCHANGED <<quit, vec, stopPc, target, uaf, key>>

(* Clearing the vector one worker early (mutant of StopClear).            *)
StopClearEarly ==
    /\ stopPc = "deleting"
    /\ del >= Len(vec)
    /\ vec' = <<>>
    /\ stopPc' = "cleared"
    /\ UNCHANGED <<quit, alive, queue, del, pc, target, uaf, key>>

(* ... and _workers.clear().                                               *)
StopClear ==
    /\ stopPc = "deleting"
    /\ del > Len(vec)
    /\ vec' = <<>>
    /\ stopPc' = "cleared"
    /\ UNCHANGED <<quit, alive, queue, del, pc, target, uaf, key>>

(* Scheduler::start(N) has pushed workers 0 .. N.                          *)
Init ==
    /\ quit = FALSE
    /\ vec = [i \in 1 .. N + 1 |-> i - 1]
    /\ alive = [w \in Wk |-> TRUE]
    /\ queue = [w \in Wk |-> <<>>]
    /\ stopPc = "run"
    /\ del = 1
    /\ pc = [p \in Callers |-> "idle"]
    /\ target = [p \in Callers |-> 0]
    /\ key = [p \in Callers |-> 0]
    /\ uaf = FALSE

CallerStep(p) == (\E h \in Keys : CheckQuit(p, h)) \/ ReadWorker(p) \/ AddTask(p)

Next ==
    \/ \E p \in Callers : CallerStep(p)
    \/ \E w \in Wk : Drain(w)
    \/ Stop \/ StopDelete \/ StopClear

(* Callers and worker threads are scheduled by the OS; once stop() has     *)
(* begun it runs to the end.  Nothing forces the application to stop.      *)
Fairness ==
    /\ \A p \in Callers : WF_vars(CallerStep(p))
    /\ \A w \in Wk : WF_vars(Drain(w))
    /\ WF_vars(StopDelete) /\ WF_vars(StopClear)

Spec == Init /\ [][Next]_vars /\ Fairness

-----------------------------------------------------------------------------
TypeOK ==
    /\ quit \in BOOLEAN /\ uaf \in BOOLEAN
    /\ vec \in Seq(Wk) /\ alive \in [Wk -> BOOLEAN]
    /\ queue \in [Wk -> Seq(Callers)]
    /\ stopPc \in {"run", "deleting", "cleared"} /\ del \in 1 .. N + 2
    /\ pc \in [Callers -> {"idle", "checked", "read", "waiting", "done"}]
    /\ target \in [Callers -> Wk] /\ key \in [Callers -> Nat]
    /\ stopPc = "cleared" => vec = <<>> /\ \A w \in Wk : ~alive[w]

(* Spec 4.5 / 4.6: a synchronous schedule never blocks its caller for      *)
(* good: the task is run and deleted by its worker, or deleted by stop()   *)
(* with the worker's queue; either way ~ExecutorEx resumes the caller      *)
(* (unless stop() and schedule() already collided in undefined behaviour). *)
SyncCallerResumed ==
    \A p \in Callers : pc[p] = "waiting" ~> (pc[p] = "done" \/ uaf)

(* Scheduler::stop vs schedule: no thread reads a deleted Worker or an     *)
(* index past the cleared vector.                                          *)
NoUseAfterFree == ~uaf
=============================================================================
