---------------------------- MODULE WorkerQueue ----------------------------
(***************************************************************************)
(* One Worker's task queue (src/core/queue.h, queue.cpp, worker.cpp):      *)
(* producer threads call Worker::addTask, which reads the queue size under *)
(* the spinlock and then, in a second locked call, MessageQueue::push.     *)
(* push appends and, when the queue was empty or _notify is set, clears    *)
(* _notify and writes one byte to the non-blocking wakeup pipe (a failed   *)
(* write is ignored).  The worker thread's reactor sees the pipe readable  *)
(* (level-triggered EPOLLIN), Notifier::handle drains the pipe and calls   *)
(* Worker::onSignals, which swaps the whole queue out (MessageQueue::get   *)
(* sets _notify) and runs the tasks one by one; producers keep pushing     *)
(* meanwhile.                                                              *)
(*                                                                         *)
(* A task is the pair <<p, i>>: the i-th task producer p submits.          *)
(***************************************************************************)
EXTENDS Integers, Sequences, SequencesExt, FiniteSets

CONSTANTS
    Producers,  \* threads calling Worker::addTask (model values)
    NTasks,     \* tasks each producer submits
    Limit,      \* Worker::_queueLimit
    PipeCap     \* bytes the pipe holds before write() fails with EAGAIN

ASSUME NTasks \in Nat /\ Limit \in Nat /\ PipeCap \in Nat \ {0}

Tasks == Producers \X (1 .. NTasks)

VARIABLES
    queue,      \* MessageQueue::queue_
    notifyFlag, \* MessageQueue::_notify
    pipe,       \* bytes written to the pipe and not yet read
    sent,       \* sent[p]: tasks p has submitted (accepted or rejected)
    ppc,        \* ppc[p]: "idle", or "checked" between size() and push()
    cpc,        \* worker thread: "idle" (in epoll_wait or other handlers),
                \* "read" (pipe drained, before get), "run" (running batch)
    batch,      \* the deque onSignals is running
    enq,        \* ghost: every task pushed, in push order
    ran,        \* ghost: every task run, in run order
    rejected    \* ghost: tasks addTask refused

vars == <<queue, notifyFlag, pipe, sent, ppc, cpc, batch, enq, ran, rejected>>

TaskOf(p) == <<p, sent[p] + 1>>

-----------------------------------------------------------------------------
(* An addTask without its size check (mutant of AddTaskCheck).           *)
AddTaskCheckNoLimit(p) ==
    /\ ppc[p] = "idle"
    /\ sent[p] < NTasks
    /\ ppc' = [ppc EXCEPT ![p] = "checked"]
    /\ UNCHANGED <<queue, notifyFlag, pipe, cpc, batch, enq, ran, sent, rejected>>

(* Worker::addTask, first half: if(_queue.size() > _queueLimit) return     *)
(* false (the caller, Scheduler::schedule, deletes the task).              *)
AddTaskCheck(p) ==
    /\ ppc[p] = "idle"
    /\ sent[p] < NTasks
    /\ IF Len(queue) > Limit
       THEN /\ sent' = [sent EXCEPT ![p] = @ + 1]
            /\ rejected' = rejected \cup {TaskOf(p)}
            /\ UNCHANGED ppc
       ELSE /\ ppc' = [ppc EXCEPT ![p] = "checked"]
            /\ UNCHANGED <<sent, rejected>>
    /\ UNCHANGED <<queue, notifyFlag, pipe, cpc, batch, enq, ran>>

(* Notifier::notify: write one byte; EAGAIN on a full pipe is ignored.     *)
PipeWrite == IF pipe < PipeCap THEN pipe + 1 ELSE pipe

(* A push that never clears _notify, so every push writes a byte          *)
(* (mutant of Push).                                                       *)
PushKeepNotify(p) ==
    /\ ppc[p] = "checked"
    /\ queue' = Append(queue, TaskOf(p))
    /\ pipe' = PipeWrite
    /\ sent' = [sent EXCEPT ![p] = @ + 1]
    /\ ppc' = [ppc EXCEPT ![p] = "idle"]
    /\ enq' = Append(enq, TaskOf(p))
    /\ UNCHANGED <<notifyFlag, cpc, batch, ran, rejected>>

(* MessageQueue::push under the spinlock, the second half of addTask.      *)
Push(p) ==
    /\ ppc[p] = "checked"
    /\ LET notify == queue = <<>> \/ notifyFlag = 1
       IN  /\ queue' = Append(queue, TaskOf(p))
           /\ notifyFlag' = IF notify THEN 0 ELSE notifyFlag
           /\ pipe' = IF notify THEN PipeWrite ELSE pipe
    /\ sent' = [sent EXCEPT ![p] = @ + 1]
    /\ ppc' = [ppc EXCEPT ![p] = "idle"]
    /\ enq' = Append(enq, TaskOf(p))
    /\ UNCHANGED <<cpc, batch, ran, rejected>>

(* A handler that only reacts once more than one byte is buffered, an     *)
(* off-by-one on read()'s count (mutant of NotifierRead).                 *)
NotifierReadLate ==
    /\ cpc = "idle"
    /\ pipe > 1
    /\ pipe' = 0
    /\ cpc' = "read"
    /\ UNCHANGED <<queue, notifyFlag, sent, ppc, batch, enq, ran, rejected>>

(* The reactor reports the pipe readable; Notifier::handle -> read()       *)
(* drains every byte.                                                      *)
NotifierRead ==
    /\ cpc = "idle"
    /\ pipe > 0
    /\ pipe' = 0
    /\ cpc' = "read"
    /\ UNCHANGED <<queue, notifyFlag, sent, ppc, batch, enq, ran, rejected>>

(* onSignals taking one task with pop() and then setting _notify (mutant   *)
(* of Get).                                                                *)
GetOne ==
    /\ cpc = "read"
    /\ batch' = IF queue = <<>> THEN <<>> ELSE <<Head(queue)>>
    /\ queue' = IF queue = <<>> THEN <<>> ELSE Tail(queue)
    /\ notifyFlag' = 1
    /\ cpc' = IF queue = <<>> THEN "idle" ELSE "run"
    /\ UNCHANGED <<pipe, sent, ppc, enq, ran, rejected>>

(* Worker::onSignals -> MessageQueue::get: swap the queue out under the    *)
(* lock and set _notify; an empty batch returns at once.                   *)
Get ==
    /\ cpc = "read"
    /\ batch' = queue
    /\ queue' = <<>>
    /\ notifyFlag' = 1
    /\ cpc' = IF queue = <<>> THEN "idle" ELSE "run"
    /\ UNCHANGED <<pipe, sent, ppc, enq, ran, rejected>>

(* A run loop that tests for the end of the batch before taking the task  *)
(* (mutant of RunTask).                                                    *)
RunTaskLateEnd ==
    /\ cpc = "run"
    /\ batch # <<>>
    /\ ran' = Append(ran, Head(batch))
    /\ batch' = Tail(batch)
    /\ cpc' = IF batch = <<>> THEN "idle" ELSE "run"
    /\ UNCHANGED <<queue, notifyFlag, pipe, sent, ppc, enq, rejected>>

(* A run loop that walks the batch from its back (mutant of RunTask).      *)
RunTaskFromBack ==
    /\ cpc = "run"
    /\ ran' = Append(ran, Last(batch))
    /\ batch' = Front(batch)
    /\ cpc' = IF Front(batch) = <<>> THEN "idle" ELSE "run"
    /\ UNCHANGED <<queue, notifyFlag, pipe, sent, ppc, enq, rejected>>

(* onSignals' loop: run the next task of the batch (and delete it when     *)
(* run() returns false or throws).                                         *)
RunTask ==
    /\ cpc = "run"
    /\ ran' = Append(ran, Head(batch))
    /\ batch' = Tail(batch)
    /\ cpc' = IF Tail(batch) = <<>> THEN "idle" ELSE "run"
    /\ UNCHANGED <<queue, notifyFlag, pipe, sent, ppc, enq, rejected>>

Init ==
    /\ queue = <<>>
    /\ notifyFlag = 1
    /\ pipe = 0
    /\ sent = [p \in Producers |-> 0]
    /\ ppc = [p \in Producers |-> "idle"]
    /\ cpc = "idle"
    /\ batch = <<>>
    /\ enq = <<>>
    /\ ran = <<>>
    /\ rejected = {}

Next ==
    \/ \E p \in Producers : AddTaskCheck(p) \/ Push(p)
    \/ NotifierRead
    \/ Get
    \/ RunTask

(* The worker thread loops in mainloop for as long as the process runs,    *)
(* and the pipe is level-triggered: its steps are weakly fair.  Producers  *)
(* get no fairness: a thread may stop submitting at any time.              *)
Fairness == WF_vars(NotifierRead) /\ WF_vars(Get) /\ WF_vars(RunTask)

Spec == Init /\ [][Next]_vars /\ Fairness

-----------------------------------------------------------------------------
TypeOK ==
    /\ queue \in Seq(Tasks)
    /\ notifyFlag \in {0, 1}
    /\ pipe \in 0 .. PipeCap
    /\ sent \in [Producers -> 0 .. NTasks]
    /\ ppc \in [Producers -> {"idle", "checked"}]
    /\ cpc \in {"idle", "read", "run"}
    /\ (cpc = "run") = (batch # <<>>)
    /\ batch \in Seq(Tasks)
    /\ enq \in Seq(Tasks)
    /\ ran \in Seq(Tasks)
    /\ rejected \subseteq Tasks

(* The _notify handshake between push and get never strands a task: while  *)
(* the queue is non-empty either a wakeup byte is in the pipe or the       *)
(* worker has already drained the pipe and is about to call get.           *)
WakeupPending ==
    queue # <<>> => pipe > 0 \/ cpc = "read"

(* At most one wakeup byte is ever outstanding, so the non-blocking write  *)
(* in Notifier::notify never meets a full pipe (whose EAGAIN it ignores).  *)
OneWakeupByte == pipe <= 1

(* Every accepted task is in exactly one place, in push order: already     *)
(* run, in the batch onSignals is running, or still queued.  So tasks run  *)
(* exactly once and in FIFO order (spec 4, spec 8 "FIFO per hash key").   *)
TasksInOrder == enq = ran \o batch \o queue

(* Every task addTask accepted is eventually run by the worker.            *)
AcceptedTaskRuns ==
    \A t \in Tasks : (t \in ToSet(enq)) ~> (t \in ToSet(ran))

(* Spec 4: "queue length is bounded (configurable limit)".  addTask reads  *)
(* size() and pushes under two separate locks, so every producer that      *)
(* passed the size() > _queueLimit test before the others pushed still     *)
(* pushes: the queue can pass the limit by one task per producer thread,   *)
(* and by no more.                                                         *)
QueueOvershootBounded == Len(queue) <= Limit + Cardinality(Producers)

(* Spec 4: "queue length is bounded (configurable limit)": addTask's       *)
(* size() > _queueLimit test admits one task beyond the limit, and no      *)
(* more.                                                                   *)
QueueBounded == Len(queue) <= Limit + 1
=============================================================================
