----------------------------- MODULE FutureCall -----------------------------
(***************************************************************************)
(* Request futures on one connection (src/core/future.h, future.cpp,       *)
(* interface.h Transport, connection.h, manager.cpp, tcp_connection.cpp).  *)
(*                                                                         *)
(* A call (Future for call(), AsyncFuture for async_call()) schedules a    *)
(* Transport task on the connection's worker.  On the worker, Transport    *)
(* ticks the future (starting its SimpleTimer when time is left), looks    *)
(* the connection up in the Manager, serializes and sends, and stores the  *)
(* future in the connection under its sequence number.  The future is      *)
(* completed by the first of: a response popped by sn (set_value), its    *)
(* timer (timeout(): remove(sn) from the connection if the Manager still   *)
(* has it, then set_exception), the connection being destroyed (clear()    *)
(* fails every stored future), a later push of the same sn, or an error    *)
(* in Transport.  Completion runs done(): stop the timer, then resume the  *)
(* waiting thread (Future) or run the callback (AsyncFuture).              *)
(*                                                                         *)
(* Everything but the caller's wait runs on the one worker thread, so each *)
(* handler is one atomic step.  The application may hold its own           *)
(* IConnection_var, keeping a closed connection alive after the Manager    *)
(* dropped it.                                                             *)
(***************************************************************************)
EXTENDS Naturals, FiniteSets

CONSTANTS
    Futures,      \* the calls made on the connection (model values)
    SNs,          \* sequence numbers
    Sn,           \* Sn[f]: the sn call f was made with
    Kind,         \* Kind[f] \in {"sync", "async"}: Future or AsyncFuture
    AllowUserRef, \* whether the application keeps an IConnection_var
    None

ASSUME Sn \in [Futures -> SNs] /\ Kind \in [Futures -> {"sync", "async"}]
ASSUME AllowUserRef \in BOOLEAN

VARIABLES
    conn,         \* "open" (in the Manager), "removed" (out of the Manager
                  \* but kept alive by a reference) or "destroyed"
    userRef,      \* the application holds an IConnection_var
    stored,       \* Connection::_futures: sn -> future, or None
    task,         \* f's Transport: "idle", "queued", "ran" or "rejected"
    armed,        \* f's SimpleTimer is registered
    done,         \* f's Promise::done
    completions,  \* ghost: times f's done() has run
    waiter        \* caller of Future::wait: "none", "blocked", "returned"

vars == <<conn, userRef, stored, task, armed, done, completions, waiter>>

-----------------------------------------------------------------------------
(* Completing the futures of S: Promise::set_exception/set_value marks     *)
(* done, then done() stops the timer (SimpleTimer::stop) and resumes the   *)
(* waiter (ConditionWrapper::resume) or runs the callback.  The caller     *)
(* decides whether done is tested first.                                   *)
Complete(S) ==
    /\ done' = [f \in Futures |-> done[f] \/ f \in S]
    /\ completions' = [f \in Futures |->
                         IF f \in S THEN completions[f] + 1 ELSE completions[f]]
    /\ waiter' = [f \in Futures |->
                    IF f \in S /\ waiter[f] = "blocked" THEN "returned"
                    ELSE waiter[f]]

TimerStopped(S) == [f \in Futures |-> armed[f] /\ f \notin S]

(* A done() that forgets _timer.stop() (mutant of SetException).          *)
SetExceptionNoStop(S) == Complete(S) /\ UNCHANGED armed

(* IFuture::set_exception: "if(!_promise.done);" -- the stray semicolon    *)
(* makes the body unconditional.                                           *)
SetException(S) == Complete(S) /\ armed' = TimerStopped(S)

(* IFuture::set_value: guarded by !_promise.done.                          *)
SetValue(f) ==
    IF done[f] THEN UNCHANGED <<done, completions, waiter, armed>>
    ELSE SetException({f})

(* Connection::clear() in ~Connection: fail every stored future.           *)
Clear ==
    /\ SetException({stored[s] : s \in {t \in SNs : stored[t] # None}})
    /\ stored' = [s \in SNs |-> None]

-----------------------------------------------------------------------------
(* A wait() that yields even when schedule() failed (mutant of Call).      *)
CallNoThrow(f) ==
    /\ task[f] = "idle"
    /\ \E accepted \in BOOLEAN :
          /\ task' = [task EXCEPT ![f] = IF accepted THEN "queued" ELSE "rejected"]
          /\ waiter' = [waiter EXCEPT ![f] =
                          IF Kind[f] = "async" THEN "none" ELSE "blocked"]
    /\ UNCHANGED <<conn, userRef, stored, armed, done, completions>>

(* Future::wait / AsyncFuture::setup -> Scheduler::schedule(connid, task): *)
(* a full queue rejects the task; wait() then throws WORKER_QUEUE_FULL.    *)
Call(f) ==
    /\ task[f] = "idle"
    /\ \E accepted \in BOOLEAN :
          /\ task' = [task EXCEPT ![f] = IF accepted THEN "queued" ELSE "rejected"]
          /\ waiter' = [waiter EXCEPT ![f] =
                          IF Kind[f] = "async" THEN "none"
                          ELSE IF accepted THEN "blocked" ELSE "returned"]
    /\ UNCHANGED <<conn, userRef, stored, armed, done, completions>>

(* An execute() whose IO_BUSY branch returns without throwing, so run()    *)
(* never fails the future (mutant of RunTransport).                        *)
RunTransportBusyReturn(f) ==
    /\ task[f] = "queued"
    /\ task' = [task EXCEPT ![f] = "ran"]
    /\ \E busy, sent \in BOOLEAN :
          LET fails == conn # "open" \/ ~sent
              old   == stored[Sn[f]]
              S     == IF busy THEN {} ELSE IF fails THEN {f}
                       ELSE IF old # None THEN {old} ELSE {}
          IN  /\ Complete(S)
              /\ armed' = [g \in Futures |->
                             IF g \in S THEN FALSE
                             ELSE IF g = f THEN ~busy ELSE armed[g]]
              /\ stored' = IF busy \/ fails THEN stored
                           ELSE [stored EXCEPT ![Sn[f]] = f]
    /\ UNCHANGED <<conn, userRef>>

(* Transport::run -> execute on the worker.  tick() starts the timer when  *)
(* time is left (busy: the call waited in the queue past its timeout);     *)
(* then IO_BUSY, CONNECTION_CLOSED when the Manager has no connection,     *)
(* PROTOCOL_ERROR or a socket_error from send (sent = FALSE), all caught   *)
(* by run() and passed to set_exception; otherwise push(sn, future),       *)
(* which first fails a future already stored under that sn.                *)
RunTransport(f) ==
    /\ task[f] = "queued"
    /\ task' = [task EXCEPT ![f] = "ran"]
    /\ \E busy, sent \in BOOLEAN :
          LET fails == busy \/ conn # "open" \/ ~sent
              old   == stored[Sn[f]]
              S     == IF fails THEN {f} ELSE IF old # None THEN {old} ELSE {}
          IN  /\ Complete(S)
              /\ armed' = [g \in Futures |->
                             IF g \in S THEN FALSE
                             ELSE IF g = f THEN ~busy ELSE armed[g]]
              /\ stored' = IF fails THEN stored
                           ELSE [stored EXCEPT ![Sn[f]] = f]
    /\ UNCHANGED <<conn, userRef>>

(* A pop that finds the future but does not erase it (mutant of Response). *)
ResponseKeep(s) ==
    /\ stored[s] # None
    /\ SetValue(stored[s])
    /\ UNCHANGED <<conn, userRef, task, stored>>

(* The peer answers sn: the client handler pops the future               *)
(* (Connection::pop erases it) and calls set_value.                        *)
Response(s) ==
    /\ stored[s] # None
    /\ stored' = [stored EXCEPT ![s] = None]
    /\ SetValue(stored[s])
    /\ UNCHANGED <<conn, userRef, task>>

TimerFires(f) ==
    /\ armed[f]
    /\ IF Kind[f] = "sync" /\ done[f]
       THEN /\ armed' = [armed EXCEPT ![f] = FALSE]
            /\ UNCHANGED <<stored, done, completions, waiter>>
       ELSE /\ stored' = IF conn = "open" THEN [stored EXCEPT ![Sn[f]] = None]
                         ELSE stored
            /\ SetException({f})
    /\ UNCHANGED <<conn, userRef, task>>

(* TcpConnection::handleOnClose / handleOnInitiativeClose ->               *)
(* Manager::onClose -> removeConnection: the Manager drops its reference;  *)
(* without another one the connection is destroyed and clear() runs.       *)
CloseConnection ==
    /\ conn = "open"
    /\ IF userRef
       THEN /\ conn' = "removed"
            /\ UNCHANGED <<stored, armed, done, completions, waiter>>
       ELSE /\ conn' = "destroyed"
            /\ Clear
    /\ UNCHANGED <<userRef, task>>

(* The application takes an IConnection_var to an open connection.         *)
TakeRef ==
    /\ AllowUserRef
    /\ conn = "open"
    /\ ~userRef
    /\ userRef' = TRUE
    /\ UNCHANGED <<conn, stored, task, armed, done, completions, waiter>>

(* The application drops it; the last reference destroys a removed         *)
(* connection.                                                             *)
DropRef ==
    /\ userRef
    /\ userRef' = FALSE
    /\ IF conn = "removed"
       THEN conn' = "destroyed" /\ Clear
       ELSE UNCHANGED <<conn, stored, armed, done, completions, waiter>>
    /\ UNCHANGED task

Init ==
    /\ conn = "open"
    /\ userRef = FALSE
    /\ stored = [s \in SNs |-> None]
    /\ task = [f \in Futures |-> "idle"]
    /\ armed = [f \in Futures |-> FALSE]
    /\ done = [f \in Futures |-> FALSE]
    /\ completions = [f \in Futures |-> 0]
    /\ waiter = [f \in Futures |-> "none"]

Next ==
    \/ \E f \in Futures : Call(f) \/ RunTransport(f) \/ TimerFires(f)
    \/ \E s \in SNs : Response(s)
    \/ CloseConnection \/ TakeRef \/ DropRef

(* The worker's reactor runs queued tasks and delivers expired timers for  *)
(* as long as it runs (Countdown, WorkerQueue): those steps are weakly     *)
(* fair.  The peer, the application and connection closes get no          *)
(* fairness.                                                               *)
Fairness ==
    \A f \in Futures : WF_vars(RunTransport(f)) /\ WF_vars(TimerFires(f))

Spec == Init /\ [][Next]_vars /\ Fairness

-----------------------------------------------------------------------------
TypeOK ==
    /\ conn \in {"open", "removed", "destroyed"}
    /\ userRef \in BOOLEAN
    /\ stored \in [SNs -> Futures \cup {None}]
    /\ task \in [Futures -> {"idle", "queued", "ran", "rejected"}]
    /\ armed \in [Futures -> BOOLEAN]
    /\ done \in [Futures -> BOOLEAN]
    /\ completions \in [Futures -> Nat]
    /\ waiter \in [Futures -> {"none", "blocked", "returned"}]
    /\ \A f \in Futures : waiter[f] = "blocked" => task[f] \in {"queued", "ran"}

(* Spec 8 "at-most-once future completion": done() -- the waiter's resume  *)
(* or the async callback -- runs at most once per call, whatever order     *)
(* the response, the timer, a repeated sn and the connection's teardown    *)
(* come in.                                                                *)
AtMostOnce == \A f \in Futures : completions[f] <= 1

(* A future the connection still holds is not complete yet and its timer   *)
(* is armed: so a response, a repeated sn or clear() never reaches a       *)
(* finished call (Connection::push/pop/remove, Future::timeout).           *)
StoredFutureLive ==
    \A s \in SNs : stored[s] # None => ~done[stored[s]] /\ armed[stored[s]]

CallCompletes ==
    \A f \in Futures : task[f] = "queued" ~> done[f]
=============================================================================
