----------------------------- MODULE Countdown -----------------------------
(***************************************************************************)
(* The per-thread hierarchical timeout wheel (src/core/countdown.cpp) as   *)
(* it is driven by the reactor loop (Selector::timout_run and              *)
(* Selector_epoll::loop_once).                                             *)
(*                                                                         *)
(* One reactor iteration is: timout_run(delta) at the top of the loop      *)
(* (accumulate delta, click the wheel once 5 ms have accumulated, deliver  *)
(* SEL_TIMEOUT to every expired handler), then epoll_wait for at most      *)
(* min(msec, next_timeout()), then I/O callbacks, then clearRemoved().     *)
(* Callbacks (timer and I/O) register, re-register, cancel or close the    *)
(* timers of arbitrary handlers.                                           *)
(*                                                                         *)
(* Handlers are model values; a std::list bucket is a sequence of          *)
(* handlers; Handler::m_iter is pos[h] (None when not registered) and the  *)
(* Timeout entry it points to holds count[h].  Time is integer ms.  The    *)
(* ghost variables age and want record, per handler, the real time since  *)
(* its last select_timeout and the timeout it asked for.                   *)
(***************************************************************************)
EXTENDS Integers, Sequences, SequencesExt, FiniteSets

CONSTANTS
    Handlers,   \* the timer handlers of one thread (model values)
    NFalls,     \* index of the last fall; the code has 12 (13 buckets)
    Timeouts,   \* timeout values (ms) the callbacks pass to select_timeout
    MaxWait,    \* the msec argument of loop_once (mainloop's default is 50)
    AgeCap,     \* bound on the ghost age of a handler: bounds the model
    None        \* model value: an unregistered m_iter

ASSUME NFalls \in Nat \ {0}
ASSUME Timeouts \subseteq Nat /\ MaxWait \in Nat \ {0}
ASSUME AgeCap \in Nat /\ \A t \in Timeouts : t < AgeCap

\* Countdown::TIME_CLICK, the wheel's granularity in ms.
TIME_CLICK == 5

\* The threshold m_fall of bucket i, as the constructor builds them:
\* 0, 5, 10, 20, 40, ...
RECURSIVE Fall(_)
Fall(i) == IF i = 0 THEN 0 ELSE IF i = 1 THEN TIME_CLICK ELSE 2 * Fall(i - 1)

FallIdx == 0 .. NFalls

\* find_fall_idx(timeout, rbegin): the highest bucket at or below rbegin
\* whose threshold timeout reaches (bucket 0 when none does).
FindFallIdx(timeout, rbegin) ==
    CHOOSE i \in 0 .. rbegin :
        /\ (i = 0 \/ timeout >= Fall(i))
        /\ \A j \in i + 1 .. rbegin : timeout < Fall(j)

VARIABLES
    lists,     \* m_falls[i].m_list for every bucket
    elapsed,   \* m_falls[i].m_elasped (bucket 0's is never changed)
    pos,       \* Handler::m_iter: the bucket holding h, or None
    count,     \* Timeout::count of h's entry
    pending,   \* Selector::_elapsed plus the ms waited since the last
               \* update_time(): what the next timout_run accumulates
    result,    \* the timeout_result list timout_run is delivering
    removed,   \* Selector::_removed: handlers destroyed in this iteration
    phase,     \* where loop_once is: "timers" (timout_run delivering) or "io"
    age,       \* ghost: ms since h's last select_timeout
    want,      \* ghost: the timeout of h's last select_timeout, 0 once
               \* cancelled or closed
    delivered  \* ghost: the handler whose SEL_TIMEOUT callback is running, or None

wheel == <<lists, elapsed, pos, count>>
vars == <<lists, elapsed, pos, count, pending, result, removed,
          phase, age, want, delivered>>

Registered(h) == pos[h] # None

-----------------------------------------------------------------------------
(* Countdown::next_timeout: the remaining count of the head of the first  *)
(* non-empty bucket, or the 1000 s sentinel when every bucket is empty.   *)
NextTimeout ==
    IF \A i \in FallIdx : lists[i] = <<>>
    THEN 1000 * 1000
    ELSE LET i  == CHOOSE k \in FallIdx :
                      lists[k] # <<>> /\ \A j \in 0 .. k - 1 : lists[j] = <<>>
             to == count[Head(lists[i])] - elapsed[i]
         IN  IF to < 0 THEN 0 ELSE to

(* A select_timeout that forgets the isRegister(pos) test and always      *)
(* inserts a fresh entry (mutant of SelectTimeout).                       *)
SelectTimeoutAlwaysInsert(h, timeout) ==
    LET newidx == FindFallIdx(timeout, NFalls)
    IN  /\ lists' = [lists EXCEPT ![newidx] = Append(@, h)]
        /\ pos' = [pos EXCEPT ![h] = newidx]
        /\ count' = [count EXCEPT ![h] = timeout + elapsed[newidx]]
        /\ UNCHANGED elapsed

(* Countdown::select_timeout(h, timeout) for timeout >= 0: insert at the  *)
(* tail of the bucket, or splice between buckets when already registered; *)
(* in both cases count := timeout + that bucket's elapsed.                *)
SelectTimeout(h, timeout) ==
    LET newidx == FindFallIdx(timeout, NFalls)
        c      == timeout + elapsed[newidx]
    IN  /\ lists' =
             IF ~Registered(h)
             THEN [lists EXCEPT ![newidx] = Append(@, h)]
             ELSE IF pos[h] # newidx
                  THEN [lists EXCEPT ![pos[h]] = Remove(@, h),
                                     ![newidx] = Append(@, h)]
                  ELSE lists
        /\ pos' = [pos EXCEPT ![h] = newidx]
        /\ count' = [count EXCEPT ![h] = c]
        /\ UNCHANGED elapsed

(* Countdown::select_timeout(h, -1): erase the entry if registered.       *)
CancelTimeout(h) ==
    /\ lists' = IF Registered(h) THEN [lists EXCEPT ![pos[h]] = Remove(@, h)]
                                 ELSE lists
    /\ pos' = [pos EXCEPT ![h] = None]
    /\ UNCHANGED <<elapsed, count>>

-----------------------------------------------------------------------------
(* click_elapse walks bucket idx entry by entry: subtract the bucket's    *)
(* accumulated elapsed; an entry at or below 0 is reset and moved to the  *)
(* result; otherwise it stays or is spliced to the tail of the lower      *)
(* bucket its remaining count now belongs to, adding that bucket's        *)
(* elapsed.  st is [lists, pos, count, result]; todo the entries left.    *)
RECURSIVE WalkFall(_, _, _, _)
WalkFall(st, el, idx, todo) ==
    IF todo = <<>> THEN st
    ELSE LET h      == Head(todo)
             c      == st.count[h] - el[idx]
             newidx == FindFallIdx(c, idx)
         IN  WalkFall(
               IF c <= 0
               THEN [st EXCEPT !.count[h] = c, !.pos[h] = None,
                               !.result = Append(@, h)]
               ELSE IF newidx = idx
               THEN [st EXCEPT !.count[h] = c, !.lists[idx] = Append(@, h)]
               ELSE [st EXCEPT !.count[h] = c + el[newidx], !.pos[h] = newidx,
                               !.lists[newidx] = Append(@, h)],
               el, idx, Tail(todo))

(* A click_elapse that walks a bucket only once its elapsed exceeds the   *)
(* threshold, "<=" for "<" (mutant of ClickFalls).                        *)
RECURSIVE ClickFallsLate(_, _, _, _)
ClickFallsLate(st, el, e, idx) ==
    IF idx > NFalls THEN [st EXCEPT !.elapsed = el]
    ELSE LET acc == el[idx] + e
         IN  IF acc <= Fall(idx)
             THEN ClickFallsLate(st, [el EXCEPT ![idx] = acc], e, idx + 1)
             ELSE LET el1 == [el EXCEPT ![idx] = acc]
                      st1 == WalkFall([st EXCEPT !.lists[idx] = <<>>],
                                      el1, idx, st.lists[idx])
                  IN  ClickFallsLate(st1, [el1 EXCEPT ![idx] = 0], e, idx + 1)

(* The loop of click_elapse over buckets idx .. NFalls.                   *)
RECURSIVE ClickFalls(_, _, _, _)
ClickFalls(st, el, e, idx) ==
    IF idx > NFalls THEN [st EXCEPT !.elapsed = el]
    ELSE LET acc == el[idx] + e
         IN  IF acc < Fall(idx)
             THEN ClickFalls(st, [el EXCEPT ![idx] = acc], e, idx + 1)
             ELSE LET el1 == [el EXCEPT ![idx] = acc]
                      st1 == WalkFall([st EXCEPT !.lists[idx] = <<>>],
                                      el1, idx, st.lists[idx])
                  IN  ClickFalls(st1, [el1 EXCEPT ![idx] = 0], e, idx + 1)

(* Countdown::click_elapse(result, e): sweep bucket 0 into the result     *)
(* unconditionally, then walk the other buckets.                          *)
ClickElapse(e) ==
    LET st0 == [lists  |-> [lists EXCEPT ![0] = <<>>],
                pos    |-> [h \in Handlers |->
                              IF pos[h] = 0 THEN None ELSE pos[h]],
                count  |-> count,
                result |-> lists[0],
                elapsed |-> elapsed]
    IN  ClickFalls(st0, elapsed, e, 1)

-----------------------------------------------------------------------------
(* Callbacks: any handler's timer may be (re)registered, cancelled with   *)
(* select_timeout(-1), or closed by Handler::close_timeout, which also    *)
(* records it as removed for the rest of the iteration (the destructor    *)
(* and SimpleTimer::stop use it).  Callbacks run while I/O events are    *)
(* dispatched, and inside the handler a timer was just delivered to.      *)
InCallback == phase = "io" \/ delivered # None

Select(h, t) ==
    /\ InCallback
    /\ SelectTimeout(h, t)
    /\ age' = [age EXCEPT ![h] = 0]
    /\ want' = [want EXCEPT ![h] = t]
    /\ UNCHANGED <<pending, result, removed, phase, delivered>>

Cancel(h) ==
    /\ InCallback
    /\ CancelTimeout(h)
    /\ age' = [age EXCEPT ![h] = 0]
    /\ want' = [want EXCEPT ![h] = 0]
    /\ UNCHANGED <<pending, result, removed, phase, delivered>>

CloseTimeout(h) ==
    /\ InCallback
    /\ CancelTimeout(h)
    /\ removed' = removed \cup {h}
    /\ age' = [age EXCEPT ![h] = 0]
    /\ want' = [want EXCEPT ![h] = 0]
    /\ UNCHANGED <<pending, result, phase, delivered>>

(* A timout_run that clicks without resetting _elapsed (mutant of         *)
(* TimeoutRun).                                                           *)
TimeoutRunNoReset ==
    /\ phase = "io"
    /\ LET st == ClickElapse(pending)
       IN  IF pending < TIME_CLICK
           THEN /\ result' = <<>>
                /\ UNCHANGED wheel
           ELSE /\ lists' = st.lists
                /\ elapsed' = st.elapsed
                /\ pos' = st.pos
                /\ count' = st.count
                /\ result' = st.result
    /\ UNCHANGED pending
    /\ removed' = {}
    /\ phase' = "timers"
    /\ delivered' = None
    /\ UNCHANGED <<age, want>>

(* Top of loop_once: clearRemoved() of the previous iteration, then       *)
(* update_time() and timout_run(delta): accumulate, and click the wheel   *)
(* once TIME_CLICK ms have accumulated.                                   *)
TimeoutRun ==
    /\ phase = "io"
    /\ LET st == ClickElapse(pending)
       IN  IF pending < TIME_CLICK
           THEN /\ result' = <<>>
                /\ UNCHANGED pending
                /\ UNCHANGED wheel
           ELSE /\ pending' = 0
                /\ lists' = st.lists
                /\ elapsed' = st.elapsed
                /\ pos' = st.pos
                /\ count' = st.count
                /\ result' = st.result
    /\ removed' = {}
    /\ phase' = "timers"
    /\ delivered' = None
    /\ UNCHANGED <<age, want>>

(* timout_run's delivery loop: notify_event(h, SEL_TIMEOUT) skips a       *)
(* handler recorded as removed.                                           *)
NotifyTimeout ==
    /\ phase = "timers"
    /\ result # <<>>
    /\ LET h == Head(result)
       IN  delivered' = IF h \in removed THEN None ELSE h
    /\ result' = Tail(result)
    /\ UNCHANGED <<lists, elapsed, pos, count, pending, removed,
                   phase, age, want>>

(* epoll_wait for at most min(msec, next_timeout()) ms; I/O may end the   *)
(* wait earlier.  The time waited is added to what the next timout_run    *)
(* accumulates.  A handler not registered has no age (ghost reset).       *)
EpollWait ==
    /\ phase = "timers"
    /\ result = <<>>
    /\ \E d \in 0 .. IF MaxWait < NextTimeout THEN MaxWait ELSE NextTimeout :
          /\ \A h \in Handlers : Registered(h) => age[h] + d <= AgeCap
          /\ pending' = pending + d
          /\ age' = [h \in Handlers |-> IF Registered(h) THEN age[h] + d ELSE 0]
          /\ want' = [h \in Handlers |-> IF Registered(h) THEN want[h] ELSE 0]
    /\ phase' = "io"
    /\ delivered' = None
    /\ UNCHANGED <<lists, elapsed, pos, count, result, removed>>

Init ==
    /\ lists = [i \in FallIdx |-> <<>>]
    /\ elapsed = [i \in FallIdx |-> 0]
    /\ pos = [h \in Handlers |-> None]
    /\ count = [h \in Handlers |-> 0]
    /\ pending = 0
    /\ result = <<>>
    /\ removed = {}
    /\ phase = "io"
    /\ age = [h \in Handlers |-> 0]
    /\ want = [h \in Handlers |-> 0]
    /\ delivered = None

Next ==
    \/ \E h \in Handlers, t \in Timeouts : Select(h, t)
    \/ \E h \in Handlers : Cancel(h) \/ CloseTimeout(h)
    \/ TimeoutRun
    \/ NotifyTimeout
    \/ EpollWait

Spec == Init /\ [][Next]_vars

-----------------------------------------------------------------------------
TypeOK ==
    /\ lists \in [FallIdx -> Seq(Handlers)]
    /\ elapsed \in [FallIdx -> Nat]
    /\ pos \in [Handlers -> FallIdx \cup {None}]
    /\ count \in [Handlers -> Int]
    /\ pending \in 0 .. TIME_CLICK - 1 + MaxWait
    /\ result \in Seq(Handlers)
    /\ removed \subseteq Handlers
    /\ phase \in {"timers", "io"}
    /\ age \in [Handlers -> 0 .. AgeCap]
    /\ want \in [Handlers -> Timeouts \cup {0}]
    /\ delivered \in Handlers \cup {None}

(* The iterator discipline of the wheel: after any sequence of selects,   *)
(* cancels, splices and clicks, a registered handler's entry is in        *)
(* exactly the bucket its m_iter names, exactly once, and an unregistered *)
(* handler is in no bucket (an erase through a stale iterator would       *)
(* corrupt a std::list).                                                  *)
WheelConsistent ==
    \A h \in Handlers, i \in FallIdx :
        Cardinality({k \in DOMAIN lists[i] : lists[i][k] = h}) =
            IF pos[h] = i THEN 1 ELSE 0

(* Spec 8: a timer registered with timeout T and not cancelled fires     *)
(* within one granularity of the bucket it was put in: a registered        *)
(* handler has never waited more than T + m_fall - 1 (T + TIME_CLICK for   *)
(* bucket 0, which is swept only when a click happens), however the reactor *)
(* waits, clicks and cascades (click_elapse, next_timeout, loop_once).     *)
Slack(t) ==
    LET i == FindFallIdx(t, NFalls)
    IN  IF i = 0 THEN TIME_CLICK ELSE Fall(i) - 1

NotOverdue ==
    \A h \in Handlers : Registered(h) => age[h] <= want[h] + Slack(want[h])

(* Spec 8: a timer never fires before its timeout: whenever SEL_TIMEOUT   *)
(* is delivered to h, at least want[h] ms have passed since h's           *)
(* select_timeout (timout_run, click_elapse).                             *)
NoEarlyTimeout ==
    [][NotifyTimeout /\ delivered' # None =>
            age[delivered'] >= want[delivered']]_vars

(* Spec 8: "cancelling a timer before it fires (negative timeout)          *)
(* guarantees it is never delivered": no handler receives SEL_TIMEOUT      *)
(* after its last timer call was a cancel or a close (select_timeout(-1),  *)
(* close_timeout, notify_event's isRemoved test).                          *)
Cancelled(h) == want[h] = 0

CancelledNeverDelivered ==
    [][NotifyTimeout /\ delivered' # None => ~Cancelled(delivered')]_vars
=============================================================================
