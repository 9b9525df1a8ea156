---------------------------- MODULE TcpConnection ----------------------------
(***************************************************************************)
(* One TCP connection on its worker's reactor (src/core/tcp_connection.cpp,*)
(* tcp_client.cpp, handler.cpp Socket::select/remove, selector_epoll.cpp   *)
(* select/remove, socket_helper.h recv).                                   *)
(*                                                                         *)
(* Every handler runs on the owning worker thread, so each is one step:    *)
(* the reactor dispatches readiness (onRead, onWrite, or onConnected while *)
(* the socket is not connected yet) and due timers (onTimeout, or the      *)
(* connect timeout); the application's tasks send and close.  The         *)
(* application callbacks are the environment: onData consumes any prefix   *)
(* of the input or fails (-1), and may send one reply while it runs.      *)
(*                                                                         *)
(* Data is abstracted to chunks: the peer sends chunks 1..NIn, the         *)
(* application chunks 1..NOut; one chunk stands for one 4 KB read unit.    *)
(* Time is in ms and advances by Step; time(0) is now \div 1000.          *)
(***************************************************************************)
EXTENDS Integers, Sequences, SequencesExt

CONSTANTS
    Timeout,    \* server: the _timeout passed at accept; client: the
                \* keepalive the application sets with setKeepaliveTimeout
    ConnTimo,   \* the client's connect timeout (ms)
    InLimit,    \* chunks the input ByteBuffer may hold before reserve()
                \* throws ResourceLimitException
    NIn,        \* chunks the peer sends
    NOut,       \* chunks the application sends
    Step,       \* ms the clock advances per tick
    MaxTime,    \* the clock's bound
    None

ASSUME Timeout \in Nat /\ Step \in Nat \ {0}

VARIABLES
    c,          \* the connection (record, fields below)
    now,        \* the monotonic clock, ms
    inflight,   \* chunks the peer sent that the socket has not read yet
    fin,        \* the peer has shut its side down
    peerSent    \* chunks the peer has sent

vars == <<c, now, inflight, fin, peerSent>>

(* Fields of c:                                                            *)
(*   status      _status                                                   *)
(*   conn        socket().isConnected()                                    *)
(*   sel         m_sock_flags.selevent ({"R","W"} subsets)                 *)
(*   selected    m_sock_flags.selected                                     *)
(*   reg         the socket is in the Selector's _sockets (and in epoll)   *)
(*   mask        the events epoll reports for it                           *)
(*   timer       the deadline of the registered timer, or None             *)
(*   keep        _timeout                                                  *)
(*   lastRecv    _lastRecvTs, whole seconds                                *)
(*   input, output   the two ByteBuffers                                   *)
(*   wire        chunks the socket has accepted, in order                  *)
(*   sent, consumed, closes, why, lastRecvMs   ghosts: chunks the          *)
(*      application sent, chunks onData consumed, close notifications to   *)
(*      the Manager, the reason of the last one, the exact time of the     *)
(*      last read                                                          *)
NowSec == now \div 1000

-----------------------------------------------------------------------------
(* Selector_epoll::select: a socket not in _sockets is EPOLL_CTL_ADDed     *)
(* with EPOLLIN always, plus EPOLLOUT when SEL_WRITE is added; otherwise   *)
(* EPOLL_CTL_MOD to the new selevent.                                      *)
EpollMask(x, rm, add) ==
    IF x.reg THEN (x.sel \ rm) \cup add ELSE {"R"} \cup (add \cap {"W"})

(* Socket::select: drop what is added from what is removed, keep only real *)
(* changes, and call the Selector when there is one.                      *)
SockSelect(x, remove, add) ==
    LET rm == (remove \ add) \cap x.sel
        ad == add \ x.sel
    IN  IF rm \cup ad = {} THEN x
        ELSE [x EXCEPT !.mask = EpollMask(x, rm, ad),
                       !.reg = TRUE,
                       !.sel = (x.sel \ rm) \cup ad,
                       !.selected = TRUE]

(* Socket::remove -> Selector_epoll::remove (EPOLL_CTL_DEL, erase from     *)
(* _sockets).  selevent is left as it was.                                 *)
SockRemove(x) ==
    IF x.selected THEN [x EXCEPT !.reg = FALSE, !.selected = FALSE] ELSE x

(* A close that forgets select_timeout() (mutant of HandleOnClose).        *)
HandleOnCloseKeepTimer(x, why) ==
    [SockRemove(x) EXCEPT !.status = "DISCONNECTED", !.closes = @ + 1,
                          !.why = why]

(* handleOnClose / handleOnInitiativeClose: DISCONNECTED, cancel the       *)
(* timer (select_timeout()), Socket::remove, then Manager::onClose /       *)
(* onInitiativeClose (the application's callback, then removeConnection). *)
(* An exception from the callback ends in the same state.                 *)
HandleOnClose(x, why) ==
    [SockRemove(x) EXCEPT !.status = "DISCONNECTED", !.timer = None,
                          !.closes = @ + 1, !.why = why]

(* A send that writes to the socket whenever it is connected, ahead of     *)
(* what is buffered (mutant of Send).                                      *)
SendDirectAlways(x, d, n) ==
    IF x.conn
    THEN IF n = 1 THEN [x EXCEPT !.wire = Append(@, d), !.sent = Append(@, d)]
         ELSE SockSelect([x EXCEPT !.output = Append(@, d), !.sent = Append(@, d)],
                         {}, {"W"})
    ELSE [x EXCEPT !.output = Append(@, d), !.sent = Append(@, d)]

(* TcpConnection::send: write straight to the socket when it is connected  *)
(* and nothing is buffered (n: chunks the socket takes), buffering the     *)
(* rest and asking for SEL_WRITE; otherwise append to the output buffer.  *)
Send(x, d, n) ==
    IF x.conn /\ x.output = <<>>
    THEN IF n = 1 THEN [x EXCEPT !.wire = Append(@, d), !.sent = Append(@, d)]
         ELSE SockSelect([x EXCEPT !.output = <<d>>, !.sent = Append(@, d)],
                         {}, {"W"})
    ELSE [x EXCEPT !.output = Append(@, d), !.sent = Append(@, d)]

(* A flush that keeps SEL_WRITE after draining (mutant of Flush).          *)
FlushKeepWrite(x, n) ==
    IF x.output = <<>> THEN x
    ELSE [x EXCEPT !.wire = @ \o SubSeq(x.output, 1, n),
                   !.output = SubSeq(x.output, n + 1, Len(x.output))]

(* TcpConnection::flush: send n chunks of the output buffer; once it is    *)
(* empty, drop SEL_WRITE.  An empty buffer returns at once.               *)
Flush(x, n) ==
    IF x.output = <<>> THEN x
    ELSE LET y == [x EXCEPT !.wire = @ \o SubSeq(x.output, 1, n),
                            !.output = SubSeq(x.output, n + 1, Len(x.output))]
         IN  IF y.output = <<>> THEN SockSelect(y, {"W"}, {}) ELSE y

(* TcpConnection::onConnected (TcpClientSocket::handle calls it while the  *)
(* socket is not connected): cancel the timer; on success ESTABLISHED,     *)
(* reset _lastRecvTs, flush what the application queued (a socket_error    *)
(* closes), select READ plus WRITE if output is left, and call the         *)
(* application's onConnected; on failure or timeout close.                *)
OnConnected(x, ok, n, ferr) ==
    LET y == [x EXCEPT !.timer = None]
        z == [y EXCEPT !.status = "ESTABLISHED", !.conn = TRUE,
                       !.lastRecv = NowSec, !.lastRecvMs = now]
        f == Flush(z, n)
    IN  IF ~ok THEN HandleOnClose(y, "connect")
        ELSE IF ferr THEN HandleOnClose(z, "peer")
        ELSE SockSelect(f, {"R", "W"},
                        {"R"} \cup (IF f.output = <<>> THEN {} ELSE {"W"}))

(* What the application's onData can do with the input: consume any       *)
(* prefix (r >= 0) or fail (r = -1, also an exception), sending one reply  *)
(* chunk of which the socket takes n while it runs.                        *)
AppOnData(x) ==
    [r : -1 .. Len(x.input),
     reply : IF Len(x.sent) < NOut THEN BOOLEAN ELSE {FALSE},
     n : 0 .. 1]

(* An onRead that clears the whole input buffer (erase() with its default  *)
(* -1) instead of what onData consumed (mutant of HandleOnData).           *)
HandleOnDataEraseAll(x, o) ==
    LET y == IF o.reply THEN Send(x, Len(x.sent) + 1, o.n) ELSE x
    IN  IF o.r >= 0
        THEN [y EXCEPT !.consumed = @ \o SubSeq(y.input, 1, o.r), !.input = <<>>]
        ELSE HandleOnClose(y, "data")

(* TcpConnection::handleOnData and the end of onRead: erase what onData    *)
(* consumed, or close on the application's request when it returns < 0.  *)
HandleOnData(x, o) ==
    LET y == IF o.reply THEN Send(x, Len(x.sent) + 1, o.n) ELSE x
    IN  IF o.r >= 0
        THEN [y EXCEPT !.consumed = @ \o SubSeq(y.input, 1, o.r),
                       !.input = SubSeq(@, o.r + 1, Len(@))]
        ELSE HandleOnClose(y, "data")

(* SocketHelper::recv: 0 bytes (the peer shut down) throws socket_error.   *)
RecvThrows == inflight = <<>> /\ fin

(* TcpConnection::onRead: stamp _lastRecvTs; reserve(max(space, 4K))       *)
(* throws ResourceLimitException once the buffer is at its limit: close,   *)
(* and -- there is no return -- still call handleOnData; a socket_error    *)
(* closes and returns; otherwise read k chunks and handle them.            *)
OnRead ==
    /\ c.conn /\ c.reg /\ "R" \in c.mask
    /\ inflight # <<>> \/ fin
    /\ LET x == [c EXCEPT !.lastRecv = NowSec, !.lastRecvMs = now]
       IN  \/ /\ RecvThrows
              /\ c' = HandleOnClose(x, "peer")
              /\ UNCHANGED inflight
           \/ /\ inflight # <<>>
              /\ Len(c.input) >= InLimit
              /\ \E o \in AppOnData(x) :
                    c' = HandleOnData(HandleOnClose(x, "peer"), o)
              /\ UNCHANGED inflight
           \/ /\ inflight # <<>>
              /\ Len(c.input) < InLimit
              /\ \E k \in 1 .. Min({Len(inflight), InLimit - Len(c.input)}) :
                    LET y == [x EXCEPT !.input = @ \o SubSeq(inflight, 1, k)]
                    IN  /\ inflight' = SubSeq(inflight, k + 1, Len(inflight))
                        /\ \E o \in AppOnData(y) : c' = HandleOnData(y, o)
    /\ UNCHANGED <<now, fin, peerSent>>

(* TcpConnection::onWrite: flush (the socket takes at least one chunk when *)
(* it reports writable) and call the application's onWrite once drained;   *)
(* a socket_error after the peer went away closes.                         *)
OnWrite ==
    /\ c.conn /\ c.reg /\ "W" \in c.mask
    /\ \/ \E n \in IF c.output = <<>> THEN {0} ELSE 1 .. Len(c.output) :
             c' = Flush(c, n)
       \/ /\ c.output # <<>> /\ fin
          /\ c' = HandleOnClose(c, "peer")
    /\ UNCHANGED <<now, inflight, fin, peerSent>>

TimerDue == c.timer # None /\ now >= c.timer

(* TcpConnection::onTimeout (accepted side): re-arm for what is left of    *)
(* _timeout since the last read, counted in whole seconds, or close.       *)
ServerOnTimeout(x) ==
    LET ts == x.keep - (NowSec - x.lastRecv) * 1000
    IN  IF ts > 0 THEN [x EXCEPT !.timer = now + ts]
        ELSE HandleOnClose(x, "keepalive")

(* A heartbeat check against one keepalive period instead of two (mutant  *)
(* of ClientOnTimeout).                                                    *)
ClientOnTimeoutSingle(x) ==
    IF (NowSec - x.lastRecv) * 1000 < x.keep
    THEN [x EXCEPT !.timer = now + x.keep]
    ELSE HandleOnClose(x, "keepalive")

(* TcpClient::onTimeout: heartbeat and re-arm while less than twice the    *)
(* keepalive has passed since the last read (whole seconds), else close.   *)
ClientOnTimeout(x) ==
    IF (NowSec - x.lastRecv) * 1000 < x.keep * 2
    THEN [x EXCEPT !.timer = now + x.keep]
    ELSE HandleOnClose(x, "keepalive")

(* SEL_TIMEOUT on a connected socket; the wheel unregisters the timer      *)
(* before delivering it.                                                   *)
OnTimeout ==
    /\ c.conn /\ TimerDue
    /\ c.keep > 0
    /\ LET x == [c EXCEPT !.timer = None]
       IN  c' = IF c.side = "Server" THEN ServerOnTimeout(x) ELSE ClientOnTimeout(x)
    /\ UNCHANGED <<now, inflight, fin, peerSent>>

(* SEL_TIMEOUT before the connect completed: onConnected("connect          *)
(* timeout"), which closes.                                                *)
ConnectTimeout ==
    /\ ~c.conn /\ c.status = "CONNECTING" /\ TimerDue
    /\ c' = OnConnected(c, FALSE, 0, FALSE)
    /\ UNCHANGED <<now, inflight, fin, peerSent>>

(* Readiness of a connecting socket: complete_nonblocking_connect reports  *)
(* success or failure, and onConnected runs.                              *)
ConnectReady ==
    /\ ~c.conn /\ c.status = "CONNECTING" /\ c.reg
    /\ \E ok, ferr \in BOOLEAN, n \in 0 .. Len(c.output) :
          /\ ferr => ok /\ c.output # <<>>
          /\ c' = OnConnected(c, ok, n, ferr)
    /\ UNCHANGED <<now, inflight, fin, peerSent>>

(* An application task sends a chunk on a connection the Manager still     *)
(* has (Interface looks it up first).                                      *)
AppSend ==
    /\ c.status # "DISCONNECTED"
    /\ Len(c.sent) < NOut
    /\ \E n \in 0 .. 1 : c' = Send(c, Len(c.sent) + 1, n)
    /\ UNCHANGED <<now, inflight, fin, peerSent>>

(* TcpClient::remove / TcpConnection::close -> handleOnInitiativeClose.    *)
AppClose ==
    /\ c.status # "DISCONNECTED"
    /\ c' = HandleOnClose(c, "app")
    /\ UNCHANGED <<now, inflight, fin, peerSent>>

(* TcpConnection::setKeepaliveTimeout(msec > 0): store it and re-arm.      *)
SetKeepalive ==
    /\ c.side = "Client" /\ Timeout > 0
    /\ c.status = "ESTABLISHED"
    /\ c' = [c EXCEPT !.keep = Timeout, !.timer = now + Timeout]
    /\ UNCHANGED <<now, inflight, fin, peerSent>>

(* The peer: send a chunk, or shut down.  The clock: advance.              *)
PeerSend ==
    /\ ~fin /\ peerSent < NIn
    /\ peerSent' = peerSent + 1
    /\ inflight' = Append(inflight, peerSent + 1)
    /\ UNCHANGED <<c, now, fin>>

PeerClose ==
    /\ ~fin
    /\ fin' = TRUE
    /\ UNCHANGED <<c, now, inflight, peerSent>>

Tick ==
    /\ now + Step <= MaxTime
    /\ now' = now + Step
    /\ UNCHANGED <<c, inflight, fin, peerSent>>

(* The accepting constructor: ESTABLISHED, select(0, SEL_READ), and the    *)
(* keepalive timer when _timeout > 0.                                      *)
InitServer ==
    [side |-> "Server", status |-> "ESTABLISHED", conn |-> TRUE, sel |-> {"R"}, selected |-> TRUE,
     reg |-> TRUE, mask |-> {"R"},
     timer |-> IF Timeout > 0 THEN Timeout ELSE None, keep |-> Timeout,
     lastRecv |-> 0, lastRecvMs |-> 0, input |-> <<>>, output |-> <<>>,
     wire |-> <<>>, sent |-> <<>>, consumed |-> <<>>, closes |-> 0,
     why |-> "none"]

(* The connecting constructor: doConnect arms the connect timeout, then    *)
(* select(0, SEL_CONNECTING) registers READ and WRITE; _timeout is 0.      *)
InitClient ==
    [InitServer EXCEPT !.side = "Client", !.status = "CONNECTING", !.conn = FALSE,
                       !.sel = {"R", "W"}, !.mask = {"R", "W"},
                       !.timer = ConnTimo, !.keep = 0]

Init ==
    /\ c \in {InitServer, InitClient}
    /\ now = 0
    /\ inflight = <<>>
    /\ fin = FALSE
    /\ peerSent = 0

Next ==
    \/ OnRead \/ OnWrite \/ OnTimeout \/ ConnectTimeout \/ ConnectReady
    \/ AppSend \/ AppClose \/ SetKeepalive
    \/ PeerSend \/ PeerClose \/ Tick

Spec == Init /\ [][Next]_vars

-----------------------------------------------------------------------------
TypeOK ==
    /\ c.side \in {"Server", "Client"}
    /\ c.status \in {"CONNECTING", "ESTABLISHED", "DISCONNECTED"}
    /\ c.status = "ESTABLISHED" => c.conn
    /\ c.status = "CONNECTING" => ~c.conn
    /\ c.sel \subseteq {"R", "W"} /\ c.mask \subseteq {"R", "W"}
    /\ c.conn \in BOOLEAN /\ c.selected \in BOOLEAN /\ c.reg \in BOOLEAN
    /\ c.timer \in Nat \cup {None}
    /\ c.status = "DISCONNECTED" => c.timer = None
    /\ c.keep \in {0, Timeout}
    /\ c.input \in Seq(1 .. NIn) /\ c.consumed \in Seq(1 .. NIn)
    /\ c.output \in Seq(1 .. NOut) /\ c.wire \in Seq(1 .. NOut)
    /\ c.closes \in Nat
    /\ now \in 0 .. MaxTime
    /\ inflight \in Seq(1 .. NIn) /\ fin \in BOOLEAN /\ peerSent \in 0 .. NIn

(* The application's bytes reach the socket exactly once and in the order  *)
(* it sent them, whether send() writes them directly or buffers them, and  *)
(* whatever onConnected and onWrite flush (spec 6, ordering of send).      *)
OutputInOrder == c.sent = c.wire \o c.output

(* The peer's bytes are handed to onData in order, none lost or repeated:  *)
(* what onData consumed, then the input buffer, then what the socket still *)
(* holds, is exactly what the peer sent (onRead, handleOnData, erase).     *)
InputInOrder ==
    c.consumed \o c.input \o inflight = [i \in 1 .. peerSent |-> i]

(* Spec 8 "backpressure signal": on an established connection epoll        *)
(* reports the socket writable exactly while output is buffered, so        *)
(* buffered data always gets an onWrite and a drained buffer does not spin *)
(* (send's select(0, SEL_WRITE), flush's select(SEL_WRITE, 0),             *)
(* onConnected's select(SEL_ALL, ...)).                                    *)
WriteInterestExact ==
    c.status = "ESTABLISHED" =>
        ((c.reg /\ "W" \in c.mask) <=> c.output # <<>>)

(* Spec 7: a close is final.  No path through onRead, onWrite,            *)
(* onConnected or onTimeout notifies the Manager (and through it the       *)
(* application) a second time, and a closed connection stays out of the    *)
(* reactor for good (handleOnClose, handleOnInitiativeClose, Socket::remove,*)
(* and the sends a callback may make after the close).                     *)
CloseIsFinal ==
    /\ c.closes <= 1
    /\ c.status = "DISCONNECTED" => ~c.reg

(* Keepalive: a connection is closed for keepalive only after its period   *)
(* (twice it for TcpClient) without receiving, less the up to one second   *)
(* that counting _lastRecvTs and time(0) in whole seconds loses            *)
(* (TcpConnection::onTimeout, TcpClient::onTimeout).                       *)
SilenceLimit(side) == IF side = "Server" THEN Timeout ELSE 2 * Timeout

KeepaliveCloseAfterSilence ==
    [][c.why # "keepalive" /\ c'.why = "keepalive" =>
           now - c.lastRecvMs > SilenceLimit(c.side) - 1000]_vars
=============================================================================
