----------------------------- MODULE UdpServer ------------------------------
(***************************************************************************)
(* The UDP server side (src/core/udp_listener.cpp, udp_server.cpp,          *)
(* Manager::createUdpConnection in manager.cpp, ISocketManager in          *)
(* connection.h, udp_connection.cpp, handler.cpp Socket::select/remove,     *)
(* selector_epoll.cpp select/remove).                                      *)
(*                                                                         *)
(* The listener socket receives every datagram of a peer that no          *)
(* connected socket takes.  accept() looks the peer up in the listener's   *)
(* ISocketManager; unknown peers get a cloned socket, bound to the         *)
(* listener's address and connected to the peer, so the kernel hands that  *)
(* socket the peer's later datagrams.  createUdpConnection then passes the *)
(* datagram to the peer's connection or builds a UdpConnection on the      *)
(* socket -- at once when the server shares the listener's thread          *)
(* (UdpServer::create(port, ...)), else as a task on the worker chosen by  *)
(* the fd (Framework::createUdpServer).  ~UdpConnection erases the peer's  *)
(* map entry and closes the socket.                                        *)
(*                                                                         *)
(* Datagrams are counted, not named; an fd is a number, and a new socket   *)
(* takes the lowest free one as socket(2) does.  The application is the   *)
(* environment: onData consumes any prefix of the input or fails, it       *)
(* sends, closes, and may hold an IConnection_var.                        *)
(***************************************************************************)
EXTENDS Integers, Sequences, FiniteSets

CONSTANTS
    Peers,        \* peer addresses (ip, port)
    NFd,          \* fds 1..NFd the process can open for cloned sockets
    MaxConn,      \* connection ids 1..MaxConn the Manager hands out
    NData,        \* datagrams the peers send
    NSend,        \* datagrams the application sends
    NErr,         \* socket errors (ICMP unreachable, empty datagram)
    InLimit,      \* datagrams _input holds before reserve() throws
    QLimit,       \* the worker queue's capacity (Scheduler::schedule)
    Modes,        \* values of IServerContext::shareThread to explore
    KeepAlive,    \* timeoutMs > 0: every connection runs the keepalive
    AllowUserRef, \* the application may keep an IConnection_var
    None

Fds == 1 .. NFd
Ids == 1 .. MaxConn

VARIABLES
    shared,       \* IServerContext::shareThread
    smap,         \* ISocketManager::_sockets: peer -> [fd, id] (id 0: unset)
    sock,         \* fd -> the peer its open socket is connected to, or None
    reg,          \* fd -> the connection epoll reports it to (0: not in epoll)
    mask,         \* fd -> the events it is registered for
    lq,           \* datagrams (their senders) queued on the listener
    sq,           \* fd -> datagrams queued on the cloned socket
    err,          \* fd -> a socket error is pending
    wq,           \* doAccept tasks queued on the worker
    conns,        \* id -> the UdpConnection (record, fields below)
    nextId,       \* the next id getConnectionId returns
    sent, errs, appSends,   \* environment counters
    kept          \* history: a connection outlived its removal from the
                  \* Manager because the application held it

vars == <<shared, smap, sock, reg, mask, lq, sq, err, wq, conns, nextId,
          sent, errs, appSends, kept>>

(* Fields of a connection:                                                 *)
(*   st        "NONE" (id not used yet), _status ("ESTABLISHED",           *)
(*             "DISCONNECTED"), or "FREED" once destroyed                  *)
(*   fd, peer  the socket it was built on and _peerIp/_peerPort            *)
(*   mgr       the Manager's _connections holds it                         *)
(*   ref       the application holds an IConnection_var                    *)
(*   selected, sel   m_sock_flags.selected and .selevent                   *)
(*   armed     its keepalive timer is registered                           *)
(*   fresh     _lastRecvTs was stamped since the timer was armed           *)
(*   inp, out  datagrams in _input and in _output                          *)
(*   closes, why   ghosts: close notifications to the Manager, the reason  *)
(*             of the last one                                             *)
NoConn == [st |-> "NONE", fd |-> 1, peer |-> None, mgr |-> FALSE, ref |-> FALSE,
           selected |-> FALSE, sel |-> {}, armed |-> FALSE, fresh |-> FALSE,
           inp |-> 0, out |-> 0, closes |-> 0, why |-> "none"]

Live(i) == conns[i].st \in {"ESTABLISHED", "DISCONNECTED"}

LowestFree == CHOOSE f \in Fds : sock[f] = None /\ \A g \in Fds : sock[g] = None => f <= g

-----------------------------------------------------------------------------
(* A close whose Manager callback forgets removeConnection (mutant of      *)
(* HandleOnClose).                                                         *)
HandleOnCloseKeepConn(x, why) ==
    [x EXCEPT !.st = "DISCONNECTED", !.armed = FALSE, !.selected = FALSE,
              !.closes = @ + 1, !.why = why]

(* handleOnClose / handleOnInitiativeClose: DISCONNECTED, select_timeout() *)
(* cancels the timer, Socket::remove drops the epoll registration, and     *)
(* Manager::onClose / onInitiativeClose calls the application and then     *)
(* removeConnection.  No test of the status: a second call notifies again. *)
HandleOnClose(x, why) ==
    [x EXCEPT !.st = "DISCONNECTED", !.armed = FALSE, !.selected = FALSE,
              !.mgr = FALSE, !.closes = @ + 1, !.why = why]

(* Socket::select(rm, add) on x's flags: drop from rm what is added, keep  *)
(* only real changes; the Selector call is made in Commit.                 *)
SockSelect(x, rm, add) ==
    LET r == (rm \ add) \cap x.sel
        a == add \ x.sel
    IN  IF r \cup a = {} THEN x
        ELSE [x EXCEPT !.sel = (x.sel \ r) \cup a, !.selected = TRUE]

(* End of a handler on connection i, whose record became x and whose fd's *)
(* queue and error flag became q and e.  The Selector sees what Socket     *)
(* did: remove -> EPOLL_CTL_DEL on the fd, whoever it is registered for;  *)
(* a first select -> EPOLL_CTL_ADD (EEXIST if the fd is already in epoll);*)
(* a later one -> EPOLL_CTL_MOD, which also points the fd's events at i   *)
(* (ENOENT if the fd is not in epoll).  When the last reference goes,      *)
(* ~UdpConnection erases the peer's map entry and ~SocketHelper closes the *)
(* fd: the kernel drops its datagrams and its epoll registration.          *)
Commit(i, x, q, e) ==
    LET f    == x.fd
        was  == conns[i]
        del  == was.selected /\ ~x.selected
        add  == ~was.selected /\ x.selected /\ reg[f] = 0
        modi == was.selected /\ x.selected /\ x.sel # was.sel /\ reg[f] # 0
        dies == ~x.mgr /\ ~x.ref
        y    == IF dies THEN [x EXCEPT !.st = "FREED", !.armed = FALSE,
                                       !.selected = FALSE]
                ELSE x
    IN  /\ conns' = [conns EXCEPT ![i] = y]
        /\ reg' = [reg EXCEPT ![f] = IF del \/ dies THEN 0
                                     ELSE IF add \/ modi THEN i ELSE @]
        /\ mask' = [mask EXCEPT ![f] =
                      IF del \/ dies THEN {}
                      ELSE IF add THEN {"R"} \cup ((x.sel \ was.sel) \cap {"W"})
                      ELSE IF modi THEN x.sel ELSE @]
        /\ sq' = [sq EXCEPT ![f] = IF dies THEN 0 ELSE q]
        /\ err' = [err EXCEPT ![f] = ~dies /\ e]
        /\ sock' = IF dies THEN [sock EXCEPT ![f] = None] ELSE sock
        /\ smap' = IF dies THEN [smap EXCEPT ![x.peer] = None] ELSE smap
        /\ kept' = (kept \/ (was.mgr /\ ~x.mgr /\ x.ref))

(* ISocketManager::getConnId: the id stored for the peer, 0 if none.       *)
GetConnId(m, p) == IF m[p] = None THEN 0 ELSE m[p].id

(* A setConnId that stores nothing (mutant of SetConnId).                  *)
SetConnIdNoop(m, p, id) == m

(* ISocketManager::setConnId: store id in the peer's entry; false (and no  *)
(* change) when the peer has none.                                         *)
SetConnId(m, p, id) == IF m[p] = None THEN m ELSE [m EXCEPT ![p].id = id]

(* Manager::createUdpConnection(s, peer p) with the listener map m and the *)
(* sockets so as accept() left them: a peer whose connection id the map    *)
(* holds and the Manager still has gets the datagram through onData;      *)
(* otherwise a new UdpConnection is built on s.  Its constructor fails     *)
(* when s is no longer open (getlocal throws): soclose, and the            *)
(* destructor erases p's entry.  Otherwise select(0, SEL_READ), the        *)
(* keepalive timer, setConnId, addConnection, onConnected and onData; the  *)
(* return of onData is ignored, the datagram is not put in _input.         *)
CreateUdpConnection(s, p, m, so) ==
    LET cur == GetConnId(m, p)
    IN  IF cur # 0 /\ conns[cur].mgr
        THEN /\ smap' = m
             /\ UNCHANGED <<conns, nextId, reg, mask>>
        ELSE /\ nextId <= MaxConn
             /\ nextId' = nextId + 1
             /\ IF so[s] = None
                THEN /\ conns' = [conns EXCEPT ![nextId] =
                                    [NoConn EXCEPT !.st = "FREED", !.fd = s, !.peer = p]]
                     /\ smap' = [m EXCEPT ![p] = None]
                     /\ UNCHANGED <<reg, mask>>
                ELSE /\ conns' = [conns EXCEPT ![nextId] =
                                    [NoConn EXCEPT !.st = "ESTABLISHED", !.fd = s,
                                        !.peer = p, !.mgr = TRUE, !.selected = TRUE,
                                        !.sel = {"R"}, !.armed = KeepAlive]]
                     /\ reg' = IF reg[s] = 0 THEN [reg EXCEPT ![s] = nextId] ELSE reg
                     /\ mask' = IF reg[s] = 0 THEN [mask EXCEPT ![s] = {"R"}] ELSE mask
                     /\ smap' = SetConnId(m, p, nextId)

(* UdpListener::onAccept -> UdpServer::onAccept for the datagram of p on  *)
(* s: in the shared thread createUdpConnection runs now; otherwise         *)
(* doAccept is scheduled on the worker the fd hashes to, and a full queue  *)
(* rejects it -- schedule's result is not looked at.                       *)
OnAccept(s, p, m, so) ==
    IF shared
    THEN CreateUdpConnection(s, p, m, so) /\ UNCHANGED wq
    ELSE /\ smap' = m
         /\ wq' = IF Len(wq) < QLimit THEN Append(wq, [fd |-> s, peer |-> p]) ELSE wq
         /\ UNCHANGED <<conns, nextId, reg, mask>>

(* UdpServerSocket::handle(SEL_READ) -> accept: recvfrom one datagram; a   *)
(* known peer gets its mapped socket, an unknown one a new socket (the    *)
(* lowest free fd) bound to the listener's address, connected to the peer *)
(* and added to the map with id 0.  socket() failing for want of an fd    *)
(* throws, and handle() drops the datagram.                                *)
ListenerRead ==
    /\ lq # <<>>
    /\ lq' = Tail(lq)
    /\ LET p     == Head(lq)
           known == smap[p] # None
           full  == ~known /\ \A f \in Fds : sock[f] # None
           s     == IF known THEN smap[p].fd ELSE LowestFree
       IN  IF full
           THEN UNCHANGED <<smap, sock, wq, conns, nextId, reg, mask>>
           ELSE /\ sock' = IF known THEN sock ELSE [sock EXCEPT ![s] = p]
                /\ OnAccept(s, p,
                            IF known THEN smap ELSE [smap EXCEPT ![p] = [fd |-> s, id |-> 0]],
                            sock')
    /\ UNCHANGED <<shared, sq, err, sent, errs, appSends, kept>>

(* UdpServer::doAccept on the worker: createUdpConnection with the map and *)
(* the sockets as they are now.                                            *)
WorkerAccept ==
    /\ wq # <<>>
    /\ wq' = Tail(wq)
    /\ CreateUdpConnection(Head(wq).fd, Head(wq).peer, smap, sock)
    /\ UNCHANGED <<shared, sock, lq, sq, err, sent, errs, appSends, kept>>

-----------------------------------------------------------------------------
(* An erase of one datagram more than onData consumed (mutant of           *)
(* HandleOnData).                                                          *)
HandleOnDataEraseOneMore(x, r) ==
    IF r >= 0 THEN [x EXCEPT !.inp = @ - r - 1] ELSE HandleOnClose(x, "data")

(* UdpConnection::handleOnData and the end of onRead: erase the r          *)
(* datagrams onData consumed, or close on the application's request when   *)
(* it returns < 0 (or throws).                                             *)
HandleOnData(x, r) == IF r >= 0 THEN [x EXCEPT !.inp = @ - r] ELSE HandleOnClose(x, "data")

Rest == <<shared, lq, wq, nextId, sent, errs>>

(* UdpConnection::onRead: stamp _lastRecvTs first; reserve() throws        *)
(* ResourceLimitException once _input is at its limit: close, and -- no    *)
(* return -- hand the input to onData all the same; a socket_error (a      *)
(* pending error, an empty datagram) is logged and the handler returns,    *)
(* the close left commented out; otherwise read one datagram and let       *)
(* onData consume a prefix of the input.                                   *)
OnRead(i) ==
    LET c == conns[i]
        f == c.fd
        x == [c EXCEPT !.fresh = TRUE]
    IN  /\ Live(i) /\ reg[f] = i /\ "R" \in mask[f]
        /\ sq[f] > 0 \/ err[f]
        /\ \/ /\ c.inp >= InLimit
              /\ \E r \in -1 .. c.inp :
                    Commit(i, HandleOnData(HandleOnClose(x, "buffer"), r), sq[f], err[f])
           \/ /\ c.inp < InLimit /\ err[f]
              /\ Commit(i, x, sq[f], FALSE)
           \/ /\ c.inp < InLimit /\ ~err[f]
              /\ \E r \in -1 .. c.inp + 1 :
                    Commit(i, HandleOnData([x EXCEPT !.inp = @ + 1], r), sq[f] - 1, FALSE)
        /\ UNCHANGED <<Rest, appSends>>

(* A flush that keeps SEL_WRITE once _output is empty (mutant of Flush).   *)
FlushKeepWrite(x, k) == IF x.out = 0 THEN x ELSE [x EXCEPT !.out = @ - k]

(* UdpConnection::flush: send k queued datagrams (a writable socket takes  *)
(* at least one) and, once _output is empty, select(SEL_WRITE, 0).        *)
Flush(x, k) ==
    IF x.out = 0 THEN x
    ELSE LET y == [x EXCEPT !.out = @ - k]
         IN  IF y.out = 0 THEN SockSelect(y, {"W"}, {}) ELSE y

(* UdpConnection::onWrite: flush; a socket_error from send closes.         *)
OnWrite(i) ==
    LET c == conns[i]
        f == c.fd
    IN  /\ Live(i) /\ reg[f] = i /\ "W" \in mask[f]
        /\ \/ /\ err[f]
              /\ Commit(i, HandleOnClose(c, "write"), sq[f], FALSE)
           \/ /\ ~err[f]
              /\ \E k \in IF c.out = 0 THEN {0} ELSE 1 .. c.out :
                    Commit(i, Flush(c, k), sq[f], FALSE)
        /\ UNCHANGED <<Rest, appSends>>

(* UdpConnection::send from the application (through the Manager, or an   *)
(* IConnection_var it holds): with nothing queued, send on the socket --   *)
(* a would-block queues the datagram and selects SEL_WRITE; a socket       *)
(* error (the pending one, or EBADF on a closed fd) is caught and logged,  *)
(* the datagram lost; with datagrams queued, append.                       *)
AppSend(i) ==
    LET c == conns[i]
        f == c.fd
    IN  /\ Live(i) /\ (c.mgr \/ c.ref)
        /\ appSends < NSend
        /\ appSends' = appSends + 1
        /\ IF c.out > 0
           THEN Commit(i, [c EXCEPT !.out = @ + 1], sq[f], err[f])
           ELSE IF sock[f] = None \/ err[f]
           THEN Commit(i, c, sq[f], FALSE)
           ELSE \E wouldBlock \in BOOLEAN :
                   Commit(i, IF wouldBlock
                             THEN SockSelect([c EXCEPT !.out = 1], {}, {"W"})
                             ELSE c, sq[f], err[f])
        /\ UNCHANGED Rest

(* An onTimeout that re-arms for a full period when ts <= 0 instead of     *)
(* closing (mutant of OnTimeout).                                          *)
OnTimeoutRearmStale(i) ==
    LET c == conns[i]
    IN  /\ Live(i) /\ c.armed
        /\ Commit(i, [c EXCEPT !.fresh = FALSE], sq[c.fd], err[c.fd])
        /\ UNCHANGED <<Rest, appSends>>

(* UdpConnection::onTimeout: ts = _timeout - (time(0) - _lastRecvTs)*1000. *)
(* With no datagram since the timer was armed ts <= 0 and the connection   *)
(* is closed ("recv timeout"); after one, ts > 0 re-arms the timer, though *)
(* whole-second rounding can also make ts <= 0.                           *)
OnTimeout(i) ==
    LET c == conns[i]
    IN  /\ Live(i) /\ c.armed
        /\ \/ /\ c.fresh
              /\ Commit(i, [c EXCEPT !.fresh = FALSE], sq[c.fd], err[c.fd])
           \/ Commit(i, HandleOnClose(c, "timeout"), sq[c.fd], err[c.fd])
        /\ UNCHANGED <<Rest, appSends>>

(* UdpConnection::close -> handleOnInitiativeClose.                        *)
AppClose(i) ==
    LET c == conns[i]
    IN  /\ c.st = "ESTABLISHED"
        /\ Commit(i, HandleOnClose(c, "close"), sq[c.fd], err[c.fd])
        /\ UNCHANGED <<Rest, appSends>>

(* The application keeps an IConnection_var (in onConnected, onData,       *)
(* onClose or a task), and later drops it: the last reference destroys.   *)
TakeRef(i) ==
    LET c == conns[i]
    IN  /\ AllowUserRef /\ c.mgr /\ ~c.ref
        /\ Commit(i, [c EXCEPT !.ref = TRUE], sq[c.fd], err[c.fd])
        /\ UNCHANGED <<Rest, appSends>>

DropRef(i) ==
    LET c == conns[i]
    IN  /\ c.ref
        /\ Commit(i, [c EXCEPT !.ref = FALSE], sq[c.fd], err[c.fd])
        /\ UNCHANGED <<Rest, appSends>>

(* A peer sends a datagram: the kernel gives it to a socket connected to   *)
(* the peer if there is one (it matches more of the address than the      *)
(* listener), else to the listener.                                        *)
PeerSend(p) ==
    /\ sent < NData
    /\ sent' = sent + 1
    /\ IF \E f \in Fds : sock[f] = p
       THEN /\ \E f \in {g \in Fds : sock[g] = p} : sq' = [sq EXCEPT ![f] = @ + 1]
            /\ UNCHANGED lq
       ELSE /\ lq' = Append(lq, p)
            /\ UNCHANGED sq
    /\ UNCHANGED <<shared, smap, sock, reg, mask, err, wq, conns, nextId, errs,
                   appSends, kept>>

(* An ICMP unreachable (or an empty datagram) leaves an error pending on   *)
(* an open cloned socket.                                                  *)
SocketError(f) ==
    /\ sock[f] # None /\ ~err[f]
    /\ errs < NErr
    /\ errs' = errs + 1
    /\ err' = [err EXCEPT ![f] = TRUE]
    /\ UNCHANGED <<shared, smap, sock, reg, mask, lq, sq, wq, conns, nextId,
                   sent, appSends, kept>>

Init ==
    /\ shared \in Modes
    /\ smap = [p \in Peers |-> None]
    /\ sock = [f \in Fds |-> None]
    /\ reg = [f \in Fds |-> 0]
    /\ mask = [f \in Fds |-> {}]
    /\ lq = <<>>
    /\ sq = [f \in Fds |-> 0]
    /\ err = [f \in Fds |-> FALSE]
    /\ wq = <<>>
    /\ conns = [i \in Ids |-> NoConn]
    /\ nextId = 1
    /\ sent = 0 /\ errs = 0 /\ appSends = 0
    /\ kept = FALSE

Next ==
    \/ ListenerRead \/ WorkerAccept
    \/ \E i \in Ids : \/ OnRead(i) \/ OnWrite(i) \/ OnTimeout(i)
                      \/ AppSend(i) \/ AppClose(i) \/ TakeRef(i) \/ DropRef(i)
    \/ \E p \in Peers : PeerSend(p)
    \/ \E f \in Fds : SocketError(f)

(* The reactors dispatch readiness and due timers, and the worker runs its *)
(* queue, for as long as they run: weakly fair.  Peers and the application *)
(* get no fairness.                                                        *)
Fairness ==
    /\ WF_vars(ListenerRead) /\ WF_vars(WorkerAccept)
    /\ \A i \in Ids : WF_vars(OnRead(i)) /\ WF_vars(OnWrite(i)) /\ WF_vars(OnTimeout(i))

Spec == Init /\ [][Next]_vars /\ Fairness

-----------------------------------------------------------------------------
TypeOK ==
    /\ shared \in BOOLEAN
    /\ smap \in [Peers -> [fd : Fds, id : 0 .. MaxConn] \cup {None}]
    /\ sock \in [Fds -> Peers \cup {None}]
    /\ reg \in [Fds -> 0 .. MaxConn] /\ mask \in [Fds -> SUBSET {"R", "W"}]
    /\ lq \in Seq(Peers) /\ sq \in [Fds -> 0 .. NData] /\ err \in [Fds -> BOOLEAN]
    /\ wq \in Seq([fd : Fds, peer : Peers])
    /\ nextId \in 1 .. MaxConn + 1
    /\ \A i \in Ids :
          /\ conns[i].st \in {"NONE", "ESTABLISHED", "DISCONNECTED", "FREED"}
          /\ conns[i].st = "NONE" <=> i >= nextId
          /\ conns[i].inp \in 0 .. InLimit /\ conns[i].out \in 0 .. NSend
          /\ conns[i].sel \subseteq {"R", "W"}
    /\ kept \in BOOLEAN

(* Each established connection owns its socket: the fd it was built on is  *)
(* open and connected to its peer, the listener's map sends the peer to    *)
(* that fd and that connection id, epoll reports the fd to it, and no      *)
(* other live connection uses the fd.  So accept() and createUdpConnection *)
(* never build a second connection for a peer, a destructor never erases   *)
(* or closes what a newer connection uses, and reuse of a closed fd by the *)
(* next accepted peer is harmless -- in every run where no application     *)
(* reference kept a removed connection alive.  SocketOwned alone is what  *)
(* the code assumes of every run; UdpKeptSocket.cfg shows it fails.        *)
SocketOwned ==
      \A i \in Ids :
        conns[i].st = "ESTABLISHED" =>
          LET f == conns[i].fd
              p == conns[i].peer
          IN  /\ sock[f] = p
              /\ smap[p] = [fd |-> f, id |-> i]
              /\ reg[f] = i
              /\ \A j \in Ids \ {i} : Live(j) => conns[j].fd # f

(* What holds of the code: SocketOwned in every run in which no            *)
(* application reference kept a connection past removeConnection.         *)
SocketOwnedUnlessKept == ~kept => SocketOwned

(* Spec 8 "backpressure signal" for UDP: an established connection's fd   *)
(* is registered for writability exactly while datagrams wait in _output   *)
(* (send's select(0, SEL_WRITE), flush's select(SEL_WRITE, 0), the         *)
(* EPOLL_CTL_ADD / MOD the Selector makes of them) -- unless a removed    *)
(* connection was kept alive, which can close the fd under a newer one.   *)
WriteInterestExact ==
    ~kept =>
    \A i \in Ids :
        conns[i].st = "ESTABLISHED" =>
            ((reg[conns[i].fd] = i /\ "W" \in mask[conns[i].fd]) <=> conns[i].out > 0)

(* With a keepalive, every established connection is eventually closed    *)
(* once its peer stops: a read error (onRead returns without closing) or a *)
(* datagram only postpones onTimeout's "recv timeout" close.               *)
ConnEventuallyClosed ==
    KeepAlive => \A i \in Ids : conns[i].st = "ESTABLISHED" ~> conns[i].st # "ESTABLISHED"

(* Every datagram queued on a cloned socket is eventually read by its      *)
(* connection or dropped with the socket: no socket is left open, connected*)
(* to its peer and read by nobody -- in every run where no removed         *)
(* connection was kept alive.                                              *)
DatagramsConsumed ==
    \A f \in Fds : sq[f] > 0 ~> (sq[f] = 0 \/ kept)
====
