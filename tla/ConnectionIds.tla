---------------------------- MODULE ConnectionIds ----------------------------
(***************************************************************************)
(* Connection ids and their routing (src/core/manager.h, manager.cpp,      *)
(* worker.cpp, framework.cpp, scheduler.cpp).                              *)
(*                                                                         *)
(* Framework::async_start sets Manager::_step to the number N of I/O       *)
(* workers and starts workers 0..N; worker w >= 1 creates its thread-local *)
(* Manager(w - 1), whose _seed starts at (w - 1) % N.  getConnectionId     *)
(* adds _step to the uint32 _seed, skipping 0 and the ids its own Manager  *)
(* still holds.  Every later operation on connection id i is scheduled     *)
(* with hash key i, to worker i % (workers - 1) + 1 (Interface, Transport, *)
(* Scheduler::schedule), whose Manager must be the one holding i.          *)
(*                                                                         *)
(* Width is the word width of _seed, reduced from 32 so that TLC sees the  *)
(* wrap.                                                                   *)
(***************************************************************************)
EXTENDS Naturals, FiniteSets

CONSTANTS
    N,          \* Manager::_step: the number of I/O workers
    Width,      \* bits of _seed
    MaxLive     \* connections a Manager holds at once

ASSUME N \in Nat \ {0} /\ Width \in Nat \ {0} /\ MaxLive < 2^Width \div N

Mod == 2^Width
IoWorkers == 1 .. N

VARIABLES
    seed,       \* seed[w]: Manager::_seed of worker w
    live        \* live[w]: the ids in worker w's Manager::_connections

vars == <<seed, live>>

-----------------------------------------------------------------------------
(* Scheduler::schedule(hashkey, task): _workers holds workers 0..N.        *)
RouteIndex(hashkey) == (hashkey % ((N + 1) - 1)) + 1

(* Manager(const uint32_t id): _seed(id % _step), with id = _workerId - 1  *)
(* (Worker::run).  A Manager built with the worker id itself (mutant of    *)
(* SeedInit).                                                              *)
SeedInitOffByOne(w) == w % N

SeedInit(w) == (w - 1) % N

(* _seed += _step computed without the uint32 wrap (mutant of Advance).   *)
AdvanceNoWrap(s) == s + N

(* One turn of getConnectionId's loop without the _seed == 0 skip (mutant  *)
(* of Advance).                                                            *)
AdvanceNoSkip(s) == (s + N) % Mod

(* One turn of getConnectionId's loop: _seed += _step in uint32, and once  *)
(* more when it lands on 0.                                                *)
Advance(s) ==
    LET t == (s + N) % Mod
    IN  IF t = 0 THEN (t + N) % Mod ELSE t

(* getConnectionId: turn until the id is not in this Manager's map.        *)
RECURSIVE GetConnectionId(_, _)
GetConnectionId(s, used) ==
    IF Advance(s) \in used THEN GetConnectionId(Advance(s), used) ELSE Advance(s)

(* createTcpConnection / createTcpClient / createUdp*: take an id, build   *)
(* the connection and addConnection it; a socket error drops it, the id    *)
(* is spent either way.                                                    *)
Create(w) ==
    /\ Cardinality(live[w]) < MaxLive
    /\ LET id == GetConnectionId(seed[w], live[w])
       IN  /\ seed' = [seed EXCEPT ![w] = id]
           /\ \E ok \in BOOLEAN :
                 live' = IF ok THEN [live EXCEPT ![w] = @ \cup {id}] ELSE live

(* Manager::onClose / onInitiativeClose -> removeConnection.               *)
Remove(w) ==
    /\ \E id \in live[w] : live' = [live EXCEPT ![w] = @ \ {id}]
    /\ UNCHANGED seed

Init ==
    /\ seed = [w \in IoWorkers |-> SeedInit(w)]
    /\ live = [w \in IoWorkers |-> {}]

Next == \E w \in IoWorkers : Create(w) \/ Remove(w)

Spec == Init /\ [][Next]_vars

-----------------------------------------------------------------------------
TypeOK ==
    /\ seed \in [IoWorkers -> 0 .. Mod - 1]
    /\ live \in [IoWorkers -> SUBSET (0 .. Mod - 1)]

(* Spec 9 "id uniqueness": no two Managers hold the same id, and no        *)
(* Manager holds 0, the id the create functions return for failure.        *)
IdsDistinct ==
    /\ \A v, w \in IoWorkers : v # w => live[v] \cap live[w] = {}
    /\ \A w \in IoWorkers : 0 \notin live[w]
=============================================================================
