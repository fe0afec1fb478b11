-------------------------- MODULE LallyReplication --------------------------
(***************************************************************************)
(* Quorum replication between the nodes of a Lally cluster: the HTTP       *)
(* handlers that coordinate ADD, GET and REMOVE (src/http_server.rs), the  *)
(* fan-out of one gRPC call per pooled connection (src/lally/pool.rs), the *)
(* gRPC handlers that serve these calls (src/cluster.rs) and read repair.  *)
(*                                                                         *)
(* A request is coordinated by the node the client talks to.  The          *)
(* coordinator first runs the operation on its own store, then spawns one  *)
(* task per connection of its pool and collects their results until it has *)
(* read_quorum - 1 or write_quorum - 1 of them (the caller's own node is   *)
(* the missing one) or no task is left.  A GET then spawns repair tasks.   *)
(*                                                                         *)
(* Abstractions.                                                           *)
(*  - The pool of a node is a constant: membership does not change here.   *)
(*  - `logged' is the set of operations the hooks of a node were invoked   *)
(*    with; their order, and their way to the disk, are the subject of     *)
(*    module LallyAof.  Nodes do not restart here.                         *)
(*  - A gRPC call can fail before or after its handler ran; a call dropped *)
(*    by the coordinator can still be served.  No call has a deadline.     *)
(*  - A failed task leaves the JoinSet when it fails: all the loop does    *)
(*    with an Err is to log it.                                            *)
(***************************************************************************)
EXTENDS LallyStore, FiniteSets

CONSTANTS Node,         \* the nodes of the cluster
          Pool,         \* Pool[n]: the nodes that n has a connection to
          Local,        \* the label "local" of the coordinator's own answer
          Adds,         \* the ADD requests clients may issue
          Removes,      \* the REMOVE requests clients may issue
          Gets,         \* the GET requests clients may issue
          ReadQuorum,   \* --read-quorum
          WriteQuorum,  \* --write-quorum
          UsizeMax,     \* the largest usize
          SyncedClocks, \* TRUE: the nodes' clocks agree and always advance
          MaxStamp      \* bound on a clock reading when they do not

Request   == Adds \cup Removes \cup Gets
Responder == Node \cup {Local}

ASSUME NodeAssumption ==
    /\ IsFiniteSet(Node)
    /\ Local \notin Node
    /\ Pool \in [Node -> SUBSET Node]

ASSUME RequestAssumption ==
    /\ IsFiniteSet(Request)
    /\ Adds \cap Removes = {}
    /\ Adds \cap Gets = {}
    /\ Removes \cap Gets = {}

ASSUME QuorumAssumption ==
    /\ UsizeMax \in Nat
    /\ ReadQuorum \in 0..UsizeMax
    /\ WriteQuorum \in 0..UsizeMax

ASSUME ClockAssumption == SyncedClocks \in BOOLEAN /\ MaxStamp \in Nat

VARIABLES
    store,   \* store[n]: the store of node n
    logged,  \* logged[n]: the operations the hooks of node n were invoked with
    phase,   \* phase[o]: how far the coordinator of request o has come
    op,      \* op[o]: the operation built for request o
    coord,   \* coord[o]: the node that coordinates request o
    call,    \* call[o][r]: the state of o's execution at responder r
    resp,    \* resp[o][r]: what o's execution at r read from the store
    latest,  \* latest[o]: the answer with which GET o repairs the others
    repair,  \* repair[o][r]: the state of the repair task from o to r
    reply    \* reply[o]: the HTTP response of request o

requestVars == <<phase, op, coord, reply>>
repairVars  == <<latest, repair>>
vars        == <<store, logged, phase, op, coord, call, resp, latest, repair, reply>>

Phase == {"new", "local", "collect", "done"}

(***************************************************************************)
(* The execution of a request at a responder.                              *)
(*   idle      no task was spawned                                         *)
(*   sent      the task was spawned, the handler has not run               *)
(*   ready     the handler has invoked the hooks, the store comes next     *)
(*   checked   Store::remove has found the key live and cloned its value   *)
(*   served    the handler has returned Ok                                 *)
(*   failed    nothing to remove here, or the call failed: its handler     *)
(*             never runs, or its answer was lost                          *)
(*   voted     the coordinator has taken the Ok                            *)
(***************************************************************************)
CallState == {"idle", "sent", "ready", "checked", "served", "failed", "voted"}

RepairState == {"none", "sent", "ready", "done", "lost"}

Reply == [status    : {"success", "partial"},
          achieved  : Nat,
          value     : Value \cup {None},
          timestamp : Nat \cup {None}]

\* The type invariant.
TypeOK ==
    /\ store  \in [Node -> Store]
    /\ logged \in [Node -> SUBSET Operation]
    /\ phase  \in [Request -> Phase]
    /\ op     \in [Request -> Operation \cup {None}]
    /\ coord  \in [Request -> Node \cup {None}]
    /\ call   \in [Request -> [Responder -> CallState]]
    /\ resp   \in [Request -> [Responder -> Response]]
    /\ latest \in [Request -> Response]
    /\ repair \in [Request -> [Responder -> RepairState]]
    /\ reply  \in [Request -> Reply \cup {None}]
    /\ \A o \in Request : phase[o] # "new" => op[o] \in Operation /\ coord[o] \in Node

Init ==
    /\ store  = [n \in Node |-> EmptyStore]
    /\ logged = [n \in Node |-> {}]
    /\ phase  = [o \in Request |-> "new"]
    /\ op     = [o \in Request |-> None]
    /\ coord  = [o \in Request |-> None]
    /\ call   = [o \in Request |-> [r \in Responder |-> "idle"]]
    /\ resp   = [o \in Request |-> [r \in Responder |-> NotFound]]
    /\ latest = [o \in Request |-> NotFound]
    /\ repair = [o \in Request |-> [r \in Responder |-> "none"]]
    /\ reply  = [o \in Request |-> None]

-----------------------------------------------------------------------------
(***************************************************************************)
(* The coordinator's own node                                              *)
(***************************************************************************)
Begun == {o \in Request : phase[o] # "new"}

(***************************************************************************)
(* What create_timestamp may return.  Nothing makes the clocks of the      *)
(* nodes agree or two readings differ; SyncedClocks is the best case.      *)
(***************************************************************************)
Now == IF SyncedClocks THEN {Cardinality(Begun) + 1} ELSE 1..MaxStamp

Site(o, r) == IF r = Local THEN coord[o] ELSE r

Log(n, operation) == logged' = [logged EXCEPT ![n] = @ \cup {operation}]

\* build_operation and invoke_all: the part of an ADD or a REMOVE before the store.
Accept(o, n, operation) ==
    /\ phase[o] = "new"
    /\ op'    = [op EXCEPT ![o] = operation]
    /\ coord' = [coord EXCEPT ![o] = n]
    /\ phase' = [phase EXCEPT ![o] = "local"]

BeginAdd(o, n, k, v) ==
    \E t \in Now :
        LET operation == [name |-> "ADD", key |-> k, value |-> v, timestamp |-> t]
        IN  /\ Accept(o, n, operation)
            /\ Log(n, operation)
            /\ call' = [call EXCEPT ![o][Local] = "ready"]
            /\ UNCHANGED <<store, resp, repairVars, reply>>

BeginRemove(o, n, k) ==
    \E t \in Now :
        LET operation == [name |-> "REMOVE", key |-> k, value |-> None, timestamp |-> t]
        IN  /\ Accept(o, n, operation)
            /\ Log(n, operation)
            /\ call' = [call EXCEPT ![o][Local] = "ready"]
            /\ UNCHANGED <<store, resp, repairVars, reply>>

\* A GET invokes no hook; it reads the local store before it asks the others.
BeginGet(o, n, k) ==
    \E t \in Now :
        LET operation == [name |-> "GET", key |-> k, value |-> None, timestamp |-> t]
        IN  /\ Accept(o, n, operation)
            /\ call' = [call EXCEPT ![o][Local] = "served"]
            /\ resp' = [resp EXCEPT ![o][Local] = Get(store[n], k)]
            /\ UNCHANGED <<store, logged, repairVars, reply>>

(***************************************************************************)
(* One task per connection of the pool, once the local store is done.      *)
(***************************************************************************)
FanOut(o) ==
    /\ phase[o] = "local"
    /\ call[o][Local] \in {"served", "failed"}
    /\ call' = [call EXCEPT ![o] = [r \in Responder |->
                    IF r \in Pool[coord[o]] THEN "sent" ELSE @[r]]]
    /\ phase' = [phase EXCEPT ![o] = "collect"]
    /\ UNCHANGED <<store, logged, op, coord, resp, repairVars, reply>>

-----------------------------------------------------------------------------
(***************************************************************************)
(* The store operation of a request, at the coordinator or at a peer       *)
(***************************************************************************)
StoreAdd(o, r) ==
    LET n == Site(o, r)
    IN  /\ call[o][r] = "ready"
        /\ op[o].name = "ADD"
        /\ store' = [store EXCEPT ![n] = Add(@, op[o])]
        /\ call' = [call EXCEPT ![o][r] = "served"]
        /\ UNCHANGED <<logged, requestVars, resp, repairVars>>

\* Store::remove looks the key up; a tombstone or an absent key fails the call.
StoreRemoveCheck(o, r) ==
    LET s == store[Site(o, r)]
        k == op[o].key
    IN  /\ call[o][r] = "ready"
        /\ op[o].name = "REMOVE"
        /\ \/ /\ Live(s, k)
              /\ call' = [call EXCEPT ![o][r] = "checked"]
              /\ resp' = [resp EXCEPT ![o][r] = [value |-> s[k].value, timestamp |-> None]]
           \/ /\ ~Live(s, k)
              /\ call' = [call EXCEPT ![o][r] = "failed"]
              /\ UNCHANGED resp
        /\ UNCHANGED <<store, logged, requestVars, repairVars>>

\* ... and writes the tombstone later, over whatever the entry has become.
StoreRemoveUpdate(o, r) ==
    LET n == Site(o, r)
    IN  /\ call[o][r] = "checked"
        /\ store' = [store EXCEPT ![n] = Bury(@, op[o], resp[o][r].value)]
        /\ call' = [call EXCEPT ![o][r] = "served"]
        /\ UNCHANGED <<logged, requestVars, resp, repairVars>>

-----------------------------------------------------------------------------
(***************************************************************************)
(* The gRPC calls of a request                                             *)
(***************************************************************************)
\* GrpcServer::add_kv and remove_kv begin: the hooks run before the store.
ReceiveWrite(o, n) ==
    /\ call[o][n] = "sent"
    /\ op[o].name # "GET"
    /\ Log(n, op[o])
    /\ call' = [call EXCEPT ![o][n] = "ready"]
    /\ UNCHANGED <<store, requestVars, resp, repairVars>>

\* GrpcServer::get_kv reads the store and answers.
ServeGet(o, n) ==
    /\ call[o][n] = "sent"
    /\ op[o].name = "GET"
    /\ resp' = [resp EXCEPT ![o][n] = Get(store[n], op[o].key)]
    /\ call' = [call EXCEPT ![o][n] = "served"]
    /\ UNCHANGED <<store, logged, requestVars, repairVars>>

(***************************************************************************)
(* The call fails before its handler runs, or its task is aborted with the *)
(* JoinSet; or the connection breaks after the handler has run.            *)
(***************************************************************************)
LoseCall(o, n) ==
    /\ \/ call[o][n] = "sent"
       \/ phase[o] = "collect" /\ call[o][n] = "served"
    /\ call' = [call EXCEPT ![o][n] = "failed"]
    /\ UNCHANGED <<store, logged, requestVars, resp, repairVars>>

-----------------------------------------------------------------------------
(***************************************************************************)
(* Collecting the answers                                                  *)
(***************************************************************************)
\* `quorum - 1' in usize arithmetic, as a release build computes it.
Minus1(quorum) == IF quorum = 0 THEN UsizeMax ELSE quorum - 1

Needed(o) == Minus1(IF op[o].name = "GET" THEN ReadQuorum ELSE WriteQuorum)

\* Mutant of Votes: a task that ended with an Err counts as an answer.
VotesOrErrors(o) == {n \in Node : call[o][n] \in {"voted", "failed"}}

Votes(o) == {n \in Node : call[o][n] = "voted"}

\* The tasks join_next has yet to return.
Outstanding(o) ==
    {n \in Node : call[o][n] \in {"sent", "ready", "checked", "served"}}

\* Mutant of Reached: one vote too many is awaited.
ReachedLate(o) == Votes(o) # {} /\ Cardinality(Votes(o)) > Needed(o)

(***************************************************************************)
(* The loop compares the number of answers with the quorum after it has    *)
(* pushed one, so a need of zero votes is never seen to be met.            *)
(***************************************************************************)
Reached(o) == Votes(o) # {} /\ Cardinality(Votes(o)) = Needed(o)

JoinNext(o, n) ==
    /\ phase[o] = "collect"
    /\ ~Reached(o)
    /\ call[o][n] = "served"
    /\ call' = [call EXCEPT ![o][n] = "voted"]
    /\ UNCHANGED <<store, logged, requestVars, resp, repairVars>>

\* Mutant of LoopOver: the loop only ends on the quorum, not on an empty JoinSet.
LoopOverOnQuorum(o) ==
    /\ phase[o] = "collect"
    /\ Reached(o)

LoopOver(o) ==
    /\ phase[o] = "collect"
    /\ Reached(o) \/ Outstanding(o) = {}

\* `success' only if the number of votes EQUALS the number needed.
Status(o) == IF Cardinality(Votes(o)) = Needed(o) THEN "success" ELSE "partial"

Answer(o, v, t) ==
    /\ phase' = [phase EXCEPT ![o] = "done"]
    /\ reply' = [reply EXCEPT ![o] = [status    |-> Status(o),
                                      achieved  |-> Cardinality(Votes(o)) + 1,
                                      value     |-> v,
                                      timestamp |-> t]]

FinishAdd(o) ==
    /\ LoopOver(o)
    /\ op[o].name = "ADD"
    /\ Answer(o, op[o].value, op[o].timestamp)
    /\ UNCHANGED <<store, logged, op, coord, call, resp, repairVars>>

\* The key counts as removed if one store removed it; only a removal returns Ok.
IsRemoved(o) == call[o][Local] = "served" \/ Votes(o) # {}

FinishRemove(o) ==
    /\ LoopOver(o)
    /\ op[o].name = "REMOVE"
    /\ Answer(o, None, IF IsRemoved(o) THEN op[o].timestamp ELSE None)
    /\ UNCHANGED <<store, logged, op, coord, call, resp, repairVars>>

(***************************************************************************)
(* Read repair: every responder whose timestamp is not the greatest one    *)
(* gets the answer that has it.  The local answer is the last of the list, *)
(* so `find' returns it only when no other responder has that timestamp.   *)
(***************************************************************************)
Responders(o) == Votes(o) \cup {Local}

Stamped(o) == {r \in Responders(o) : resp[o][r].timestamp # None}

\* Mutant of Freshest: the sort by timestamp is the other way round.
Oldest(o) == {r \in Stamped(o) :
                 \A s \in Stamped(o) : resp[o][r].timestamp <= resp[o][s].timestamp}

Freshest(o) == {r \in Stamped(o) :
                   \A s \in Stamped(o) : resp[o][s].timestamp <= resp[o][r].timestamp}

FirstFound(o) == IF Freshest(o) \subseteq {Local} THEN Freshest(o)
                                                  ELSE Freshest(o) \ {Local}

\* Mutant of Stale: responders without the key are not repaired.
StaleStamped(o) == Stamped(o) \ Freshest(o)

Stale(o) == Responders(o) \ Freshest(o)

FinishGet(o) ==
    /\ LoopOver(o)
    /\ op[o].name = "GET"
    /\ \/ /\ Stamped(o) = {}
          /\ Answer(o, None, None)
          /\ UNCHANGED repairVars
       \/ \E r \in FirstFound(o) :
              LET found == resp[o][r]
              IN  /\ latest' = [latest EXCEPT ![o] = found]
                  /\ repair' = [repair EXCEPT ![o] = [s \in Responder |->
                                   IF s \in Stale(o) THEN "sent" ELSE @[s]]]
                  /\ Answer(o, found.value,
                            IF found.value = None THEN None ELSE found.timestamp)
    /\ UNCHANGED <<store, logged, op, coord, call, resp>>

-----------------------------------------------------------------------------
\* Mutant of RepairOperation: the repair carries the timestamp of its GET.
RepairOperationNow(o) ==
    [name      |-> IF latest[o].value = None THEN "REMOVE" ELSE "ADD",
     key       |-> op[o].key,
     value     |-> latest[o].value,
     timestamp |-> op[o].timestamp]

(***************************************************************************)
(* Repair tasks.  The operation of a repair carries the timestamp of the   *)
(* answer it spreads, not that of the GET.                                 *)
(***************************************************************************)
RepairOperation(o) ==
    [name      |-> IF latest[o].value = None THEN "REMOVE" ELSE "ADD",
     key       |-> op[o].key,
     value     |-> latest[o].value,
     timestamp |-> latest[o].timestamp]

RepairedStore(o, n) ==
    LET operation == RepairOperation(o)
        k         == op[o].key
    IN  IF operation.name = "ADD"
        THEN Add(store[n], operation)
        ELSE IF Live(store[n], k)
             THEN Bury(store[n], operation, store[n][k].value)
             ELSE store[n]

\* Mutant of ReceiveRepair: the hooks are not invoked for a repair.
ReceiveRepairSilently(o, n) ==
    /\ repair[o][n] = "sent"
    /\ repair' = [repair EXCEPT ![o][n] = "ready"]
    /\ UNCHANGED <<store, logged, requestVars, call, resp, latest>>

\* A peer serves the call of solo_add_kv or solo_remove_kv: hooks first.
ReceiveRepair(o, n) ==
    /\ repair[o][n] = "sent"
    /\ Log(n, RepairOperation(o))
    /\ repair' = [repair EXCEPT ![o][n] = "ready"]
    /\ UNCHANGED <<store, requestVars, call, resp, latest>>

\* Mutant of ApplyRepair: the coordinator waits for a call to itself that nobody makes.
ApplyRepairRemotely(o, r) ==
    LET n == Site(o, r)
    IN  /\ repair[o][r] = "ready"
        /\ store' = [store EXCEPT ![n] = RepairedStore(o, n)]
        /\ repair' = [repair EXCEPT ![o][r] = "done"]
        /\ UNCHANGED <<logged, requestVars, call, resp, latest>>

\* The coordinator repairs itself by a direct call of its store: no hook runs.
ApplyRepair(o, r) ==
    LET n == Site(o, r)
    IN  /\ repair[o][r] = IF r = Local THEN "sent" ELSE "ready"
        /\ store' = [store EXCEPT ![n] = RepairedStore(o, n)]
        /\ repair' = [repair EXCEPT ![o][r] = "done"]
        /\ UNCHANGED <<logged, requestVars, call, resp, latest>>

LoseRepair(o, n) ==
    /\ repair[o][n] = "sent"
    /\ repair' = [repair EXCEPT ![o][n] = "lost"]
    /\ UNCHANGED <<store, logged, requestVars, call, resp, latest>>

-----------------------------------------------------------------------------
\* Nothing of request o runs anywhere any more.
Settled(o) ==
    /\ phase[o] \in {"new", "done"}
    /\ \A r \in Responder : /\ call[o][r] \notin {"sent", "ready", "checked"}
                            /\ repair[o][r] \notin {"sent", "ready"}

\* Every request the clients had is answered and every task has ended.
Terminated ==
    /\ \A o \in Request : phase[o] = "done" /\ Settled(o)
    /\ UNCHANGED vars

ClientStep ==
    \/ \E o \in Adds, n \in Node, k \in Key, v \in Value : BeginAdd(o, n, k, v)
    \/ \E o \in Removes, n \in Node, k \in Key : BeginRemove(o, n, k)
    \/ \E o \in Gets, n \in Node, k \in Key : BeginGet(o, n, k)

StoreStep(o, r) ==
    StoreAdd(o, r) \/ StoreRemoveCheck(o, r) \/ StoreRemoveUpdate(o, r)

Deliver(o, n) == ReceiveWrite(o, n) \/ ServeGet(o, n) \/ LoseCall(o, n)

Finish(o) == FinishAdd(o) \/ FinishRemove(o) \/ FinishGet(o)

DeliverRepair(o, n) == ReceiveRepair(o, n) \/ LoseRepair(o, n)

\* A step of request o, at its coordinator or at a peer.
RequestStep(o) ==
    \/ FanOut(o)
    \/ Finish(o)
    \/ \E r \in Responder : StoreStep(o, r) \/ ApplyRepair(o, r)
    \/ \E n \in Node : Deliver(o, n) \/ JoinNext(o, n) \/ DeliverRepair(o, n)

Next ==
    \/ ClientStep
    \/ \E o \in Request : RequestStep(o)
    \/ Terminated

Spec == Init /\ [][Next]_vars

(***************************************************************************)
(* Tokio polls every spawned task, so something that can go on does.  That *)
(* a call ends, with the answer of the peer or an error of the transport,  *)
(* is assumed: the code sets no deadline of its own.  Clients owe nothing. *)
(***************************************************************************)
Fairness == WF_vars(\E o \in Request : RequestStep(o))

FairSpec == Spec /\ Fairness

-----------------------------------------------------------------------------
(***************************************************************************)
(* Safety properties                                                       *)
(***************************************************************************)
Written(k, v, t) ==
    \E o \in Begun : op[o] = [name |-> "ADD", key |-> k, value |-> v, timestamp |-> t]

Removed(k, t) ==
    \E o \in Begun : op[o] = [name |-> "REMOVE", key |-> k, value |-> None, timestamp |-> t]

(***************************************************************************)
(* No invention.  Whatever the interleaving of writes, removals and        *)
(* repairs, a live entry of any store is the key, value and timestamp of   *)
(* one ADD some client issued, a tombstone has the timestamp of a REMOVE   *)
(* of that key, and a GET answers with a pair that some ADD wrote: replies *)
(* (src/http_server.rs get_kv), repairs and stores never mix the value of  *)
(* one write with the timestamp of another.                                *)
(***************************************************************************)
StoresHoldWrites ==
    \A n \in Node, k \in Key :
        store[n][k] # None =>
            IF store[n][k].valid
            THEN Written(k, store[n][k].value, store[n][k].timestamp)
            ELSE Removed(k, store[n][k].timestamp)

RepliesAreWrites ==
    \A o \in Gets :
        reply[o] # None /\ reply[o].value # None =>
            Written(op[o].key, reply[o].value, reply[o].timestamp)

Integrity == StoresHoldWrites /\ RepliesAreWrites

LoggedAt(operation) == {n \in Node : operation \in logged[n]}

(***************************************************************************)
(* A write that is answered with `success' was handed to the append-only   *)
(* log of at least write_quorum different nodes (src/http_server.rs        *)
(* add_kv, remove_kv), whichever calls failed and whichever answers were   *)
(* lost on the way.                                                        *)
(***************************************************************************)
QuorumLogged ==
    \A o \in Adds \cup Removes :
        reply[o] # None /\ reply[o].status = "success" =>
            Cardinality(LoggedAt(op[o])) >= WriteQuorum

\* The entry was put there by the coordinator of a GET, repairing itself.
RepairedLocally(n, k) ==
    \E g \in Gets : /\ coord[g] = n
                    /\ op[g].key = k
                    /\ repair[g][Local] = "done"
                    /\ latest[g] = [value     |-> store[n][k].value,
                                    timestamp |-> store[n][k].timestamp]

LoggedHere(n, k) ==
    LET entry == store[n][k]
    IN  [name      |-> IF entry.valid THEN "ADD" ELSE "REMOVE",
         key       |-> k,
         value     |-> IF entry.valid THEN entry.value ELSE None,
         timestamp |-> entry.timestamp] \in logged[n]

(***************************************************************************)
(* Log first.  Every entry of a store, tombstones included, is in the      *)
(* node's own log already, with the one exception of an entry that a GET   *)
(* repaired on its own coordinator (the direct store.add of get_kv).       *)
(***************************************************************************)
LoggedUnlessRepaired ==
    \A n \in Node, k \in Key :
        store[n][k] # None => LoggedHere(n, k) \/ RepairedLocally(n, k)

(***************************************************************************)
(* What the README says of the status: `success' when the quorum is fully  *)
(* satisfied.  The response reports `achieved' out of `required' votes.    *)
(***************************************************************************)
StatusReflectsQuorum ==
    \A o \in Request :
        reply[o] # None =>
            (reply[o].status = "success" <=>
                reply[o].achieved >= IF op[o].name = "GET" THEN ReadQuorum ELSE WriteQuorum)

(***************************************************************************)
(* Liveness: no accepted request waits for ever, although calls fail and   *)
(* the quorum may be out of reach (the loops over join_next in             *)
(* src/lally/pool.rs).  Each request comes once and they are finitely      *)
(* many: if again and again none is waiting, every one is answered.        *)
(***************************************************************************)
EveryRequestAnswered == []<>(\A o \in Request : phase[o] # "new" => reply[o] # None)

(***************************************************************************)
(* Liveness, in the same form: every repair that get_kv has spawned is     *)
(* applied or fails.                                                       *)
(***************************************************************************)
RepairsEnd ==
    []<>(\A o \in Gets, r \in Responder : repair[o][r] \in {"none", "done", "lost"})

=============================================================================
