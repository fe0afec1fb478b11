---------------------------- MODULE LallyMembership ----------------------------
(***************************************************************************)
(* How the nodes of a cluster find and forget each other: a node joins     *)
(* through its seed, the seed gossips the newcomer to its pool, a node     *)
(* leaves when it is interrupted (src/lally/pool.rs, src/cluster.rs,       *)
(* src/main.rs, src/lally.rs), while writes and read repairs use the       *)
(* pools.                                                                  *)
(*                                                                         *)
(* A node and its address are the same thing here: every node listens on   *)
(* one gRPC port and is called by the address its calls come from.  The    *)
(* pool maps addresses to channels; a channel connects again by itself,    *)
(* so only the addresses matter.  A write is an ADD of a key of its own:   *)
(* two writes never compete, and importing a store adds what it has.       *)
(* The handler of a join ends with the process that called it.             *)
(***************************************************************************)
EXTENDS Naturals, FiniteSets

CONSTANTS Node,     \* the nodes
          Seed,     \* Seed[n]: the seed node of n's configuration, or None
          Write,    \* the ADD requests clients make
          Client,   \* Client[w]: the node the client of w sends it to
          None,     \* Rust's None
          MaxEvents,  \* bound on processes that leave or are killed, and on calls and
                      \* connections that fail between running nodes, together
          MaxRepairs  \* bound on read repairs

ASSUME MembershipAssumption ==
    /\ None \notin Node
    /\ Seed \in [Node -> Node \cup {None}]
    /\ \A n \in Node : Seed[n] # n
    /\ Client \in [Write -> Node]
    /\ {MaxEvents, MaxRepairs} \subseteq Nat

VARIABLES
    stage,    \* stage[n]: where the main task of n is
    leaving,  \* the nodes whose shutdown task runs
    goodbye,  \* goodbye[n]: the nodes whose answer to n's remove_node is outstanding
    pool,     \* pool[n]: the addresses in the pool of n
    handler,  \* handler[n]: where the seed is with the join call of n
    offered,  \* offered[n]: the addresses that call answers, those n has not tried yet
    given,    \* given[n]: the store that call answers
    reached,  \* reached[n]: the addresses bulk_conn_make has connected to
    dial,     \* dial[m][n]: where m is with conn_make of the newcomer n
    repair,   \* the read repair under way, or None
    holds,    \* holds[n]: the writes in the store of n
    begun,    \* the writes whose coordinator runs and whose calls were served so far
    sent,     \* the writes whose coordinator has read its pool, or has ended
    calls,    \* calls[w]: the nodes that have not served the add_kv call of w
    events,   \* how many processes have ended, and calls or connections have failed
    repairs,  \* how many repairs there were
    met,      \* history: met[n], the nodes that were ready when n started, and still run
    settled,  \* history: settled[n], the writes that were over when n started
    recalled, \* history: nodes that ended while another node held their address
    serial,   \* history: no two changes of the membership overlapped
    reliable  \* history: no crash, no failed call, no node on its own beside a cluster

procVars    == <<stage, leaving, goodbye>>
joinVars    == <<handler, offered, given, reached, dial>>
writeVars   == <<holds, begun, sent, calls>>
repairVars  == <<repair, repairs>>
historyVars == <<met, settled, recalled, serial, reliable>>
vars == <<procVars, pool, joinVars, writeVars, repairVars, events, historyVars>>

(***************************************************************************)
(* The main task: connect to the seed, wait for its answer to join, open   *)
(* the connections to the other nodes, serve HTTP.  The gRPC server runs   *)
(* in all of them but "down".                                              *)
(***************************************************************************)
Stage == {"down", "seed", "ask", "link", "ready"}

\* The handler of GrpcServer::join, "asked" until it has read pool and store.
Handler == {"none", "asked", "read", "gossip", "connect", "done", "failed"}

\* conn_make: called, connected but not yet stored, or over.
Dial == {"none", "called", "connected"}

Repair == [by : Node, of : Node, write : Write, at : {"called", "connected", "call"}]

\* The type invariant.
TypeOK ==
    /\ stage    \in [Node -> Stage]
    /\ leaving  \in SUBSET Node
    /\ goodbye  \in [Node -> SUBSET Node]
    /\ pool     \in [Node -> SUBSET Node]
    /\ handler  \in [Node -> Handler]
    /\ offered  \in [Node -> SUBSET Node]
    /\ given    \in [Node -> SUBSET Write]
    /\ reached  \in [Node -> SUBSET Node]
    /\ dial     \in [Node -> [Node -> Dial]]
    /\ repair   \in Repair \cup {None}
    /\ holds    \in [Node -> SUBSET Write]
    /\ begun    \in SUBSET Write
    /\ sent     \in SUBSET Write
    /\ calls    \in [Write -> SUBSET Node]
    /\ events   \in 0..MaxEvents
    /\ repairs  \in 0..MaxRepairs
    /\ met      \in [Node -> SUBSET Node]
    /\ settled  \in [Node -> SUBSET Write]
    /\ recalled \in SUBSET Node
    /\ serial   \in BOOLEAN
    /\ reliable \in BOOLEAN
    /\ \A n \in Node : /\ handler[n] # "none" => stage[n] = "ask"
                       /\ offered[n] # {} => stage[n] \in {"ask", "link"}
                       /\ goodbye[n] # {} => n \in leaving

Init ==
    /\ stage    = [n \in Node |-> "down"]
    /\ leaving  = {}
    /\ goodbye  = [n \in Node |-> {}]
    /\ pool     = [n \in Node |-> {}]
    /\ handler  = [n \in Node |-> "none"]
    /\ offered  = [n \in Node |-> {}]
    /\ given    = [n \in Node |-> {}]
    /\ reached  = [n \in Node |-> {}]
    /\ dial     = [m \in Node |-> [n \in Node |-> "none"]]
    /\ repair   = None
    /\ holds    = [n \in Node |-> {}]
    /\ begun    = {}
    /\ sent     = {}
    /\ calls    = [w \in Write |-> {}]
    /\ events   = 0
    /\ repairs  = 0
    /\ met      = [n \in Node |-> {}]
    /\ settled  = [n \in Node |-> {}]
    /\ recalled = {}
    /\ serial   = TRUE
    /\ reliable = TRUE

-----------------------------------------------------------------------------
Up(n) == stage[n] # "down"

Joining(n) == stage[n] \in {"seed", "ask", "link"}

Ready == {n \in Node : stage[n] = "ready"}

\* A join, a leave or a repair that may open a connection is under way.
Changing == repair # None \/ leaving # {} \/ \E n \in Node : Joining(n)

\* Pool::get_addrs.
Addrs(n) == pool[n]

\* What GET /nodes answers.
Nodes(n) == Addrs(n)

\* Pool::remove.
Removed(m, n) == [pool EXCEPT ![m] = @ \ {n}]

Unreliable ==
    /\ reliable' = FALSE
    /\ UNCHANGED <<met, settled, recalled, serial>>

\* Something between two running nodes fails.
Lose ==
    /\ events < MaxEvents
    /\ events' = events + 1
    /\ Unreliable

-----------------------------------------------------------------------------
(***************************************************************************)
(* The process starts: replay has restored what it holds, and the gRPC     *)
(* server is up before the node joins (main).                              *)
(***************************************************************************)
Over(w) == w \in begun \cap sent /\ calls[w] = {}

Start(n) ==
    /\ stage[n] = "down"
    /\ stage' = [stage EXCEPT ![n] = IF Seed[n] = None THEN "ready" ELSE "seed"]
    /\ met' = [met EXCEPT ![n] = Ready]
    /\ settled' = [settled EXCEPT ![n] =
                     IF Seed[n] \in leaving THEN {} ELSE {w \in Write : Over(w)}]
    /\ serial' = (serial /\ ~Changing)
    /\ reliable' = (reliable /\ (Seed[n] = None => ~\E m \in Node : Up(m)))
    /\ UNCHANGED <<leaving, goodbye, pool, joinVars, writeVars, repairVars, events, recalled>>

\* The join is given up; main goes on to serve HTTP and never tries again.
Alone(n) ==
    /\ stage' = [stage EXCEPT ![n] = "ready"]
    /\ Unreliable

\* Pool::join connects to the seed, which enters the pool, and calls join there.
ReachSeed(n) ==
    /\ stage[n] = "seed"
    /\ Up(Seed[n]) \/ Seed[n] \in pool[n]
    /\ pool' = [pool EXCEPT ![n] = @ \cup {Seed[n]}]
    /\ stage' = [stage EXCEPT ![n] = "ask"]
    /\ handler' = [handler EXCEPT ![n] = IF Up(Seed[n]) THEN "asked" ELSE "failed"]
    /\ UNCHANGED <<leaving, goodbye, offered, given, reached, dial, writeVars, repairVars,
                   events, historyVars>>

MissSeed(n) ==
    /\ stage[n] = "seed"
    /\ ~Up(Seed[n])
    /\ Seed[n] \notin pool[n]
    /\ Alone(n)
    /\ UNCHANGED <<leaving, goodbye, pool, joinVars, writeVars, repairVars, events>>

-----------------------------------------------------------------------------
(***************************************************************************)
(* GrpcServer::join at the seed                                            *)
(***************************************************************************)
\* get_addrs and export_store, before anything is awaited.
ReadPoolAndStore(n) ==
    /\ handler[n] = "asked"
    /\ handler' = [handler EXCEPT ![n] = "read"]
    /\ offered' = [offered EXCEPT ![n] = Addrs(Seed[n])]
    /\ given' = [given EXCEPT ![n] = holds[Seed[n]]]
    /\ UNCHANGED <<procVars, pool, reached, dial, writeVars, repairVars, events, historyVars>>

\* gossip reads the pool again and calls add_node at all its nodes.
Gossip(n) ==
    /\ handler[n] = "read"
    /\ handler' = [handler EXCEPT ![n] = "gossip"]
    /\ dial' = [m \in Node |->
                  IF m \in pool[Seed[n]] THEN [dial[m] EXCEPT ![n] = "called"] ELSE dial[m]]
    /\ UNCHANGED <<procVars, pool, offered, given, reached, writeVars, repairVars, events,
                   historyVars>>

\* Mutant of GossipOver: the calls to add_node are spawned and not awaited.
GossipNotAwaited(n) ==
    /\ handler[n] = "gossip"
    /\ dial[Seed[n]][n] = "none"
    /\ handler' = [handler EXCEPT ![n] = "connect"]
    /\ dial' = [dial EXCEPT ![Seed[n]][n] = "called"]
    /\ UNCHANGED <<procVars, pool, offered, given, reached, writeVars, repairVars, events,
                   historyVars>>

\* join_all: every add_node has been answered; the seed itself connects to n.
GossipOver(n) ==
    /\ handler[n] = "gossip"
    /\ \A m \in Node : dial[m][n] = "none"
    /\ handler' = [handler EXCEPT ![n] = "connect"]
    /\ dial' = [dial EXCEPT ![Seed[n]][n] = "called"]
    /\ UNCHANGED <<procVars, pool, offered, given, reached, writeVars, repairVars, events,
                   historyVars>>

(***************************************************************************)
(* conn_make of n at m, for add_node and, at the seed, for join: a hit in  *)
(* the pool, or a connection that is stored once it stands.                *)
(***************************************************************************)
DialOver(m, n, result) ==
    /\ dial' = [dial EXCEPT ![m][n] = "none"]
    /\ handler' = IF m = Seed[n] /\ handler[n] = "connect"
                  THEN [handler EXCEPT ![n] = result] ELSE handler
    /\ UNCHANGED <<procVars, offered, given, reached, writeVars, repairVars>>

AlreadyPooled(m, n) ==
    /\ Up(m) /\ dial[m][n] = "called"
    /\ n \in pool[m]
    /\ DialOver(m, n, "done")
    /\ UNCHANGED <<pool, events, historyVars>>

Connect(m, n) ==
    /\ Up(m) /\ dial[m][n] = "called"
    /\ n \notin pool[m]
    /\ Up(n)
    /\ dial' = [dial EXCEPT ![m][n] = "connected"]
    /\ UNCHANGED <<procVars, pool, handler, offered, given, reached, writeVars, repairVars,
                   events, historyVars>>

\* n may have left by now.
StoreChannel(m, n) ==
    /\ dial[m][n] = "connected"
    /\ pool' = [pool EXCEPT ![m] = @ \cup {n}]
    /\ DialOver(m, n, "done")
    /\ UNCHANGED <<events, historyVars>>

\* Mutant of Unreachable: a call of a node that does not run is never answered.
UnreachableNewcomer(m, n) ==
    /\ dial[m][n] = "called"
    /\ Up(m) /\ ~Up(n) /\ n \notin pool[m]
    /\ DialOver(m, n, "failed")
    /\ UNCHANGED <<pool, events, historyVars>>

\* m does not run, or n does not.
Unreachable(m, n) ==
    /\ dial[m][n] = "called"
    /\ ~Up(m) \/ (~Up(n) /\ n \notin pool[m])
    /\ DialOver(m, n, "failed")
    /\ UNCHANGED <<pool, events, historyVars>>

LoseDial(m, n) ==
    /\ dial[m][n] = "called" /\ n \notin pool[m]
    /\ DialOver(m, n, "failed")
    /\ Lose
    /\ UNCHANGED pool

-----------------------------------------------------------------------------
(***************************************************************************)
(* The answer to join                                                      *)
(***************************************************************************)
\* Mutant of JoinAnswered: the connections are opened in the background.
JoinAnsweredAtOnce(n) ==
    /\ stage[n] = "ask"
    /\ handler[n] = "done"
    /\ handler' = [handler EXCEPT ![n] = "none"]
    /\ stage' = [stage EXCEPT ![n] = "ready"]
    /\ UNCHANGED <<leaving, goodbye, pool, offered, given, reached, dial, writeVars, repairVars,
                   events, historyVars>>

\* Mutant of JoinAnswered: the handler reads the pool last, when n is in it.
JoinAnsweredLate(n) ==
    /\ stage[n] = "ask"
    /\ handler[n] = "done"
    /\ handler' = [handler EXCEPT ![n] = "none"]
    /\ stage' = [stage EXCEPT ![n] = "link"]
    /\ offered' = [offered EXCEPT ![n] = Addrs(Seed[n])]
    /\ UNCHANGED <<leaving, goodbye, pool, given, reached, dial, writeVars, repairVars, events,
                   historyVars>>

\* bulk_conn_make starts with the addresses of the answer.
JoinAnswered(n) ==
    /\ stage[n] = "ask"
    /\ handler[n] = "done"
    /\ handler' = [handler EXCEPT ![n] = "none"]
    /\ stage' = [stage EXCEPT ![n] = "link"]
    /\ UNCHANGED <<leaving, goodbye, pool, offered, given, reached, dial, writeVars, repairVars,
                   events, historyVars>>

JoinFails(n) ==
    /\ stage[n] = "ask"
    /\ handler[n] = "failed"
    /\ handler' = [handler EXCEPT ![n] = "none"]
    /\ offered' = [offered EXCEPT ![n] = {}]
    /\ given' = [given EXCEPT ![n] = {}]
    /\ Alone(n)
    /\ UNCHANGED <<leaving, goodbye, pool, reached, dial, writeVars, repairVars, events>>

\* The call or its answer is lost; the handler may have run.
LoseJoin(n) ==
    /\ handler[n] \in {"asked", "done"}
    /\ handler' = [handler EXCEPT ![n] = "failed"]
    /\ Lose
    /\ UNCHANGED <<procVars, pool, offered, given, reached, dial, writeVars, repairVars>>

\* One connection of bulk_conn_make, which keeps it to itself; no address is looked up.
Link(n, m) ==
    /\ stage[n] = "link"
    /\ m \in offered[n]
    /\ offered' = [offered EXCEPT ![n] = @ \ {m}]
    /\ reached' = [reached EXCEPT ![n] = IF Up(m) THEN @ \cup {m} ELSE @]
    /\ UNCHANGED <<procVars, pool, handler, given, dial, writeVars, repairVars, events,
                   historyVars>>

LoseLink(n, m) ==
    /\ stage[n] = "link"
    /\ m \in offered[n]
    /\ offered' = [offered EXCEPT ![n] = @ \ {m}]
    /\ Lose
    /\ UNCHANGED <<procVars, pool, handler, given, reached, dial, writeVars, repairVars>>

\* Mutant of Joined: a join that connects to no other node returns no data.
JoinedWithOthers(n) ==
    /\ stage[n] = "link"
    /\ offered[n] = {}
    /\ pool' = [pool EXCEPT ![n] = @ \cup reached[n]]
    /\ holds' = [holds EXCEPT ![n] = IF reached[n] = {} THEN @ ELSE @ \cup given[n]]
    /\ reached' = [reached EXCEPT ![n] = {}]
    /\ given' = [given EXCEPT ![n] = {}]
    /\ stage' = [stage EXCEPT ![n] = "ready"]
    /\ UNCHANGED <<leaving, goodbye, handler, offered, dial, begun, sent, calls, repairVars,
                   events, historyVars>>

\* All have been tried: the pool takes the connections, the store the data of the seed.
Joined(n) ==
    /\ stage[n] = "link"
    /\ offered[n] = {}
    /\ pool' = [pool EXCEPT ![n] = @ \cup reached[n]]
    /\ holds' = [holds EXCEPT ![n] = @ \cup given[n]]
    /\ reached' = [reached EXCEPT ![n] = {}]
    /\ given' = [given EXCEPT ![n] = {}]
    /\ stage' = [stage EXCEPT ![n] = "ready"]
    /\ UNCHANGED <<leaving, goodbye, handler, offered, dial, begun, sent, calls, repairVars,
                   events, historyVars>>

-----------------------------------------------------------------------------
(***************************************************************************)
(* Leaving.  The shutdown task is spawned before anything else, so it runs *)
(* beside a join, and beside the gRPC and HTTP servers.                    *)
(***************************************************************************)
Leave(n) ==
    /\ Up(n) /\ n \notin leaving
    /\ events < MaxEvents
    /\ events' = events + 1
    /\ leaving' = leaving \cup {n}
    /\ goodbye' = [goodbye EXCEPT ![n] = pool[n]]
    /\ serial' = (serial /\ ~Changing)
    /\ UNCHANGED <<stage, pool, joinVars, writeVars, repairVars, met, settled, recalled, reliable>>

\* Mutant of RemoveNode: the handler looks for the port the call came from.
RemoveNodeByCaller(n, m) ==
    /\ m \in goodbye[n]
    /\ goodbye' = [goodbye EXCEPT ![n] = @ \ {m}]
    /\ UNCHANGED <<stage, leaving, pool, joinVars, writeVars, repairVars, events, historyVars>>

\* remove_node at m; an address that is not in the pool is an error, and n goes on.
RemoveNode(n, m) ==
    /\ m \in goodbye[n]
    /\ goodbye' = [goodbye EXCEPT ![n] = @ \ {m}]
    /\ pool' = IF Up(m) THEN Removed(m, n) ELSE pool
    /\ UNCHANGED <<stage, leaving, joinVars, writeVars, repairVars, events, historyVars>>

\* n goes on; the event was counted when n left.
LoseGoodbye(n, m) ==
    /\ m \in goodbye[n]
    /\ goodbye' = [goodbye EXCEPT ![n] = @ \ {m}]
    /\ Unreliable
    /\ UNCHANGED <<stage, leaving, pool, joinVars, writeVars, repairVars, events>>

\* m has the address of n, or may still put it into a pool.
Remembers(m, n) ==
    \/ n \in pool[m] \cup offered[m] \cup reached[m]
    \/ dial[m][n] # "none"
    \/ repair # None /\ repair.by = m /\ repair.of = n

(***************************************************************************)
(* The process ends, and with it all it had in memory, its calls and the   *)
(* calls it was serving.  Replay will find some of the writes it held.  An *)
(* answer to join may be on its way or not.                                *)
(***************************************************************************)
End(n) ==
    /\ stage' = [stage EXCEPT ![n] = "down"]
    /\ leaving' = leaving \ {n}
    /\ goodbye' = [goodbye EXCEPT ![n] = {}]
    /\ pool' = [pool EXCEPT ![n] = {}]
    /\ \E lost \in SUBSET {j \in Node : Seed[j] = n /\ handler[j] = "done"} :
          handler' = [j \in Node |->
             IF j = n THEN "none"
             ELSE IF j \in lost \/ (Seed[j] = n /\ handler[j] \notin {"none", "done"})
                  THEN "failed"
                  ELSE handler[j]]
    /\ offered' = [offered EXCEPT ![n] = {}]
    /\ given' = [given EXCEPT ![n] = {}]
    /\ reached' = [reached EXCEPT ![n] = {}]
    /\ dial' = [dial EXCEPT ![n] = [j \in Node |-> "none"]]
    /\ repair' = IF repair # None /\ repair.by = n THEN None ELSE repair
    /\ \E kept \in SUBSET holds[n] : holds' = [holds EXCEPT ![n] = kept]
    /\ sent' = sent \cup {w \in begun : Client[w] = n}
    /\ begun' = {w \in begun : Client[w] # n}
    /\ met' = [j \in Node |-> IF j = n THEN {} ELSE met[j] \ {n}]
    /\ settled' = [settled EXCEPT ![n] = {}]
    /\ recalled' = IF \E m \in Node \ {n} : Remembers(m, n) THEN recalled \cup {n} ELSE recalled
    /\ UNCHANGED <<calls, repairs, serial>>

\* leave has returned; shutdown calls exit(0).
Exit(n) ==
    /\ n \in leaving
    /\ goodbye[n] = {}
    /\ End(n)
    /\ UNCHANGED <<events, reliable>>

(***************************************************************************)
(* The process is killed; or main ends before leave has, because the HTTP  *)
(* server stops at the same interrupt.                                     *)
(***************************************************************************)
Crash(n) ==
    /\ Up(n)
    /\ events < MaxEvents \/ n \in leaving
    /\ events' = IF n \in leaving THEN events ELSE events + 1
    /\ End(n)
    /\ reliable' = FALSE

-----------------------------------------------------------------------------
(***************************************************************************)
(* Writes and read repairs, as far as they use the pool                    *)
(***************************************************************************)
BeginWrite(w) ==
    /\ stage[Client[w]] = "ready"
    /\ w \notin begun \cup sent
    /\ begun' = begun \cup {w}
    /\ holds' = [holds EXCEPT ![Client[w]] = @ \cup {w}]
    /\ UNCHANGED <<procVars, pool, joinVars, sent, calls, repairVars, events, historyVars>>

\* Pool::add_kv reads the pool after the coordinator's own store.
FanOut(w) ==
    /\ w \in begun \ sent
    /\ sent' = sent \cup {w}
    /\ calls' = [calls EXCEPT ![w] = pool[Client[w]]]
    /\ UNCHANGED <<procVars, pool, joinVars, holds, begun, repairVars, events, historyVars>>

ServeWrite(w, m) ==
    /\ m \in calls[w]
    /\ Up(m)
    /\ calls' = [calls EXCEPT ![w] = @ \ {m}]
    /\ holds' = [holds EXCEPT ![m] = @ \cup {w}]
    /\ UNCHANGED <<procVars, pool, joinVars, begun, sent, repairVars, events, historyVars>>

\* The call fails, or it is dropped because other nodes made the quorum.
MissWrite(w, m) ==
    /\ m \in calls[w]
    /\ calls' = [calls EXCEPT ![w] = @ \ {m}]
    /\ begun' = begun \ {w}
    /\ UNCHANGED <<procVars, pool, joinVars, holds, sent, repairVars, events, historyVars>>

\* A GET at m has found that n, one of its pool, lacks w: solo_add_kv is spawned.
BeginRepair(m, n, w) ==
    /\ stage[m] = "ready" /\ n \in pool[m] /\ Up(n)
    /\ w \in holds[m] \ holds[n]
    /\ repair = None /\ repairs < MaxRepairs
    /\ repairs' = repairs + 1
    /\ repair' = [by |-> m, of |-> n, write |-> w, at |-> "called"]
    /\ serial' = (serial /\ leaving = {})
    /\ UNCHANGED <<procVars, pool, joinVars, writeVars, events, met, settled, recalled, reliable>>

\* Its conn_make: usually a hit, but n may have been removed since.  Either call may fail.
RepairDial ==
    LET m == repair.by n == repair.of
    IN  /\ repair # None /\ repair.at = "called"
        /\ \/ n \in pool[m] /\ repair' = [repair EXCEPT !.at = "call"]
           \/ n \notin pool[m] /\ Up(n) /\ repair' = [repair EXCEPT !.at = "connected"]
           \/ n \notin pool[m] /\ repair' = None
        /\ UNCHANGED <<procVars, pool, joinVars, writeVars, repairs, events, historyVars>>

RepairStoresChannel ==
    /\ repair # None /\ repair.at = "connected"
    /\ pool' = [pool EXCEPT ![repair.by] = @ \cup {repair.of}]
    /\ repair' = [repair EXCEPT !.at = "call"]
    /\ UNCHANGED <<procVars, joinVars, writeVars, repairs, events, historyVars>>

RepairServed ==
    LET n == repair.of
    IN  /\ repair # None /\ repair.at = "call"
        /\ \/ Up(n) /\ holds' = [holds EXCEPT ![n] = @ \cup {repair.write}]
           \/ UNCHANGED holds
        /\ repair' = None
        /\ UNCHANGED <<procVars, pool, joinVars, begun, sent, calls, repairs, events,
                       historyVars>>

-----------------------------------------------------------------------------
Main(n) ==
    \/ ReachSeed(n)
    \/ MissSeed(n)
    \/ JoinAnswered(n)
    \/ JoinFails(n)
    \/ \E m \in Node : Link(n, m)
    \/ Joined(n)

JoinCall(n) == ReadPoolAndStore(n) \/ Gossip(n) \/ GossipOver(n)

ConnMake(m, n) ==
    \/ AlreadyPooled(m, n)
    \/ Connect(m, n)
    \/ StoreChannel(m, n)
    \/ Unreachable(m, n)

Shutdown(n) == Exit(n) \/ \E m \in Node : RemoveNode(n, m)

ChangeStep ==
    \/ \E n \in Node : Main(n) \/ JoinCall(n) \/ Shutdown(n)
    \/ \E m, n \in Node : ConnMake(m, n)

WriteStep(w) ==
    \/ BeginWrite(w)
    \/ FanOut(w)
    \/ \E m \in Node : ServeWrite(w, m) \/ MissWrite(w, m)

RepairStep ==
    \/ \E m, n \in Node, w \in Write : BeginRepair(m, n, w)
    \/ RepairDial
    \/ RepairStoresChannel
    \/ RepairServed

Loss ==
    \/ \E n \in Node : LoseJoin(n)
    \/ \E n, m \in Node : LoseDial(n, m) \/ LoseLink(n, m) \/ LoseGoodbye(n, m)

\* No task has anything to do: the cluster waits for operators and clients.
AtRest ==
    /\ ~Changing
    /\ \A m, n \in Node : dial[m][n] = "none"
    /\ \A w \in Write : calls[w] = {}
    /\ UNCHANGED vars

Next ==
    \/ \E n \in Node : Start(n) \/ Leave(n) \/ Crash(n)
    \/ ChangeStep
    \/ \E w \in Write : WriteStep(w)
    \/ RepairStep
    \/ Loss
    \/ AtRest

Spec == Init /\ [][Next]_vars

(***************************************************************************)
(* As long as a join or a leave can go on, one of its tasks does: Tokio    *)
(* polls them, and every call is answered or fails.  Operators, clients    *)
(* and failures owe nothing.                                               *)
(***************************************************************************)
FairSpec == Spec /\ WF_vars(ChangeStep)

-----------------------------------------------------------------------------
(***************************************************************************)
(* Properties                                                              *)
(***************************************************************************)
EveryPoolComplete == \A n \in Ready : Nodes(n) = Ready \ {n}

(***************************************************************************)
(* What the README says of GET /nodes: whenever nothing is going on and    *)
(* nothing has failed, it lists the nodes of the cluster but the one       *)
(* asked.                                                                  *)
(***************************************************************************)
NodesListsTheOthers == reliable /\ ~Changing => EveryPoolComplete

(***************************************************************************)
(* It does so if joins, leaves and repairs never overlapped: no step of    *)
(* any of them leaves an address behind or one out (src/lally/pool.rs).    *)
(***************************************************************************)
SerialChangesAgree == serial => NodesListsTheOthers

(***************************************************************************)
(* However joins and leaves overlap, a node and those that were ready when *)
(* it started know each other: only nodes that join at the same time may   *)
(* miss one another (GrpcServer::join reads the pool twice).               *)
(***************************************************************************)
KnowsThoseBefore ==
    reliable => \A n \in Ready \ leaving : \A m \in met[n] \ leaving :
                    m \in pool[n] /\ n \in pool[m]

(***************************************************************************)
(* A node is ready with every write that every node of a pool had served   *)
(* when it started, though the seed's store is read before anybody knows   *)
(* the newcomer: what a join can miss is what is written meanwhile.  The   *)
(* nodes share one seed (GrpcServer::join, Store::import_store).           *)
(***************************************************************************)
JoinBringsSettledWrites == reliable => \A n \in Ready : settled[n] \subseteq holds[n]

(***************************************************************************)
(* A node is in its own pool, and its own answers are votes for it, only   *)
(* if it was still known somewhere when it ended (GrpcServer::join offers  *)
(* and gossips without looking for the caller).                            *)
(***************************************************************************)
OwnPeerOnlyIfRecalled == \A n \in Node : n \in pool[n] => n \in recalled

(***************************************************************************)
(* Liveness: joins and leaves come to an end, whoever ends or fails        *)
(* meanwhile (Pool::join and Pool::leave wait for every answer, without a  *)
(* deadline).                                                              *)
(***************************************************************************)
ChangesEnd == []<>(leaving = {} /\ \A n \in Node : ~Joining(n))

=============================================================================
