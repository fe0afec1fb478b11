---------------------- MODULE LallyMembershipJoinProofs ----------------------
(***************************************************************************)
(* Proofs of what a join of LallyMembership achieves in a cluster whose    *)
(* nodes share one seed: a node and those that were ready when it started  *)
(* know each other, and it has the writes that were over by then.          *)
(***************************************************************************)
EXTENDS LallyMembershipProofs

-----------------------------------------------------------------------------
(***************************************************************************)
(* The inductive invariant                                                 *)
(***************************************************************************)
\* All nodes but the root join through the root.
OneSeed(root) ==
    /\ root \in Node
    /\ Seed[root] = None
    /\ \A n \in Node \ {root} : Seed[n] = root

\* The handler of a join runs at a running seed.
CallersServed ==
    \A n \in Node : handler[n] \in {"asked", "read", "gossip", "connect"} => Up(Seed[n])

\* met[n] are nodes that have been ready ever since n started.
MetReady == \A n \in Node : \A m \in met[n] : stage[m] = "ready" /\ m # n /\ Up(n)

\* A coordinator has what it writes, as long as its process lives.
WritersReady == \A w \in begun : stage[Client[w]] = "ready" /\ w \in holds[Client[w]]

Manners == CallersServed /\ MetReady /\ WritersReady

\* The seed has connected to n,
Introduced(n) == handler[n] = "done" \/ stage[n] \in {"link", "ready"}

\* its gossip about n is over,
Presented(n) == handler[n] = "connect" \/ Introduced(n)

\* it has read its pool and its store for n.
Listed(n) == handler[n] \in {"read", "gossip"} \/ Presented(n)

RootKnows(root) ==
    Up(root) => \A n \in Node \ (leaving \cup {root}) : Introduced(n) => n \in pool[root]

RootKnown(root) ==
    Up(root) /\ root \notin leaving =>
        \A n \in Node \ {root} : stage[n] \in {"ask", "link", "ready"} => root \in pool[n]

(***************************************************************************)
(* How far n, which joins or has joined, and m, which was ready before,    *)
(* have come with each other.                                              *)
(***************************************************************************)
Acquainted(n, m) ==
    /\ Listed(n) => m \in IF stage[n] = "ready" THEN pool[n] ELSE offered[n] \cup reached[n]
    /\ handler[n] = "gossip" => n \in pool[m] \/ dial[m][n] # "none"
    /\ Presented(n) => n \in pool[m]

MetAcquainted(root) ==
    \A n \in Node \ leaving : \A m \in met[n] \ (leaving \cup {root}) : Acquainted(n, m)

\* The seed serves every write before the write is over.
RootHolds(root) ==
    Up(root) /\ root \notin leaving =>
        \A w \in begun \cap sent : w \in holds[root] \/ root \in calls[w]

\* The writes that were over when n started are on their way to n.
Carried(root) ==
    \A n \in Node :
       /\ (stage[n] = "seed" \/ handler[n] = "asked") /\ Up(root) => settled[n] \subseteq holds[root]
       /\ Listed(n) => settled[n] \subseteq IF stage[n] = "ready" THEN holds[n] ELSE given[n]

\* Nothing runs when the seed starts.
RootFirst(root) == met[root] = {} /\ settled[root] = {}

Dependable(root) == /\ RootKnows(root)
                    /\ RootKnown(root)
                    /\ MetAcquainted(root)
                    /\ RootHolds(root)
                    /\ Carried(root)
                    /\ RootFirst(root)

-----------------------------------------------------------------------------
\* The main task.
LEMMA JoinsMain ==
    ASSUME NEW root, OneSeed(root), Wellformed, Manners, Dependable(root), reliable',
           NEW n \in Node, Start(n) \/ Main(n)
    PROVE  Dependable(root)'
<1>. USE MembershipAssumption
     DEF Wellformed, TypeOK, JoinersHaveSeeds, Joining, Stage, Handler, Dial, OneSeed,
         Manners, CallersServed, MetReady, WritersReady,
         Introduced, Presented, Listed, Acquainted, Up,
         procVars, joinVars, writeVars, repairVars, historyVars
<1>1. ASSUME Start(n) PROVE Dependable(root)'
  <2>1. Seed[n] = None => \A m \in Node : ~Up(m)
    BY <1>1 DEF Start
  <2>2. n = root => Ready = {} /\ begun = {}
    BY <2>1, <1>1 DEF Ready
  <2>3. RootKnows(root)' /\ RootKnown(root)'
    BY <1>1, <2>1 DEF Start, Dependable, RootKnows, RootKnown
  <2>4. MetAcquainted(root)'
    BY <1>1, <2>1, <2>2 DEF Start, Dependable, MetAcquainted
  <2>5. RootHolds(root)'
    BY <1>1, <2>1, <2>2 DEF Start, Dependable, RootHolds
  <2>6. Carried(root)'
    BY <1>1, <2>1, <2>2 DEF Start, Dependable, RootHolds, Carried, Over
  <2>7. RootFirst(root)'
    BY <1>1, <2>1, <2>2 DEF Start, Dependable, RootFirst, Over
  <2>. QED
    BY <2>3, <2>4, <2>5, <2>6, <2>7 DEF Dependable
<1>2. ASSUME ReachSeed(n) PROVE Dependable(root)'
  BY <1>2 DEF Dependable, ReachSeed,
             RootKnows, RootKnown, MetAcquainted, RootHolds, Carried, RootFirst
<1>3. ASSUME JoinAnswered(n) PROVE Dependable(root)'
  BY <1>3 DEF Dependable, JoinAnswered,
             RootKnows, RootKnown, MetAcquainted, RootHolds, Carried, RootFirst
<1>4. ASSUME NEW m \in Node, Link(n, m) PROVE Dependable(root)'
  BY <1>4 DEF Dependable, Link,
             RootKnows, RootKnown, MetAcquainted, RootHolds, Carried, RootFirst
<1>5. ASSUME Joined(n) PROVE Dependable(root)'
  BY <1>5 DEF Dependable, Joined,
             RootKnows, RootKnown, MetAcquainted, RootHolds, Carried, RootFirst
<1>6. ASSUME MissSeed(n) \/ JoinFails(n) PROVE Dependable(root)'
  BY <1>6 DEF MissSeed, JoinFails, Alone, Unreliable
<1>. HIDE DEF Wellformed, Manners
<1>. QED
  BY <1>1, <1>2, <1>3, <1>4, <1>5, <1>6 DEF Main

\* The handler of the join.
LEMMA JoinsCall ==
    ASSUME NEW root, OneSeed(root), Wellformed, Manners, Dependable(root), reliable',
           NEW n \in Node, JoinCall(n) \/ LoseJoin(n)
    PROVE  Dependable(root)'
<1>. USE MembershipAssumption
     DEF Wellformed, TypeOK, JoinersHaveSeeds, Joining, Stage, Handler, Dial, OneSeed,
         Manners, CallersServed, MetReady, WritersReady,
         Introduced, Presented, Listed, Acquainted, Up,
         procVars, joinVars, writeVars, repairVars, historyVars
<1>1. ASSUME ReadPoolAndStore(n) PROVE Dependable(root)'
  <2>1. Seed[n] = root /\ Up(root)
    BY <1>1 DEF ReadPoolAndStore
  <2>2. \A m \in met[n] \ (leaving \cup {root}) : m \in pool[root]
    BY <2>1 DEF Dependable, RootKnows
  <2>3. MetAcquainted(root)'
    BY <1>1, <2>1, <2>2 DEF ReadPoolAndStore, Addrs, Dependable, MetAcquainted
  <2>4. Carried(root)'
    BY <1>1, <2>1 DEF ReadPoolAndStore, Dependable, Carried
  <2>. QED
    BY <1>1, <2>3, <2>4 DEF ReadPoolAndStore, Dependable, RootKnows, RootKnown, RootHolds, RootFirst
<1>2. ASSUME Gossip(n) PROVE Dependable(root)'
  <2>1. Seed[n] = root /\ Up(root)
    BY <1>2 DEF Gossip
  <2>2. \A m \in met[n] \ (leaving \cup {root}) : m \in pool[root]
    BY <2>1 DEF Dependable, RootKnows
  <2>3. MetAcquainted(root)'
    BY <1>2, <2>1, <2>2 DEF Gossip, Dependable, MetAcquainted
  <2>. QED
    BY <1>2, <2>3 DEF Gossip, Dependable, RootKnows, RootKnown, RootHolds, Carried, RootFirst
<1>3. ASSUME GossipOver(n) PROVE Dependable(root)'
  BY <1>3 DEF Dependable, GossipOver,
             RootKnows, RootKnown, MetAcquainted, RootHolds, Carried, RootFirst
<1>4. ASSUME LoseJoin(n) PROVE Dependable(root)'
  BY <1>4 DEF LoseJoin, Lose, Unreliable
<1>. HIDE DEF Wellformed, Manners
<1>. QED
  BY <1>1, <1>2, <1>3, <1>4 DEF JoinCall

\* The connections it asks for.
LEMMA JoinsConnect ==
    ASSUME NEW root, OneSeed(root), Wellformed, Manners, Dependable(root), reliable',
           NEW m \in Node, NEW n \in Node, ConnMake(m, n) \/ LoseDial(m, n)
    PROVE  Dependable(root)'
<1>. USE MembershipAssumption
     DEF Wellformed, TypeOK, JoinersHaveSeeds, Joining, Stage, Handler, Dial, OneSeed,
         Manners, CallersServed, MetReady, WritersReady,
         Introduced, Presented, Listed, Acquainted, Up,
         procVars, joinVars, writeVars, repairVars, historyVars, DialOver
<1>1. ASSUME AlreadyPooled(m, n) PROVE Dependable(root)'
  BY <1>1 DEF Dependable, AlreadyPooled,
             RootKnows, RootKnown, MetAcquainted, RootHolds, Carried, RootFirst
<1>2. ASSUME Connect(m, n) PROVE Dependable(root)'
  BY <1>2 DEF Dependable, Connect,
             RootKnows, RootKnown, MetAcquainted, RootHolds, Carried, RootFirst
<1>3. ASSUME StoreChannel(m, n) PROVE Dependable(root)'
  BY <1>3 DEF Dependable, StoreChannel,
             RootKnows, RootKnown, MetAcquainted, RootHolds, Carried, RootFirst
<1>4. ASSUME Unreachable(m, n) PROVE Dependable(root)'
  BY <1>4 DEF Dependable, Unreachable,
             RootKnows, RootKnown, MetAcquainted, RootHolds, Carried, RootFirst
<1>5. ASSUME LoseDial(m, n) PROVE Dependable(root)'
  BY <1>5 DEF LoseDial, Lose, Unreliable
<1>. HIDE DEF Wellformed, Manners
<1>. QED
  BY <1>1, <1>2, <1>3, <1>4, <1>5 DEF ConnMake

\* Leaving, and the end of a process.
LEMMA JoinsLeave ==
    ASSUME NEW root, OneSeed(root), Wellformed, Manners, Dependable(root), reliable',
           NEW n \in Node, NEW m \in Node,
           \/ Leave(n) \/ RemoveNode(n, m) \/ LoseGoodbye(n, m) \/ LoseLink(n, m)
           \/ Exit(n) \/ Crash(n)
    PROVE  Dependable(root)'
<1>. USE MembershipAssumption
     DEF Wellformed, TypeOK, JoinersHaveSeeds, Joining, Stage, Handler, Dial, OneSeed,
         Manners, CallersServed, MetReady, WritersReady,
         Introduced, Presented, Listed, Acquainted, Up,
         procVars, joinVars, writeVars, repairVars, historyVars
<1>1. ASSUME Leave(n) PROVE Dependable(root)'
  BY <1>1 DEF Dependable, Leave,
             RootKnows, RootKnown, MetAcquainted, RootHolds, Carried, RootFirst
<1>2. ASSUME RemoveNode(n, m) PROVE Dependable(root)'
  BY <1>2 DEF Dependable, RemoveNode, Removed,
             RootKnows, RootKnown, MetAcquainted, RootHolds, Carried, RootFirst
<1>3. ASSUME Exit(n) PROVE Dependable(root)'
  BY <1>3 DEF Dependable, Exit, End,
             RootKnows, RootKnown, MetAcquainted, RootHolds, Carried, RootFirst
<1>4. ASSUME LoseGoodbye(n, m) \/ LoseLink(n, m) \/ Crash(n) PROVE Dependable(root)'
  BY <1>4 DEF LoseGoodbye, LoseLink, Crash, Lose, Unreliable
<1>. HIDE DEF Wellformed, Manners
<1>. QED
  BY <1>1, <1>2, <1>3, <1>4

\* Writes.
LEMMA JoinsWrite ==
    ASSUME NEW root, OneSeed(root), Wellformed, Manners, Dependable(root), reliable',
           NEW w \in Write, WriteStep(w)
    PROVE  Dependable(root)'
<1>. USE MembershipAssumption
     DEF Wellformed, TypeOK, JoinersHaveSeeds, Joining, Stage, Handler, Dial, OneSeed,
         Manners, CallersServed, MetReady, WritersReady,
         Introduced, Presented, Listed, Acquainted, Up,
         procVars, joinVars, writeVars, repairVars, historyVars
<1>1. ASSUME BeginWrite(w) PROVE Dependable(root)'
  BY <1>1 DEF Dependable, BeginWrite,
             RootKnows, RootKnown, MetAcquainted, RootHolds, Carried, RootFirst
<1>2. ASSUME FanOut(w) PROVE Dependable(root)'
  <2>1. Up(root) /\ root \notin leaving => w \in holds[root] \/ root \in calls'[w]
    <3>1. Client[w] \in Node /\ stage[Client[w]] = "ready" /\ w \in holds[Client[w]]
      BY <1>2 DEF FanOut
    <3>. QED
      BY <1>2, <3>1 DEF FanOut, Dependable, RootKnown
  <2>2. RootHolds(root)'
    BY <1>2, <2>1 DEF FanOut, Dependable, RootHolds
  <2>. QED
    BY <1>2, <2>2 DEF FanOut, Dependable, RootKnows, RootKnown, MetAcquainted, Carried, RootFirst
<1>3. ASSUME NEW m \in Node, ServeWrite(w, m) PROVE Dependable(root)'
  BY <1>3 DEF Dependable, ServeWrite,
             RootKnows, RootKnown, MetAcquainted, RootHolds, Carried, RootFirst
<1>4. ASSUME NEW m \in Node, MissWrite(w, m) PROVE Dependable(root)'
  BY <1>4 DEF Dependable, MissWrite,
             RootKnows, RootKnown, MetAcquainted, RootHolds, Carried, RootFirst
<1>. HIDE DEF Wellformed, Manners
<1>. QED
  BY <1>1, <1>2, <1>3, <1>4 DEF WriteStep

\* Read repairs.
LEMMA RepairKeeps ==
    ASSUME TypeOK, RepairStep
    PROVE  \A n \in Node : holds[n] \subseteq holds'[n]
<1>1. holds \in [Node -> SUBSET Write] /\ (repair # None => repair \in Repair)
  BY DEF TypeOK
<1>2. CASE UNCHANGED holds
  BY ONLY <1>2
<1>3. CASE RepairServed /\ holds' # holds
  <2>1. repair.of \in Node /\ repair.write \in Write
    BY <1>1, <1>3 DEF RepairServed, Repair
  <2>2. holds' = [holds EXCEPT ![repair.of] = @ \cup {repair.write}]
    BY <1>3 DEF RepairServed
  <2>. QED
    BY ONLY <1>1, <2>1, <2>2
<1>. QED
  BY <1>2, <1>3 DEF RepairStep, BeginRepair, RepairDial, RepairStoresChannel, writeVars

LEMMA JoinsRepair ==
    ASSUME NEW root, OneSeed(root), Wellformed, Manners, Dependable(root), reliable',
           RepairStep \/ UNCHANGED vars
    PROVE  Dependable(root)'
<1>. USE MembershipAssumption
     DEF Wellformed, TypeOK, JoinersHaveSeeds, Joining, Stage, Handler, Dial, OneSeed,
         Manners, CallersServed, MetReady, WritersReady,
         Introduced, Presented, Listed, Acquainted, Up,
         procVars, joinVars, writeVars, repairVars, historyVars
<1>1. ASSUME NEW m \in Node, NEW n \in Node, NEW w \in Write, BeginRepair(m, n, w) PROVE Dependable(root)'
  BY <1>1 DEF Dependable, BeginRepair,
             RootKnows, RootKnown, MetAcquainted, RootHolds, Carried, RootFirst
<1>2. ASSUME RepairDial PROVE Dependable(root)'
  BY <1>2 DEF Dependable, RepairDial,
             RootKnows, RootKnown, MetAcquainted, RootHolds, Carried, RootFirst
<1>3. ASSUME RepairStoresChannel PROVE Dependable(root)'
  BY <1>3 DEF Dependable, RepairStoresChannel, Repair,
             RootKnows, RootKnown, MetAcquainted, RootHolds, Carried, RootFirst
<1>4. ASSUME RepairServed PROVE Dependable(root)'
  <2>1. \A n \in Node : holds[n] \subseteq holds'[n]
    BY <1>4, RepairKeeps DEF RepairStep
  <2>2. UNCHANGED <<procVars, pool, joinVars, begun, sent, calls, historyVars>>
    BY <1>4 DEF RepairServed
  <2>3. RootHolds(root)' /\ Carried(root)'
    BY <2>1, <2>2 DEF Dependable, RootHolds, Carried
  <2>. QED
    BY <2>2, <2>3 DEF Dependable, RootKnows, RootKnown, MetAcquainted, RootFirst
<1>5. ASSUME UNCHANGED vars PROVE Dependable(root)'
  BY <1>5 DEF Dependable, vars,
             RootKnows, RootKnown, MetAcquainted, RootHolds, Carried, RootFirst
<1>. HIDE DEF Wellformed, Manners
<1>. QED
  BY <1>1, <1>2, <1>3, <1>4, <1>5 DEF RepairStep

-----------------------------------------------------------------------------
\* The part of the invariant that holds whatever fails.
LEMMA MannersEnd ==
    ASSUME Wellformed, Manners, NEW n \in Node, Exit(n) \/ Crash(n)
    PROVE  Manners'
<1>1. End(n) /\ TypeOK
  BY DEF Exit, Crash, Wellformed
<1>2. CallersServed'
  BY <1>1 DEF End, TypeOK, Manners, CallersServed, Up, Handler
<1>3. MetReady' /\ WritersReady'
  BY <1>1, MembershipAssumption DEF End, TypeOK, Manners, MetReady, WritersReady, Up
<1>. QED
  BY <1>2, <1>3 DEF Manners

LEMMA MannersNext == Wellformed /\ Manners /\ [Next]_vars => Manners'
<1>. SUFFICES ASSUME Wellformed, Manners, [Next]_vars PROVE Manners'
  OBVIOUS
<1>. USE MembershipAssumption
     DEF Wellformed, TypeOK, JoinersHaveSeeds, Joining, Stage, Handler,
         Manners, CallersServed, MetReady, WritersReady, Up,
         procVars, joinVars, writeVars, repairVars, historyVars, Lose, Unreliable, Alone
<1>1. ASSUME NEW n \in Node, Start(n) PROVE Manners'
  <2>1. UNCHANGED <<handler, begun, holds>> /\ stage[n] = "down"
    BY <1>1 DEF Start
  <2>2. /\ \A m \in Node \ {n} : stage'[m] = stage[m] /\ met'[m] = met[m]
        /\ stage'[n] \in {"ready", "seed"} /\ met'[n] = Ready
    BY <1>1 DEF Start
  <2>3. CallersServed'
    BY <2>1, <2>2
  <2>4. MetReady'
    BY <2>1, <2>2 DEF Ready
  <2>5. WritersReady'
    BY <2>1, <2>2
  <2>. QED
    BY <2>3, <2>4, <2>5
<1>2. ASSUME NEW n \in Node, Main(n) PROVE Manners'
  <2>1. ASSUME ReachSeed(n) PROVE Manners'
    BY <2>1 DEF ReachSeed
  <2>2. ASSUME MissSeed(n) \/ JoinFails(n) PROVE Manners'
    <3>1. UNCHANGED <<begun, holds, met>> /\ (\A m \in Node : handler'[m] \in {handler[m], "none"})
      BY <2>2 DEF MissSeed, JoinFails, Alone, Unreliable
    <3>2. stage' = [stage EXCEPT ![n] = "ready"] /\ stage[n] \in {"seed", "ask"}
      BY <2>2 DEF MissSeed, JoinFails, Alone
    <3>. QED
      BY <3>1, <3>2
  <2>3. ASSUME JoinAnswered(n) PROVE Manners'
    BY <2>3 DEF JoinAnswered
  <2>4. ASSUME NEW m \in Node, Link(n, m) PROVE Manners'
    BY <2>4 DEF Link
  <2>5. ASSUME Joined(n) PROVE Manners'
    BY <2>5 DEF Joined
  <2>. HIDE DEF Manners
  <2>. QED
    BY <1>2, <2>1, <2>2, <2>3, <2>4, <2>5 DEF Main
<1>3. ASSUME NEW n \in Node, JoinCall(n) \/ LoseJoin(n) PROVE Manners'
  BY <1>3 DEF JoinCall, ReadPoolAndStore, Gossip, GossipOver, LoseJoin
<1>4. ASSUME NEW n \in Node, NEW m \in Node, LoseLink(n, m) PROVE Manners'
  BY <1>4 DEF LoseLink
<1>5. ASSUME NEW m \in Node, NEW n \in Node, ConnMake(m, n) \/ LoseDial(m, n) PROVE Manners'
  BY <1>5 DEF ConnMake, AlreadyPooled, Connect, StoreChannel, Unreachable, LoseDial, DialOver
<1>6. ASSUME NEW n \in Node, NEW m \in Node, Leave(n) \/ RemoveNode(n, m) \/ LoseGoodbye(n, m)
      PROVE  Manners'
  BY <1>6 DEF Leave, RemoveNode, LoseGoodbye
<1>7. ASSUME NEW w \in Write, WriteStep(w) PROVE Manners'
  <2>1. ASSUME BeginWrite(w) PROVE Manners'
    BY <2>1 DEF BeginWrite
  <2>2. ASSUME FanOut(w) PROVE Manners'
    BY <2>2 DEF FanOut
  <2>3. ASSUME NEW m \in Node, ServeWrite(w, m) PROVE Manners'
    BY <2>3 DEF ServeWrite
  <2>4. ASSUME NEW m \in Node, MissWrite(w, m) PROVE Manners'
    BY <2>4 DEF MissWrite
  <2>. HIDE DEF Manners
  <2>. QED
    BY <1>7, <2>1, <2>2, <2>3, <2>4 DEF WriteStep
<1>8. CASE RepairStep \/ UNCHANGED vars
  <2>1. UNCHANGED <<procVars, handler, met, begun>> /\ \A n \in Node : holds[n] \subseteq holds'[n]
    BY <1>8, RepairKeeps DEF RepairStep, BeginRepair, RepairDial, RepairStoresChannel, RepairServed,
                             vars
  <2>. QED
    BY <2>1
<1>. HIDE DEF Wellformed, Manners
<1>. QED
  BY <1>1, <1>2, <1>3, <1>4, <1>5, <1>6, <1>7, <1>8, Steps, MannersEnd

\* No step makes a cluster reliable again.
LEMMA ReliableBefore == ASSUME Wellformed, [Next]_vars PROVE reliable' => reliable
<1>1. reliable' \in {reliable, FALSE} \/ \E n \in Node : Start(n)
  BY ZenonT(30) DEF Next, ChangeStep, Main, JoinCall, Shutdown, ConnMake, WriteStep, RepairStep, Loss, AtRest,
         Leave, Crash, ReachSeed, MissSeed, JoinAnswered, JoinFails, Link, Joined,
         ReadPoolAndStore, Gossip, GossipOver, AlreadyPooled, Connect, StoreChannel, Unreachable,
         Exit, RemoveNode, BeginWrite, FanOut, ServeWrite, MissWrite, BeginRepair, RepairDial,
         RepairStoresChannel, RepairServed, LoseJoin, LoseDial, LoseLink, LoseGoodbye,
         Alone, Lose, Unreliable, DialOver, historyVars, vars
<1>. QED
  BY <1>1 DEF Start

JoinsInv(root) == Manners /\ (reliable => Dependable(root))

LEMMA JoinsAlways ==
    ASSUME NEW root, OneSeed(root)
    PROVE  Spec => []JoinsInv(root)
<1>1. Init => JoinsInv(root)
  BY DEF Init, JoinsInv, Manners, CallersServed, MetReady, WritersReady, Dependable, RootKnows,
         RootKnown, MetAcquainted, RootHolds, Carried, RootFirst, Listed, Presented, Introduced,
         Acquainted, Up, OneSeed
<1>2. Wellformed /\ JoinsInv(root) /\ [Next]_vars => JoinsInv(root)'
  <2>. SUFFICES ASSUME Wellformed, Manners, reliable => Dependable(root), [Next]_vars
                PROVE  Manners' /\ (reliable' => Dependable(root)')
    BY DEF JoinsInv
  <2>1. Manners'
    BY MannersNext
  <2>2. ASSUME reliable' PROVE Dependable(root)'
    <3>1. Dependable(root)
      BY <2>2, ReliableBefore
    <3>. QED
      BY <2>2, <3>1, Steps, JoinsMain, JoinsCall, JoinsConnect, JoinsLeave, JoinsWrite, JoinsRepair
  <2>. QED
    BY <2>1, <2>2
<1>. QED
  BY <1>1, <1>2, WellformedAlways, PTL DEF Spec

-----------------------------------------------------------------------------
(***************************************************************************)
(* However joins and leaves overlap, a node that is ready and the nodes    *)
(* that were ready when it started have each other in their pools, in      *)
(* every cluster with one seed, of any size, in which nothing has failed.  *)
(***************************************************************************)
THEOREM KnowsThoseBeforeHolds ==
    ASSUME NEW root \in Node,
           Seed = [n \in Node |-> IF n = root THEN None ELSE root]
    PROVE  Spec => []KnowsThoseBefore
<1>1. OneSeed(root)
  BY DEF OneSeed
<1>2. Wellformed /\ JoinsInv(root) => KnowsThoseBefore
  <2>. SUFFICES ASSUME Wellformed, JoinsInv(root), reliable,
                       NEW n \in Ready \ leaving, NEW m \in met[n] \ leaving
                PROVE  m \in pool[n] /\ n \in pool[m]
    BY DEF KnowsThoseBefore
  <2>1. /\ n \in Node /\ stage[n] = "ready" /\ Listed(n) /\ Presented(n) /\ Introduced(n)
        /\ m \in Node /\ stage[m] = "ready" /\ Up(m) /\ Dependable(root)
    BY DEF Ready, JoinsInv, Manners, MetReady, Listed, Presented, Introduced, Wellformed, TypeOK, Up
  <2>2. n # root
    BY <2>1 DEF Dependable, RootFirst
  <2>3. CASE m = root
    BY <1>1, <2>1, <2>2, <2>3 DEF Dependable, RootKnows, RootKnown
  <2>4. CASE m # root
    BY <2>1, <2>4 DEF Dependable, MetAcquainted, Acquainted
  <2>. QED
    BY <2>3, <2>4
<1>. QED
  BY <1>1, <1>2, JoinsAlways, WellformedAlways, PTL

(***************************************************************************)
(* A node is ready with every write that was over when it started, in      *)
(* every cluster with one seed in which nothing has failed.                *)
(***************************************************************************)
THEOREM JoinBringsSettledWritesHolds ==
    ASSUME NEW root \in Node,
           Seed = [n \in Node |-> IF n = root THEN None ELSE root]
    PROVE  Spec => []JoinBringsSettledWrites
<1>1. OneSeed(root)
  BY DEF OneSeed
<1>2. JoinsInv(root) => JoinBringsSettledWrites
  BY DEF JoinsInv, Dependable, Carried, JoinBringsSettledWrites, Ready, Listed, Presented, Introduced
<1>. QED
  BY <1>1, <1>2, JoinsAlways, PTL

=============================================================================
