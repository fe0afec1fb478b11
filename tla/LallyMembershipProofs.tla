------------------------ MODULE LallyMembershipProofs ------------------------
(***************************************************************************)
(* Proofs of the safety properties of LallyMembership, for any number of   *)
(* nodes, clients and writes, and any bound on failures and repairs.       *)
(***************************************************************************)
EXTENDS LallyMembership, TLAPS

-----------------------------------------------------------------------------
(***************************************************************************)
(* Type correctness                                                        *)
(***************************************************************************)
\* Only a node with a seed joins.
JoinersHaveSeeds == \A n \in Node : Joining(n) => Seed[n] \in Node

Wellformed == TypeOK /\ JoinersHaveSeeds

LEMMA Bounds == MaxEvents \in Nat /\ MaxRepairs \in Nat
BY MembershipAssumption

LEMMA WellformedInit == Init => Wellformed
BY Bounds, MembershipAssumption
   DEF Init, Wellformed, TypeOK, JoinersHaveSeeds, Joining, Stage, Handler, Dial

\* The main task of a node.
LEMMA WellformedMain ==
    ASSUME Wellformed, NEW n \in Node, Start(n) \/ Main(n)
    PROVE  Wellformed'
<1>. USE MembershipAssumption
     DEF Wellformed, TypeOK, JoinersHaveSeeds, Joining, Stage, Handler,
         procVars, joinVars, writeVars, repairVars, historyVars
<1>1. ASSUME Start(n) PROVE Wellformed'
  <2>1. serial' \in BOOLEAN /\ reliable' \in BOOLEAN
    BY <1>1 DEF Start
  <2>. QED
    BY <1>1, <2>1 DEF Start, Ready
<1>2. ASSUME ReachSeed(n) PROVE Wellformed'
  BY <1>2 DEF ReachSeed
<1>3. ASSUME MissSeed(n) PROVE Wellformed'
  <2>1. serial' \in BOOLEAN /\ reliable' \in BOOLEAN
    BY <1>3 DEF MissSeed, Alone, Unreliable
  <2>. QED
    BY <1>3, <2>1 DEF MissSeed, Alone, Unreliable
<1>4. ASSUME JoinAnswered(n) PROVE Wellformed'
  BY <1>4 DEF JoinAnswered
<1>5. ASSUME JoinFails(n) PROVE Wellformed'
  <2>1. serial' \in BOOLEAN /\ reliable' \in BOOLEAN
    BY <1>5 DEF JoinFails, Alone, Unreliable
  <2>. QED
    BY <1>5, <2>1 DEF JoinFails, Alone, Unreliable
<1>6. ASSUME NEW m \in Node, Link(n, m) PROVE Wellformed'
  BY <1>6 DEF Link
<1>7. ASSUME Joined(n) PROVE Wellformed'
  BY <1>7 DEF Joined
<1>. HIDE DEF Wellformed
<1>. QED
  BY <1>1, <1>2, <1>3, <1>4, <1>5, <1>6, <1>7 DEF Main

\* The handler of a join, and the connections it asks for.
LEMMA WellformedJoinCall ==
    ASSUME Wellformed, NEW n \in Node, JoinCall(n) \/ LoseJoin(n)
    PROVE  Wellformed'
<1>. USE MembershipAssumption, Bounds
     DEF Wellformed, TypeOK, JoinersHaveSeeds, Joining, Stage, Handler, Dial,
         procVars, joinVars, writeVars, repairVars, historyVars
<1>1. ASSUME ReadPoolAndStore(n) PROVE Wellformed'
  BY <1>1 DEF ReadPoolAndStore, Addrs
<1>2. ASSUME Gossip(n) PROVE Wellformed'
  BY <1>2 DEF Gossip
<1>3. ASSUME GossipOver(n) PROVE Wellformed'
  BY <1>3 DEF GossipOver
<1>4. ASSUME LoseJoin(n) PROVE Wellformed'
  <2>1. serial' \in BOOLEAN /\ reliable' \in BOOLEAN
    BY <1>4 DEF LoseJoin, Lose, Unreliable
  <2>. QED
    BY <1>4, <2>1 DEF LoseJoin, Lose, Unreliable
<1>. HIDE DEF Wellformed
<1>. QED
  BY <1>1, <1>2, <1>3, <1>4 DEF JoinCall

LEMMA WellformedConnMake ==
    ASSUME Wellformed, NEW m \in Node, NEW n \in Node, ConnMake(m, n) \/ LoseDial(m, n)
    PROVE  Wellformed'
<1>. USE MembershipAssumption, Bounds
     DEF Wellformed, TypeOK, JoinersHaveSeeds, Joining, Handler, Dial, DialOver,
         procVars, joinVars, writeVars, repairVars, historyVars
<1>1. ASSUME AlreadyPooled(m, n) PROVE Wellformed'
  BY <1>1 DEF AlreadyPooled
<1>2. ASSUME Connect(m, n) PROVE Wellformed'
  BY <1>2 DEF Connect
<1>3. ASSUME StoreChannel(m, n) PROVE Wellformed'
  BY <1>3 DEF StoreChannel
<1>4. ASSUME Unreachable(m, n) PROVE Wellformed'
  BY <1>4 DEF Unreachable
<1>5. ASSUME LoseDial(m, n) PROVE Wellformed'
  <2>1. serial' \in BOOLEAN /\ reliable' \in BOOLEAN
    BY <1>5 DEF LoseDial, Lose, Unreliable
  <2>. QED
    BY <1>5, <2>1 DEF LoseDial, Lose, Unreliable
<1>. HIDE DEF Wellformed
<1>. QED
  BY <1>1, <1>2, <1>3, <1>4, <1>5 DEF ConnMake

\* Leaving, and a connection of a join that fails.
LEMMA WellformedLeave ==
    ASSUME Wellformed, NEW n \in Node, NEW m \in Node,
           Leave(n) \/ RemoveNode(n, m) \/ LoseGoodbye(n, m) \/ LoseLink(n, m)
    PROVE  Wellformed'
<1>. USE MembershipAssumption, Bounds
     DEF Wellformed, TypeOK, JoinersHaveSeeds, Joining,
         procVars, joinVars, writeVars, repairVars, historyVars, Lose, Unreliable
<1>1. ASSUME Leave(n) PROVE Wellformed'
  <2>1. serial' \in BOOLEAN /\ reliable' \in BOOLEAN
    BY <1>1 DEF Leave
  <2>. QED
    BY <1>1, <2>1 DEF Leave
<1>2. ASSUME RemoveNode(n, m) PROVE Wellformed'
  BY <1>2 DEF RemoveNode, Removed
<1>3. ASSUME LoseGoodbye(n, m) PROVE Wellformed'
  <2>1. serial' \in BOOLEAN /\ reliable' \in BOOLEAN
    BY <1>3 DEF LoseGoodbye
  <2>. QED
    BY <1>3, <2>1 DEF LoseGoodbye
<1>4. ASSUME LoseLink(n, m) PROVE Wellformed'
  <2>1. serial' \in BOOLEAN /\ reliable' \in BOOLEAN
    BY <1>4 DEF LoseLink
  <2>. QED
    BY <1>4, <2>1 DEF LoseLink
<1>. HIDE DEF Wellformed
<1>. QED
  BY <1>1, <1>2, <1>3, <1>4

\* The end of a process.
LEMMA WellformedEnd ==
    ASSUME Wellformed, NEW n \in Node, Exit(n) \/ Crash(n)
    PROVE  Wellformed'
<1>. USE DEF Wellformed, TypeOK, JoinersHaveSeeds, Joining
<1>1. End(n)
  BY DEF Exit, Crash
<1>2. handler' \in [Node -> Handler]
  BY <1>1 DEF End, Handler
<1>3. \A j \in Node : handler'[j] # "none" => stage'[j] = "ask"
  BY <1>1 DEF End, Stage, Handler
<1>4. dial' \in [Node -> [Node -> Dial]] /\ repair' \in Repair \cup {None}
  BY <1>1 DEF End, Dial
<1>5. events' \in 0..MaxEvents
  BY Bounds DEF Exit, Crash
<1>6. serial' \in BOOLEAN /\ reliable' \in BOOLEAN
  BY <1>1 DEF End, Exit, Crash
<1>7. /\ holds' \in [Node -> SUBSET Write]
      /\ begun' \in SUBSET Write
      /\ sent' \in SUBSET Write
      /\ recalled' \in SUBSET Node
  BY <1>1 DEF End
<1>8. /\ stage' \in [Node -> Stage]
      /\ met' \in [Node -> SUBSET Node]
      /\ settled' \in [Node -> SUBSET Write]
      /\ JoinersHaveSeeds'
  BY <1>1 DEF End, Stage
<1>. QED
  BY <1>1, <1>2, <1>3, <1>4, <1>5, <1>6, <1>7, <1>8 DEF End

\* Writes and read repairs.
LEMMA WellformedWrite ==
    ASSUME Wellformed, NEW w \in Write, WriteStep(w)
    PROVE  Wellformed'
<1>. USE MembershipAssumption, Bounds
     DEF Wellformed, TypeOK, JoinersHaveSeeds, Joining,
         procVars, joinVars, repairVars, historyVars
<1>1. ASSUME BeginWrite(w) PROVE Wellformed'
  BY <1>1 DEF BeginWrite
<1>2. ASSUME FanOut(w) PROVE Wellformed'
  BY <1>2 DEF FanOut
<1>3. ASSUME NEW m \in Node, ServeWrite(w, m) PROVE Wellformed'
  BY <1>3 DEF ServeWrite
<1>4. ASSUME NEW m \in Node, MissWrite(w, m) PROVE Wellformed'
  BY <1>4 DEF MissWrite
<1>. HIDE DEF Wellformed
<1>. QED
  BY <1>1, <1>2, <1>3, <1>4 DEF WriteStep

LEMMA WellformedRepair ==
    ASSUME Wellformed, RepairStep
    PROVE  Wellformed'
<1>. USE MembershipAssumption, Bounds
     DEF Wellformed, TypeOK, JoinersHaveSeeds, Joining, Repair,
         procVars, joinVars, writeVars, historyVars
<1>1. ASSUME NEW m \in Node, NEW n \in Node, NEW w \in Write, BeginRepair(m, n, w)
      PROVE  Wellformed'
  <2>1. serial' \in BOOLEAN /\ reliable' \in BOOLEAN
    BY <1>1 DEF BeginRepair
  <2>. QED
    BY <1>1, <2>1 DEF BeginRepair
<1>2. ASSUME RepairDial PROVE Wellformed'
  BY <1>2 DEF RepairDial
<1>3. ASSUME RepairStoresChannel PROVE Wellformed'
  <2>1. repair \in Repair /\ repair.by \in Node /\ repair.of \in Node
    BY <1>3 DEF RepairStoresChannel
  <2>2. repair' \in Repair
    BY <1>3, <2>1 DEF RepairStoresChannel
  <2>. HIDE DEF Repair
  <2>. QED
    BY <1>3, <2>1, <2>2 DEF RepairStoresChannel
<1>4. ASSUME RepairServed PROVE Wellformed'
  <2>1. repair \in Repair /\ repair.of \in Node /\ repair.write \in Write
    BY <1>4 DEF RepairServed
  <2>2. holds \in [Node -> SUBSET Write]
    OBVIOUS
  <2>3. \/ holds' = [holds EXCEPT ![repair.of] = @ \cup {repair.write}]
        \/ holds' = holds
    BY <1>4 DEF RepairServed
  <2>4. holds' \in [Node -> SUBSET Write]
    BY ONLY <2>1, <2>2, <2>3
  <2>. HIDE DEF Repair
  <2>. QED
    BY <1>4, <2>4 DEF RepairServed
<1>. HIDE DEF Wellformed
<1>. QED
  BY <1>1, <1>2, <1>3, <1>4 DEF RepairStep

\* The steps of the system, by the part that takes them.
LEMMA Steps ==
    ASSUME [Next]_vars
    PROVE  \/ \E n \in Node : \/ Start(n) \/ Main(n)
                              \/ JoinCall(n) \/ LoseJoin(n)
                              \/ Exit(n) \/ Crash(n)
           \/ \E m, n \in Node : \/ ConnMake(m, n) \/ LoseDial(m, n)
                                 \/ Leave(n) \/ RemoveNode(n, m)
                                 \/ LoseGoodbye(n, m) \/ LoseLink(n, m)
           \/ \E w \in Write : WriteStep(w)
           \/ RepairStep
           \/ UNCHANGED vars
BY DEF Next, ChangeStep, Shutdown, Loss, AtRest

LEMMA WellformedNext == Wellformed /\ [Next]_vars => Wellformed'
<1>. SUFFICES ASSUME Wellformed, [Next]_vars PROVE Wellformed'
  OBVIOUS
<1>1. CASE UNCHANGED vars
  BY <1>1 DEF Wellformed, TypeOK, JoinersHaveSeeds, Joining,
              vars, procVars, joinVars, writeVars, repairVars, historyVars
<1>. QED
  BY <1>1, Steps, WellformedMain, WellformedJoinCall, WellformedConnMake, WellformedLeave,
     WellformedEnd, WellformedWrite, WellformedRepair

LEMMA WellformedAlways == Spec => []Wellformed
BY WellformedInit, WellformedNext, PTL DEF Spec

(***************************************************************************)
(* Every reachable state is type correct, whatever the seeds and the       *)
(* clients are: a join has a handler only while its caller waits for it, a *)
(* goodbye is only outstanding while its node leaves.                      *)
(***************************************************************************)
THEOREM TypeCorrect == Spec => []TypeOK
<1>1. Wellformed => TypeOK
  BY DEF Wellformed
<1>. QED
  BY <1>1, WellformedAlways, PTL

-----------------------------------------------------------------------------
(***************************************************************************)
(* Where the address of a node can be                                      *)
(***************************************************************************)
\* The seed of n has not called anybody on behalf of n.
Fresh(n) == stage[n] \in {"down", "seed"} \/ handler[n] \in {"asked", "read"}

\* No chain of seeds leads back to its start.
Ranked(rank) ==
    /\ rank \in [Node -> Nat]
    /\ \A n \in Node : Seed[n] # None => rank[Seed[n]] < rank[n]

(***************************************************************************)
(* Nobody but its descendants, the nodes that join through it or through a *)
(* descendant of it, can know a node that nobody remembered from a former  *)
(* process and for which its seed has not called anybody yet.              *)
(***************************************************************************)
AddressesDescend(rank) ==
    \A n \in Node \ recalled :
       /\ ~Remembers(n, n)
       /\ Fresh(n) => \A m \in Node : Remembers(m, n) => rank[n] < rank[m]

\* What m may learn in a step that ends no process.
Learns(rank, m, n) ==
    Remembers(m, n)' => \/ Remembers(m, n)
                        \/ n \in recalled
                        \/ m # n /\ (Fresh(n)' => rank[n] < rank[m])

LEMMA DescendKept ==
    ASSUME NEW rank, AddressesDescend(rank),
           recalled' = recalled,
           \A n \in Node : Fresh(n)' => Fresh(n),
           \A m, n \in Node : Learns(rank, m, n)
    PROVE  AddressesDescend(rank)'
<1>. SUFFICES ASSUME NEW n \in Node, n \notin recalled
              PROVE  /\ ~Remembers(n, n)'
                     /\ Fresh(n)' => \A m \in Node : Remembers(m, n)' => rank[n] < rank[m]
  BY DEF AddressesDescend
<1>. QED
  BY DEF AddressesDescend, Learns

\* Steps of a node's own main task.
LEMMA DescendMain ==
    ASSUME NEW rank, Ranked(rank), Wellformed, AddressesDescend(rank),
           NEW n \in Node, Start(n) \/ Main(n)
    PROVE  AddressesDescend(rank)'
<1>. USE MembershipAssumption
     DEF TypeOK, Stage, Handler, Remembers, Fresh, Learns,
         procVars, joinVars, writeVars, repairVars, historyVars
<1>0. TypeOK /\ JoinersHaveSeeds
  BY DEF Wellformed
<1>1. ASSUME Start(n) PROVE AddressesDescend(rank)'
  <2>1. /\ recalled' = recalled
        /\ \A k \in Node : Fresh(k)' => Fresh(k)
        /\ \A m, k \in Node : Learns(rank, m, k)
    BY <1>0, <1>1 DEF Start
  <2>. QED
    BY <2>1, DescendKept
<1>2. ASSUME ReachSeed(n) PROVE AddressesDescend(rank)'
  <2>1. Seed[n] \in Node /\ Seed[n] # n /\ rank[Seed[n]] < rank[n]
    BY <1>0, <1>2 DEF ReachSeed, JoinersHaveSeeds, Joining, Ranked
  <2>2. /\ recalled' = recalled
        /\ \A k \in Node : Fresh(k)' => Fresh(k)
        /\ \A m, k \in Node : Learns(rank, m, k)
    BY <1>0, <1>2, <2>1 DEF ReachSeed
  <2>. QED
    BY <2>2, DescendKept
<1>3. ASSUME MissSeed(n) \/ JoinAnswered(n) \/ JoinFails(n) \/ Joined(n)
      PROVE  AddressesDescend(rank)'
  <2>1. recalled' = recalled /\ \A k \in Node : Fresh(k)' => Fresh(k)
    BY <1>0, <1>3 DEF MissSeed, JoinAnswered, JoinFails, Joined, Alone, Unreliable
  <2>2. CASE MissSeed(n) \/ JoinAnswered(n) \/ JoinFails(n)
    <3>1. /\ <<pool, reached, dial, repair>>' = <<pool, reached, dial, repair>>
          /\ \A m \in Node : offered'[m] \subseteq offered[m]
      BY <1>0, <2>2 DEF MissSeed, JoinAnswered, JoinFails
    <3>2. \A m, k \in Node : Learns(rank, m, k)
      BY <3>1
    <3>. QED
      BY <2>1, <3>2, DescendKept
  <2>3. CASE Joined(n)
    <3>1. \A m, k \in Node : Learns(rank, m, k)
      BY <1>0, <2>3 DEF Joined
    <3>. QED
      BY <2>1, <3>1, DescendKept
  <2>. QED
    BY <1>3, <2>2, <2>3
<1>4. ASSUME NEW o \in Node, Link(n, o) PROVE AddressesDescend(rank)'
  <2>1. /\ recalled' = recalled
        /\ \A k \in Node : Fresh(k)' => Fresh(k)
        /\ \A m, k \in Node : Learns(rank, m, k)
    BY <1>0, <1>4 DEF Link
  <2>. QED
    BY <2>1, DescendKept
<1>. QED
  BY <1>1, <1>2, <1>3, <1>4 DEF Main

\* The handler of a join at the seed.
LEMMA DescendJoinCall ==
    ASSUME NEW rank, Ranked(rank), Wellformed, AddressesDescend(rank),
           NEW n \in Node, JoinCall(n) \/ LoseJoin(n)
    PROVE  AddressesDescend(rank)'
<1>. USE MembershipAssumption
     DEF TypeOK, Stage, Handler, Dial, Remembers, Fresh, Learns,
         procVars, joinVars, writeVars, repairVars, historyVars
<1>1. TypeOK /\ JoinersHaveSeeds
  BY DEF Wellformed
<1>2. Seed[n] \in Node /\ Seed[n] # n /\ rank[Seed[n]] < rank[n]
  BY <1>1 DEF JoinersHaveSeeds, Joining, Ranked,
              JoinCall, LoseJoin, ReadPoolAndStore, Gossip, GossipOver
<1>3. rank \in [Node -> Nat]
  BY DEF Ranked
\* What the seed has in its pool it may offer, and call.
<1>4. \A k \in pool[Seed[n]] \ recalled : Fresh(k) => rank[k] < rank[n] /\ k # n
  <2>. HIDE DEF Fresh, Remembers
  <2>1. \A k \in pool[Seed[n]] : k \in Node /\ Remembers(Seed[n], k)
    BY <1>1, <1>2 DEF Remembers
  <2>2. \A k \in pool[Seed[n]] \ recalled : Fresh(k) => rank[k] < rank[Seed[n]]
    BY <1>2, <2>1 DEF AddressesDescend
  <2>. QED
    BY ONLY <1>2, <1>3, <2>1, <2>2, n \in Node
<1>5. ASSUME ReadPoolAndStore(n) PROVE AddressesDescend(rank)'
  <2>1. /\ recalled' = recalled
        /\ \A k \in Node : Fresh(k)' => Fresh(k)
        /\ \A m, k \in Node : Learns(rank, m, k)
    BY <1>1, <1>2, <1>4, <1>5 DEF ReadPoolAndStore, Addrs
  <2>. QED
    BY <2>1, DescendKept
<1>6. ASSUME Gossip(n) PROVE AddressesDescend(rank)'
  <2>1. /\ recalled' = recalled
        /\ ~Fresh(n)'
        /\ \A k \in Node : Fresh(k)' => Fresh(k)
    BY <1>1, <1>6, ZenonT(30) DEF Gossip
  <2>2. n \notin pool[Seed[n]] \/ n \in recalled
    BY <1>1, <1>4, <1>6 DEF Gossip
  <2>3. \A m, k \in Node : Learns(rank, m, k)
    BY <1>1, <1>6, <2>1, <2>2 DEF Gossip
  <2>. QED
    BY <2>1, <2>3, DescendKept
<1>7. ASSUME GossipOver(n) PROVE AddressesDescend(rank)'
  <2>1. /\ recalled' = recalled
        /\ ~Fresh(n)'
        /\ \A k \in Node : Fresh(k)' => Fresh(k)
    BY <1>1, <1>7, ZenonT(30) DEF GossipOver
  <2>2. \A m, k \in Node : Learns(rank, m, k)
    BY <1>1, <1>2, <1>7, <2>1 DEF GossipOver
  <2>. QED
    BY <2>1, <2>2, DescendKept
<1>8. ASSUME LoseJoin(n) PROVE AddressesDescend(rank)'
  <2>1. /\ recalled' = recalled
        /\ \A k \in Node : Fresh(k)' => Fresh(k)
        /\ \A m, k \in Node : Learns(rank, m, k)
    BY <1>1, <1>8 DEF LoseJoin, Lose, Unreliable
  <2>. QED
    BY <2>1, DescendKept
<1>. QED
  BY <1>5, <1>6, <1>7, <1>8 DEF JoinCall

\* Connections, goodbyes, writes and repairs move addresses, and learn none.
LEMMA DescendOther ==
    ASSUME NEW rank, Ranked(rank), Wellformed, AddressesDescend(rank),
           NEW m \in Node, NEW n \in Node,
           \/ ConnMake(m, n) \/ LoseDial(m, n)
           \/ Leave(n) \/ RemoveNode(n, m) \/ LoseGoodbye(n, m) \/ LoseLink(n, m)
    PROVE  AddressesDescend(rank)'
<1>. USE DEF TypeOK, Stage, Handler, Dial, Remembers, Fresh, Learns, DialOver,
             procVars, joinVars, writeVars, repairVars, historyVars
<1>1. TypeOK
  BY DEF Wellformed
<1>2. ASSUME AlreadyPooled(m, n) \/ Unreachable(m, n) \/ LoseDial(m, n)
      PROVE  AddressesDescend(rank)'
  <2>1. /\ <<pool, offered, reached, repair, recalled, stage>>'
             = <<pool, offered, reached, repair, recalled, stage>>
        /\ dial' = [dial EXCEPT ![m][n] = "none"]
        /\ \A k \in Node : handler'[k] \in {handler[k], "done", "failed"}
    BY <1>1, <1>2 DEF AlreadyPooled, Unreachable, LoseDial, Lose, Unreliable
  <2>2. /\ recalled' = recalled
        /\ \A k \in Node : Fresh(k)' => Fresh(k)
        /\ \A l, k \in Node : Learns(rank, l, k)
    BY <1>1, <2>1
  <2>. QED
    BY <2>2, DescendKept
<1>3. ASSUME Connect(m, n) PROVE AddressesDescend(rank)'
  <2>1. /\ recalled' = recalled
        /\ \A k \in Node : Fresh(k)' => Fresh(k)
        /\ \A l, k \in Node : Learns(rank, l, k)
    BY <1>1, <1>3 DEF Connect
  <2>. QED
    BY <2>1, DescendKept
<1>4. ASSUME StoreChannel(m, n) PROVE AddressesDescend(rank)'
  <2>1. /\ recalled' = recalled
        /\ \A k \in Node : Fresh(k)' => Fresh(k)
        /\ \A l, k \in Node : Learns(rank, l, k)
    BY <1>1, <1>4 DEF StoreChannel
  <2>. QED
    BY <2>1, DescendKept
<1>5. ASSUME Leave(n) \/ RemoveNode(n, m) \/ LoseGoodbye(n, m) \/ LoseLink(n, m)
      PROVE  AddressesDescend(rank)'
  <2>1. /\ <<stage, handler, reached, dial, repair, recalled>>'
             = <<stage, handler, reached, dial, repair, recalled>>
        /\ \A l \in Node : pool'[l] \subseteq pool[l] /\ offered'[l] \subseteq offered[l]
    <3>1. CASE Leave(n) \/ LoseGoodbye(n, m)
      BY <3>1 DEF Leave, LoseGoodbye, Unreliable
    <3>2. CASE RemoveNode(n, m)
      BY <1>1, <3>2 DEF RemoveNode, Removed
    <3>3. CASE LoseLink(n, m)
      BY <1>1, <3>3 DEF LoseLink, Lose, Unreliable
    <3>. QED
      BY <1>5, <3>1, <3>2, <3>3
  <2>2. /\ recalled' = recalled
        /\ \A k \in Node : Fresh(k)' => Fresh(k)
        /\ \A l, k \in Node : Learns(rank, l, k)
    BY <2>1
  <2>. QED
    BY <2>2, DescendKept
<1>. QED
  BY <1>2, <1>3, <1>4, <1>5 DEF ConnMake

LEMMA DescendWork ==
    ASSUME NEW rank, Ranked(rank), Wellformed, AddressesDescend(rank),
           RepairStep \/ (\E w \in Write : WriteStep(w)) \/ UNCHANGED vars
    PROVE  AddressesDescend(rank)'
<1>. USE MembershipAssumption
     DEF TypeOK, Stage, Handler, Remembers, Fresh, Learns, Repair,
         procVars, joinVars, writeVars, repairVars, historyVars
<1>1. TypeOK
  BY DEF Wellformed
<1>2. ASSUME NEW m \in Node, NEW n \in Node, NEW w \in Write, BeginRepair(m, n, w)
      PROVE  AddressesDescend(rank)'
  <2>1. /\ recalled' = recalled
        /\ \A k \in Node : Fresh(k)' => Fresh(k)
        /\ \A l, k \in Node : Learns(rank, l, k)
    BY <1>1, <1>2 DEF BeginRepair
  <2>. QED
    BY <2>1, DescendKept
<1>3. ASSUME RepairDial \/ RepairStoresChannel \/ RepairServed
      PROVE  AddressesDescend(rank)'
  <2>1. /\ recalled' = recalled
        /\ \A k \in Node : Fresh(k)' => Fresh(k)
        /\ \A l, k \in Node : Learns(rank, l, k)
    BY <1>1, <1>3 DEF RepairDial, RepairStoresChannel, RepairServed
  <2>. QED
    BY <2>1, DescendKept
<1>4. ASSUME (\E w \in Write : WriteStep(w)) \/ UNCHANGED vars
      PROVE  AddressesDescend(rank)'
  <2>1. /\ recalled' = recalled
        /\ \A k \in Node : Fresh(k)' => Fresh(k)
        /\ \A l, k \in Node : Learns(rank, l, k)
    BY <1>4 DEF WriteStep, BeginWrite, FanOut, ServeWrite, MissWrite, vars
  <2>. QED
    BY <2>1, DescendKept
<1>. QED
  BY <1>2, <1>3, <1>4 DEF RepairStep

(***************************************************************************)
(* A process that ends forgets everything; it is recalled if another one   *)
(* remembers it, and fresh otherwise.                                      *)
(***************************************************************************)
LEMMA DescendEnd ==
    ASSUME NEW rank, Wellformed, AddressesDescend(rank),
           NEW n \in Node, Exit(n) \/ Crash(n)
    PROVE  AddressesDescend(rank)'
<1>1. TypeOK
  BY DEF Wellformed
<1>2. End(n)
  BY DEF Exit, Crash
<1>3. recalled \subseteq recalled'
  BY <1>2 DEF End
<1>4. \A m, k \in Node : Remembers(m, k)' => m # n /\ Remembers(m, k)
  BY <1>1, <1>2, MembershipAssumption DEF End, Remembers, TypeOK, Repair
<1>5. \A k \in Node \ {n} : Fresh(k)' => Fresh(k)
  BY <1>1, <1>2 DEF End, Fresh, TypeOK
<1>6. n \notin recalled' => \A m \in Node : ~Remembers(m, n)'
  BY <1>2, <1>4 DEF End
<1>. QED
  BY <1>3, <1>4, <1>5, <1>6 DEF AddressesDescend

LEMMA DescendAlways ==
    ASSUME NEW rank, Ranked(rank)
    PROVE  Spec => []AddressesDescend(rank)
<1>1. Init => AddressesDescend(rank)
  BY DEF Init, AddressesDescend, Remembers
<1>2. Wellformed /\ AddressesDescend(rank) /\ [Next]_vars => AddressesDescend(rank)'
  BY Steps, DescendMain, DescendJoinCall, DescendOther, DescendWork, DescendEnd
<1>. QED
  BY <1>1, <1>2, WellformedAlways, PTL DEF Spec

(***************************************************************************)
(* A node is in its own pool only if it was still known somewhere when it  *)
(* ended, in every cluster whose chains of seeds end: neither the list its *)
(* seed answers nor the gossip about it names it, however the joins of     *)
(* nodes that are each other's seeds overlap, and whatever fails.          *)
(***************************************************************************)
THEOREM OwnPeerOnlyIfRecalledHolds ==
    ASSUME NEW rank \in [Node -> Nat],
           \A n \in Node : Seed[n] # None => rank[Seed[n]] < rank[n]
    PROVE  Spec => []OwnPeerOnlyIfRecalled
<1>1. Ranked(rank)
  BY DEF Ranked
<1>2. AddressesDescend(rank) => OwnPeerOnlyIfRecalled
  BY DEF AddressesDescend, OwnPeerOnlyIfRecalled, Remembers
<1>. QED
  BY <1>1, <1>2, DescendAlways, PTL

-----------------------------------------------------------------------------
(***************************************************************************)
(* The inductive invariant of clusters whose changes do not overlap        *)
(***************************************************************************)
\* One node joins or one leaves, and no repair is under way while one leaves.
OneChange ==
    /\ \A a, b \in Node : Joining(a) /\ Joining(b) => a = b
    /\ \A a, b \in leaving : a = b
    /\ leaving # {} => repair = None /\ \A a \in Node : ~Joining(a)

\* Pools hold running nodes, never their own; a node joins with its seed in its pool.
PoolsOfRunning ==
    \A m \in Node :
       /\ \A k \in pool[m] : Up(k) /\ k # m
       /\ stage[m] \in {"down", "seed"} => pool[m] = {}
       /\ stage[m] \in {"ask", "link"} => pool[m] = {Seed[m]} /\ Seed[m] \in Ready
       /\ stage[m] # "link" => reached[m] = {}

ReadyAcquainted == \A m, k \in Ready : k = m \/ k \in leaving \/ k \in pool[m]

\* A node that has taken leave of m is not in the pool of m.
TakenLeave == \A k \in leaving : \A m \in Node : m \in goodbye[k] \/ k \notin pool[m]

\* A repair is of a node in the pool.
RepairsKnown == repair # None => repair.of \in pool[repair.by]

\* Calls to connect to a newcomer run while its gossip does, or, at its seed, after it.
DialsWanted ==
    \A m, n \in Node : dial[m][n] # "none" =>
       /\ m \in Ready
       /\ \/ handler[n] = "gossip" /\ m # Seed[n]
          \/ handler[n] = "connect" /\ m = Seed[n]

\* How far the newcomer n has come with the others.
Newcomer(n) ==
    LET others == Ready \ {Seed[n]}
    IN  /\ (stage[n] = "seed" \/ handler[n] \in {"asked", "read"}) =>
               \A m \in Node : n \notin pool[m]
        /\ handler[n] \in {"read", "gossip", "connect", "done"} => offered[n] = others
        /\ stage[n] = "link" => offered[n] \cup reached[n] = others
        /\ handler[n] = "gossip" => \A m \in others : n \in pool[m] \/ dial[m][n] # "none"
        /\ (handler[n] \in {"connect", "done"} \/ stage[n] = "link") =>
               \A m \in others : n \in pool[m]
        /\ handler[n] = "connect" => n \in pool[Seed[n]] \/ dial[Seed[n]][n] # "none"
        /\ (handler[n] = "done" \/ stage[n] = "link") => n \in pool[Seed[n]]

Orderly == /\ OneChange
           /\ PoolsOfRunning
           /\ ReadyAcquainted
           /\ TakenLeave
           /\ RepairsKnown
           /\ DialsWanted
           /\ \A n \in Node : Joining(n) => Newcomer(n)

-----------------------------------------------------------------------------
\* The main task.
LEMMA OrderlyMain ==
    ASSUME Wellformed, Orderly, serial', reliable',
           NEW n \in Node, Start(n) \/ Main(n)
    PROVE  Orderly'
<1>. USE MembershipAssumption
     DEF Wellformed, TypeOK, JoinersHaveSeeds, Joining, Stage, Handler, Dial, Ready, Up,
         procVars, joinVars, writeVars, repairVars, historyVars
<1>1. ASSUME Start(n) PROVE Orderly'
  <2>1. ~Changing
    BY <1>1 DEF Start
  <2>2. Seed[n] = None => \A m \in Node : ~Up(m)
    BY <1>1 DEF Start
  <2>3. OneChange'
    BY <1>1, <2>1, <2>2 DEF Start, Changing, OneChange
  <2>4. PoolsOfRunning'
    BY <1>1, <2>1, <2>2 DEF Start, Changing, Orderly, PoolsOfRunning
  <2>5. ReadyAcquainted'
    BY <1>1, <2>1, <2>2 DEF Start, Changing, Orderly, ReadyAcquainted
  <2>6. DialsWanted'
    BY <1>1, <2>1, <2>2 DEF Start, Changing, Orderly, DialsWanted
  <2>7. (\A k \in Node : Joining(k) => Newcomer(k))'
    BY <1>1, <2>1, <2>2 DEF Start, Changing, Orderly, PoolsOfRunning, Newcomer
  <2>8. TakenLeave' /\ RepairsKnown'
    BY <1>1 DEF Start, Changing, TakenLeave, RepairsKnown
  <2>. QED
    BY <2>3, <2>4, <2>5, <2>6, <2>7, <2>8 DEF Orderly
<1>2. ASSUME ReachSeed(n) PROVE Orderly'
  <2>1. OneChange'
    BY <1>2 DEF ReachSeed, Orderly, OneChange
  <2>2. PoolsOfRunning'
    BY <1>2 DEF ReachSeed, Orderly, OneChange, PoolsOfRunning
  <2>3. ReadyAcquainted'
    BY <1>2 DEF ReachSeed, Orderly, ReadyAcquainted
  <2>4. TakenLeave'
    BY <1>2 DEF ReachSeed, Orderly, OneChange, TakenLeave
  <2>5. RepairsKnown'
    BY <1>2 DEF ReachSeed, Orderly, RepairsKnown
  <2>6. DialsWanted'
    BY <1>2, SMTT(30) DEF ReachSeed, Orderly, OneChange, PoolsOfRunning, RepairsKnown, DialsWanted
  <2>7. (\A k \in Node : Joining(k) => Newcomer(k))'
    BY <1>2 DEF ReachSeed, Orderly, OneChange, Newcomer
  <2>. QED
    BY <2>1, <2>2, <2>3, <2>4, <2>5, <2>6, <2>7 DEF Orderly
<1>3. ASSUME JoinAnswered(n) PROVE Orderly'
  <2>1. OneChange'
    BY <1>3 DEF JoinAnswered, Orderly, OneChange
  <2>2. PoolsOfRunning'
    BY <1>3 DEF JoinAnswered, Orderly, PoolsOfRunning
  <2>3. ReadyAcquainted'
    BY <1>3 DEF JoinAnswered, Orderly, ReadyAcquainted
  <2>4. DialsWanted'
    BY <1>3 DEF JoinAnswered, Orderly, DialsWanted
  <2>5. (\A k \in Node : Joining(k) => Newcomer(k))'
    BY <1>3 DEF JoinAnswered, Orderly, PoolsOfRunning, Newcomer
  <2>6. TakenLeave' /\ RepairsKnown'
    BY <1>3 DEF JoinAnswered, Orderly, TakenLeave, RepairsKnown
  <2>. QED
    BY <2>1, <2>2, <2>3, <2>4, <2>5, <2>6 DEF Orderly
<1>4. ASSUME NEW m \in Node, Link(n, m) PROVE Orderly'
  <2>1. PoolsOfRunning'
    BY <1>4 DEF Link, Orderly, PoolsOfRunning
  <2>2. (\A k \in Node : Joining(k) => Newcomer(k))'
    BY <1>4 DEF Link, Orderly, Newcomer
  <2>3. OneChange' /\ ReadyAcquainted' /\ TakenLeave' /\ RepairsKnown' /\ DialsWanted'
    BY <1>4 DEF Link, Orderly, OneChange, ReadyAcquainted, TakenLeave, RepairsKnown, DialsWanted
  <2>. QED
    BY <2>1, <2>2, <2>3 DEF Orderly
<1>5. ASSUME Joined(n) PROVE Orderly'
  <2>1. OneChange'
    BY <1>5 DEF Joined, Orderly, OneChange
  <2>2. PoolsOfRunning'
    BY <1>5 DEF Joined, Orderly, PoolsOfRunning, Newcomer
  <2>3. ReadyAcquainted'
    BY <1>5 DEF Joined, Orderly, PoolsOfRunning, ReadyAcquainted, Newcomer
  <2>4. TakenLeave'
    BY <1>5 DEF Joined, Orderly, OneChange, TakenLeave
  <2>5. RepairsKnown'
    BY <1>5 DEF Joined, Orderly, RepairsKnown
  <2>6. DialsWanted'
    BY <1>5 DEF Joined, Orderly, DialsWanted
  <2>7. (\A k \in Node : Joining(k) => Newcomer(k))'
    BY <1>5 DEF Joined, Orderly, OneChange
  <2>. QED
    BY <2>1, <2>2, <2>3, <2>4, <2>5, <2>6, <2>7 DEF Orderly
<1>6. ASSUME MissSeed(n) \/ JoinFails(n) PROVE Orderly'
  BY <1>6 DEF MissSeed, JoinFails, Alone, Unreliable
<1>. HIDE DEF Wellformed
<1>. QED
  BY <1>1, <1>2, <1>3, <1>4, <1>5, <1>6 DEF Main

\* The handler of the join.
LEMMA OrderlyJoinCall ==
    ASSUME Wellformed, Orderly, serial', reliable',
           NEW n \in Node, JoinCall(n) \/ LoseJoin(n)
    PROVE  Orderly'
<1>. USE MembershipAssumption
     DEF Wellformed, TypeOK, JoinersHaveSeeds, Joining, Stage, Handler, Dial, Ready, Up,
         procVars, joinVars, writeVars, repairVars, historyVars
<1>1. ASSUME ReadPoolAndStore(n) PROVE Orderly'
  <2>1. /\ handler[n] = "asked" /\ Joining(n) /\ leaving = {}
        /\ Seed[n] \in Node /\ Seed[n] \in Ready
        /\ \A k \in Node \ {n} : ~Joining(k)
    BY <1>1 DEF ReadPoolAndStore, Orderly, OneChange, PoolsOfRunning
  <2>2. n \notin pool[Seed[n]]
    BY <2>1 DEF Orderly, Newcomer
  <2>3. pool[Seed[n]] = Ready \ {Seed[n]}
    BY <2>1, <2>2, SMTT(30) DEF Orderly, PoolsOfRunning, ReadyAcquainted
  <2>7. DialsWanted'
    BY <1>1, <2>1, <2>2, <2>3 DEF ReadPoolAndStore, Addrs, Orderly, DialsWanted
  <2>8. (\A k \in Node : Joining(k) => Newcomer(k))'
    BY <1>1, <2>1, <2>2, <2>3 DEF ReadPoolAndStore, Addrs, Orderly, Newcomer
  <2>9. OneChange' /\ PoolsOfRunning' /\ ReadyAcquainted' /\ TakenLeave' /\ RepairsKnown'
    BY <1>1 DEF ReadPoolAndStore, Addrs, Orderly, OneChange, PoolsOfRunning, ReadyAcquainted,
                TakenLeave, RepairsKnown
  <2>. QED
    BY <2>7, <2>8, <2>9 DEF Orderly
<1>2. ASSUME Gossip(n) PROVE Orderly'
  <2>1. DialsWanted'
    BY <1>2 DEF Gossip, Orderly, OneChange, PoolsOfRunning, ReadyAcquainted, DialsWanted,
                Newcomer
  <2>2. (\A k \in Node : Joining(k) => Newcomer(k))'
    BY <1>2 DEF Gossip, Orderly, OneChange, PoolsOfRunning, ReadyAcquainted, Newcomer
  <2>3. OneChange' /\ PoolsOfRunning' /\ ReadyAcquainted' /\ TakenLeave' /\ RepairsKnown'
    BY <1>2 DEF Gossip, Orderly, OneChange, PoolsOfRunning, ReadyAcquainted, TakenLeave,
                RepairsKnown
  <2>. QED
    BY <2>1, <2>2, <2>3 DEF Orderly
<1>3. ASSUME GossipOver(n) PROVE Orderly'
  <2>1. DialsWanted'
    BY <1>3 DEF GossipOver, Orderly, PoolsOfRunning, DialsWanted
  <2>2. (\A k \in Node : Joining(k) => Newcomer(k))'
    BY <1>3 DEF GossipOver, Orderly, Newcomer
  <2>3. OneChange' /\ PoolsOfRunning' /\ ReadyAcquainted' /\ TakenLeave' /\ RepairsKnown'
    BY <1>3 DEF GossipOver, Orderly, OneChange, PoolsOfRunning, ReadyAcquainted, TakenLeave,
                RepairsKnown
  <2>. QED
    BY <2>1, <2>2, <2>3 DEF Orderly
<1>4. ASSUME LoseJoin(n) PROVE Orderly'
  BY <1>4 DEF LoseJoin, Lose, Unreliable
<1>. HIDE DEF Wellformed
<1>. QED
  BY <1>1, <1>2, <1>3, <1>4 DEF JoinCall

\* The connections it asks for.
LEMMA OrderlyConnMake ==
    ASSUME Wellformed, Orderly, serial', reliable',
           NEW m \in Node, NEW n \in Node, ConnMake(m, n) \/ LoseDial(m, n)
    PROVE  Orderly'
<1>. USE MembershipAssumption
     DEF Wellformed, TypeOK, JoinersHaveSeeds, Joining, Stage, Handler, Dial, Ready, Up,
         procVars, joinVars, writeVars, repairVars, historyVars
<1>1. ASSUME AlreadyPooled(m, n) PROVE Orderly'
  <2>1. DialsWanted'
    BY <1>1 DEF AlreadyPooled, DialOver, Orderly, DialsWanted
  <2>2. (\A k \in Node : Joining(k) => Newcomer(k))'
    BY <1>1 DEF AlreadyPooled, DialOver, Orderly, Newcomer
  <2>3. OneChange' /\ PoolsOfRunning' /\ ReadyAcquainted' /\ TakenLeave' /\ RepairsKnown'
    BY <1>1 DEF AlreadyPooled, DialOver, Orderly, OneChange, PoolsOfRunning, ReadyAcquainted,
                TakenLeave, RepairsKnown
  <2>. QED
    BY <2>1, <2>2, <2>3 DEF Orderly
<1>2. ASSUME Connect(m, n) PROVE Orderly'
  <2>1. DialsWanted'
    BY <1>2 DEF Connect, Orderly, DialsWanted
  <2>2. (\A k \in Node : Joining(k) => Newcomer(k))'
    BY <1>2 DEF Connect, Orderly, Newcomer
  <2>3. OneChange' /\ PoolsOfRunning' /\ ReadyAcquainted' /\ TakenLeave' /\ RepairsKnown'
    BY <1>2 DEF Connect, Orderly, OneChange, PoolsOfRunning, ReadyAcquainted, TakenLeave,
                RepairsKnown
  <2>. QED
    BY <2>1, <2>2, <2>3 DEF Orderly
<1>3. ASSUME StoreChannel(m, n) PROVE Orderly'
  <2>1. PoolsOfRunning'
    BY <1>3 DEF StoreChannel, DialOver, Orderly, PoolsOfRunning, DialsWanted
  <2>2. ReadyAcquainted'
    BY <1>3 DEF StoreChannel, DialOver, Orderly, ReadyAcquainted
  <2>3. TakenLeave'
    BY <1>3 DEF StoreChannel, DialOver, Orderly, OneChange, TakenLeave, DialsWanted
  <2>4. RepairsKnown'
    BY <1>3 DEF StoreChannel, DialOver, Orderly, RepairsKnown
  <2>5. DialsWanted'
    BY <1>3 DEF StoreChannel, DialOver, Orderly, DialsWanted
  <2>6. (\A k \in Node : Joining(k) => Newcomer(k))'
    BY <1>3 DEF StoreChannel, DialOver, Orderly, DialsWanted, Newcomer
  <2>7. OneChange'
    BY <1>3 DEF StoreChannel, DialOver, Orderly, OneChange
  <2>. QED
    BY <2>1, <2>2, <2>3, <2>4, <2>5, <2>6, <2>7 DEF Orderly
<1>4. ASSUME Unreachable(m, n) PROVE FALSE
  BY <1>4 DEF Unreachable, Orderly, DialsWanted
<1>5. ASSUME LoseDial(m, n) PROVE Orderly'
  BY <1>5 DEF LoseDial, Lose, Unreliable
<1>. HIDE DEF Wellformed
<1>. QED
  BY <1>1, <1>2, <1>3, <1>4, <1>5 DEF ConnMake

\* Leaving, and the end of a process.
LEMMA OrderlyLeave ==
    ASSUME Wellformed, Orderly, serial', reliable',
           NEW n \in Node, NEW m \in Node,
           \/ Leave(n) \/ RemoveNode(n, m) \/ LoseGoodbye(n, m) \/ LoseLink(n, m)
           \/ Exit(n) \/ Crash(n)
    PROVE  Orderly'
<1>. USE MembershipAssumption
     DEF Wellformed, TypeOK, JoinersHaveSeeds, Joining, Stage, Handler, Dial, Ready, Up,
         procVars, joinVars, writeVars, repairVars, historyVars
<1>1. ASSUME Leave(n) PROVE Orderly'
  <2>1. ~Changing
    BY <1>1 DEF Leave
  <2>2. OneChange'
    BY <1>1, <2>1 DEF Leave, Changing, OneChange
  <2>3. ReadyAcquainted'
    BY <1>1, <2>1 DEF Leave, Changing, Orderly, ReadyAcquainted
  <2>4. TakenLeave'
    BY <1>1, <2>1 DEF Leave, Changing, Orderly, PoolsOfRunning, ReadyAcquainted, TakenLeave
  <2>5. PoolsOfRunning' /\ RepairsKnown' /\ DialsWanted' /\ (\A k \in Node : Joining(k) => Newcomer(k))'
    BY <1>1 DEF Leave, Changing, Orderly, PoolsOfRunning, RepairsKnown, DialsWanted, Newcomer
  <2>. QED
    BY <2>2, <2>3, <2>4, <2>5 DEF Orderly
<1>2. ASSUME RemoveNode(n, m) PROVE Orderly'
  <2>1. n \in leaving /\ repair = None /\ \A a \in Node : ~Joining(a)
    BY <1>2 DEF RemoveNode, Orderly, OneChange
  <2>2. PoolsOfRunning'
    BY <1>2, <2>1 DEF RemoveNode, Removed, Orderly, PoolsOfRunning
  <2>3. ReadyAcquainted'
    BY <1>2, <2>1 DEF RemoveNode, Removed, Orderly, ReadyAcquainted
  <2>4. TakenLeave'
    BY <1>2, <2>1 DEF RemoveNode, Removed, Orderly, PoolsOfRunning, TakenLeave
  <2>5. RepairsKnown'
    BY <1>2, <2>1 DEF RemoveNode, Removed, RepairsKnown
  <2>6. (\A k \in Node : Joining(k) => Newcomer(k))'
    BY <1>2, <2>1 DEF RemoveNode, Removed
  <2>7. OneChange' /\ DialsWanted'
    BY <1>2 DEF RemoveNode, Removed, Orderly, OneChange, DialsWanted
  <2>. QED
    BY <2>2, <2>3, <2>4, <2>5, <2>6, <2>7 DEF Orderly
<1>3. ASSUME Exit(n) PROVE Orderly'
  <2>1. OneChange'
    BY <1>3 DEF Exit, End, Orderly, OneChange
  <2>2. PoolsOfRunning'
    BY <1>3 DEF Exit, End, Orderly, PoolsOfRunning, TakenLeave
  <2>3. ReadyAcquainted'
    BY <1>3 DEF Exit, End, Orderly, ReadyAcquainted
  <2>4. TakenLeave'
    BY <1>3 DEF Exit, End, Orderly, TakenLeave
  <2>5. RepairsKnown'
    BY <1>3 DEF Exit, End, Orderly, RepairsKnown
  <2>6. DialsWanted'
    BY <1>3 DEF Exit, End, Orderly, OneChange, DialsWanted
  <2>7. (\A k \in Node : Joining(k) => Newcomer(k))'
    BY <1>3 DEF Exit, End, Orderly, OneChange
  <2>. QED
    BY <2>1, <2>2, <2>3, <2>4, <2>5, <2>6, <2>7 DEF Orderly
<1>4. ASSUME LoseGoodbye(n, m) \/ LoseLink(n, m) \/ Crash(n) PROVE Orderly'
  BY <1>4 DEF LoseGoodbye, LoseLink, Crash, Lose, Unreliable
<1>. HIDE DEF Wellformed
<1>. QED
  BY <1>1, <1>2, <1>3, <1>4

\* Writes do not change the membership.
LEMMA OrderlyWrite ==
    ASSUME Wellformed, Orderly, serial', reliable',
           NEW w \in Write, WriteStep(w)
    PROVE  Orderly'
<1>. USE MembershipAssumption
     DEF Wellformed, TypeOK, JoinersHaveSeeds, Joining, Stage, Handler, Dial, Ready, Up,
         procVars, joinVars, writeVars, repairVars, historyVars
<1>1. UNCHANGED <<procVars, pool, joinVars, repair>>
  BY DEF WriteStep, BeginWrite, FanOut, ServeWrite, MissWrite
<1>. HIDE DEF Wellformed
<1>. QED
  BY <1>1 DEF Orderly, OneChange, PoolsOfRunning, ReadyAcquainted, TakenLeave, RepairsKnown,
              DialsWanted, Newcomer

\* Read repairs find the node they repair in the pool.
LEMMA OrderlyRepair ==
    ASSUME Wellformed, Orderly, serial', reliable',
           RepairStep \/ UNCHANGED vars
    PROVE  Orderly'
<1>. USE MembershipAssumption
     DEF Wellformed, TypeOK, JoinersHaveSeeds, Joining, Stage, Handler, Dial, Ready, Up,
         procVars, joinVars, writeVars, repairVars, historyVars
<1>1. ASSUME NEW m \in Node, NEW n \in Node, NEW w \in Write, BeginRepair(m, n, w) PROVE Orderly'
  <2>1. leaving = {}
    BY <1>1 DEF BeginRepair
  <2>2. OneChange'
    BY <1>1, <2>1 DEF BeginRepair, Orderly, OneChange
  <2>3. RepairsKnown'
    BY <1>1, <2>1 DEF BeginRepair, RepairsKnown
  <2>4. PoolsOfRunning' /\ ReadyAcquainted' /\ TakenLeave' /\ DialsWanted' /\ (\A k \in Node : Joining(k) => Newcomer(k))'
    BY <1>1 DEF BeginRepair, Orderly, PoolsOfRunning, ReadyAcquainted, TakenLeave, DialsWanted,
                Newcomer
  <2>. QED
    BY <2>2, <2>3, <2>4 DEF Orderly
<1>2. ASSUME RepairDial \/ RepairStoresChannel \/ RepairServed PROVE Orderly'
  <2>1. leaving = {} /\ repair # None /\ repair \in Repair /\ repair.of \in pool[repair.by]
    BY <1>2 DEF RepairDial, RepairStoresChannel, RepairServed, Orderly, OneChange, RepairsKnown
  <2>2. pool' = pool
    <3>1. CASE RepairStoresChannel
      BY <2>1, <3>1 DEF RepairStoresChannel, Repair
    <3>. QED
      BY <1>2, <3>1 DEF RepairDial, RepairServed
  <2>3. repair' # None => repair'.by = repair.by /\ repair'.of = repair.of
    <3>1. \/ repair' = None
          \/ repair' = [repair EXCEPT !.at = "call"]
          \/ repair' = [repair EXCEPT !.at = "connected"]
      BY <1>2 DEF RepairDial, RepairStoresChannel, RepairServed
    <3>. QED
      BY ONLY <2>1, <3>1 DEF Repair
  <2>4. UNCHANGED <<procVars, joinVars>>
    BY <1>2 DEF RepairDial, RepairStoresChannel, RepairServed
  <2>. QED
    BY <2>1, <2>2, <2>3, <2>4 DEF Orderly, OneChange, PoolsOfRunning, ReadyAcquainted,
                                  TakenLeave, RepairsKnown, DialsWanted, Newcomer
<1>3. CASE UNCHANGED vars
  BY <1>3 DEF vars, Orderly, OneChange, PoolsOfRunning, ReadyAcquainted, TakenLeave,
              RepairsKnown, DialsWanted, Newcomer
<1>. HIDE DEF Wellformed
<1>. QED
  BY <1>1, <1>2, <1>3 DEF RepairStep

\* Changes that overlapped stay overlapped, and what failed stays failed.
LEMMA OrderBefore ==
    ASSUME [Next]_vars
    PROVE  (reliable' => reliable) /\ (serial' => serial)
<1>1. UNCHANGED serial \/ \E n \in Node : Start(n) \/ Leave(n) \/ \E m \in Node, w \in Write : BeginRepair(n, m, w)
  BY ZenonT(30) DEF Next, ChangeStep, Main, JoinCall, Shutdown, ConnMake, WriteStep, RepairStep, Loss,
         AtRest, Crash, ReachSeed, MissSeed, JoinAnswered, JoinFails, Link, Joined, End,
         ReadPoolAndStore, Gossip, GossipOver, AlreadyPooled, Connect, StoreChannel,
         Unreachable, Exit, RemoveNode, BeginWrite, FanOut, ServeWrite, MissWrite, RepairDial,
         RepairStoresChannel, RepairServed, LoseJoin, LoseDial, LoseLink, LoseGoodbye, Alone,
         Lose, Unreliable, DialOver, historyVars, vars
<1>2. serial' => serial
  BY <1>1 DEF Start, Leave, BeginRepair
<1>3. reliable' = reliable \/ reliable' = FALSE \/ \E n \in Node : Start(n)
  BY ZenonT(30) DEF Next, ChangeStep, Main, JoinCall, Shutdown, ConnMake, WriteStep, RepairStep, Loss,
         AtRest, Leave, Crash, ReachSeed, MissSeed, JoinAnswered, JoinFails, Link, Joined,
         ReadPoolAndStore, Gossip, GossipOver, AlreadyPooled, Connect, StoreChannel,
         Unreachable, Exit, RemoveNode, BeginWrite, FanOut, ServeWrite, MissWrite, BeginRepair,
         RepairDial, RepairStoresChannel, RepairServed, LoseJoin, LoseDial, LoseLink,
         LoseGoodbye, Alone, Lose, Unreliable, DialOver, historyVars, vars
<1>4. reliable' => reliable
  BY <1>3 DEF Start
<1>. QED
  BY <1>2, <1>4

OrderlyIfSerial == serial /\ reliable => Orderly

LEMMA OrderlyAlways == Spec => []OrderlyIfSerial
<1>1. Init => OrderlyIfSerial
  BY DEF Init, OrderlyIfSerial, Orderly, OneChange, PoolsOfRunning, ReadyAcquainted, TakenLeave,
         RepairsKnown, DialsWanted, Ready, Joining
<1>2. Wellformed /\ OrderlyIfSerial /\ [Next]_vars => OrderlyIfSerial'
  <2>. SUFFICES ASSUME Wellformed, OrderlyIfSerial, [Next]_vars, serial', reliable' PROVE Orderly'
    BY DEF OrderlyIfSerial
  <2>1. Orderly
    BY OrderBefore DEF OrderlyIfSerial
  <2>. QED
    BY <2>1, Steps, OrderlyMain, OrderlyJoinCall, OrderlyConnMake, OrderlyLeave, OrderlyWrite,
       OrderlyRepair
<1>. QED
  BY <1>1, <1>2, WellformedAlways, PTL DEF Spec

(***************************************************************************)
(* GET /nodes lists the ready nodes but the one asked whenever nothing is  *)
(* going on, if nothing has failed and no join, leave or repair overlapped *)
(* with another change: in clusters of any size, whichever seed each node  *)
(* has.                                                                    *)
(***************************************************************************)
THEOREM SerialChangesAgreeHolds == Spec => []SerialChangesAgree
<1>1. Wellformed /\ OrderlyIfSerial => SerialChangesAgree
  <2>. SUFFICES ASSUME Wellformed, Orderly, ~Changing PROVE EveryPoolComplete
    BY DEF OrderlyIfSerial, SerialChangesAgree, NodesListsTheOthers
  <2>1. leaving = {} /\ \A n \in Node : Up(n) => n \in Ready
    BY DEF Changing, Joining, Wellformed, TypeOK, Stage, Up, Ready
  <2>2. ASSUME NEW n \in Ready PROVE pool[n] = Ready \ {n}
    <3>1. n \in Node /\ pool[n] \subseteq Node
      BY <2>2 DEF Ready, Wellformed, TypeOK
    <3>2. \A k \in pool[n] : k \in Ready /\ k # n
      BY <2>1, <3>1 DEF Orderly, PoolsOfRunning
    <3>3. \A k \in Ready \ {n} : k \in pool[n]
      BY <2>1, <2>2 DEF Orderly, ReadyAcquainted
    <3>. QED
      BY <3>2, <3>3
  <2>. QED
    BY <2>2 DEF EveryPoolComplete, Nodes, Addrs
<1>. QED
  BY <1>1, OrderlyAlways, WellformedAlways, PTL

=============================================================================
