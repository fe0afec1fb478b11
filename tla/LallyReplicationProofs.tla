----------------------- MODULE LallyReplicationProofs -----------------------
(***************************************************************************)
(* Proofs of the safety properties of LallyReplication, for any number of  *)
(* nodes, requests, keys and values, any pools, quorums and clocks.        *)
(***************************************************************************)
EXTENDS LallyReplication, TLAPS, FiniteSetTheorems

-----------------------------------------------------------------------------
(***************************************************************************)
(* The inductive invariant                                                 *)
(***************************************************************************)
\* A request that has not begun has left no trace.
NewUntouched ==
    \A o \in Request :
        phase[o] = "new" => /\ op[o] = None
                            /\ \A r \in Responder : call[o][r] = "idle"

NameOf(o) == IF o \in Adds THEN "ADD" ELSE IF o \in Removes THEN "REMOVE" ELSE "GET"

\* The operation of a request is of its kind.
NamesMatch ==
    \A o \in Request : phase[o] # "new" => op[o].name = NameOf(o)

\* Store::remove buries the value it found.
CheckedHasValue ==
    \A o \in Request, r \in Responder :
        call[o][r] = "checked" => op[o].name = "REMOVE" /\ resp[o][r].value \in Value

\* A timestamp among the answers comes from a GET, with the value of its ADD.
AnswersAreWrites ==
    \A o \in Request, r \in Responder :
        resp[o][r].timestamp # None =>
            /\ phase[o] # "new"
            /\ o \in Gets
            /\ resp[o][r].value \in Value
            /\ Written(op[o].key, resp[o][r].value, resp[o][r].timestamp)

\* Repairs belong to answered GETs and spread what an ADD wrote.
RepairsAreWrites ==
    \A o \in Request, r \in Responder :
        repair[o][r] # "none" =>
            /\ phase[o] = "done"
            /\ o \in Gets
            /\ latest[o].value \in Value
            /\ latest[o].timestamp \in Nat
            /\ Written(op[o].key, latest[o].value, latest[o].timestamp)

\* Only an answered request has a reply.
RepliesAreAnswers ==
    \A o \in Request : reply[o] # None => phase[o] = "done"

Wellformed == /\ TypeOK
              /\ NewUntouched
              /\ NamesMatch
              /\ CheckedHasValue
              /\ AnswersAreWrites
              /\ RepairsAreWrites
              /\ RepliesAreAnswers
              /\ Integrity

-----------------------------------------------------------------------------
(***************************************************************************)
(* Facts about single definitions                                          *)
(***************************************************************************)
\* A clock reading is a natural number.
LEMMA NowType == Now \subseteq Nat
<1>1. IsFiniteSet(Begun)
  BY RequestAssumption, FS_Subset DEF Begun
<1>2. Cardinality(Begun) + 1 \in Nat
  BY <1>1, FS_CardinalityType
<1>. QED
  BY <1>2, ClockAssumption DEF Now

\* Store::get reports a live entry as it is, and nothing else with a timestamp.
LEMMA GetAnswer ==
    ASSUME NEW s \in Store, NEW k \in Key
    PROVE  /\ Get(s, k) \in Response
           /\ Get(s, k).timestamp # None =>
                 /\ Live(s, k)
                 /\ s[k].value \in Value
                 /\ Get(s, k) = [value |-> s[k].value, timestamp |-> s[k].timestamp]
BY NoneAssumption DEF Get, Live, Store, Entry, Response, NotFound

\* Store::add and the update of Store::remove yield stores.
LEMMA AddType ==
    ASSUME NEW s \in Store, NEW operation \in Operation, operation.name = "ADD"
    PROVE  Add(s, operation) \in Store
BY DEF Add, Store, Entry, Operation

LEMMA BuryType ==
    ASSUME NEW s \in Store, NEW operation \in Operation, NEW v \in Value
    PROVE  Bury(s, operation, v) \in Store
BY DEF Bury, Store, Entry, Operation

\* The operations that the handlers build are operations.
LEMMA BuiltOperation ==
    ASSUME NEW k \in Key, NEW t \in Nat
    PROVE  /\ \A v \in Value :
                 [name |-> "ADD", key |-> k, value |-> v, timestamp |-> t] \in Operation
           /\ \A name \in {"REMOVE", "GET"} :
                 [name |-> name, key |-> k, value |-> None, timestamp |-> t] \in Operation
BY DEF Operation

\* A responder is a node: the coordinator if it is the local one.
LEMMA SiteType ==
    ASSUME TypeOK, NEW o \in Request, NEW r \in Responder, phase[o] # "new"
    PROVE  op[o] \in Operation /\ coord[o] \in Node /\ Site(o, r) \in Node
BY DEF TypeOK, Site, Responder

\* Needed votes, and the votes there are, can be counted.
LEMMA VotesFinite ==
    ASSUME NEW o \in Request
    PROVE  IsFiniteSet(Votes(o)) /\ Cardinality(Votes(o)) \in Nat
BY NodeAssumption, FS_Subset, FS_CardinalityType DEF Votes

\* A repair that is under way is an ADD.
LEMMA RepairIsAdd ==
    ASSUME Wellformed, NEW g \in Request, NEW r \in Responder, repair[g][r] # "none"
    PROVE  /\ RepairOperation(g) \in Operation
           /\ RepairOperation(g).name = "ADD"
           /\ RepairOperation(g) = [name |-> "ADD", key |-> op[g].key,
                                    value |-> latest[g].value,
                                    timestamp |-> latest[g].timestamp]
           /\ \A n \in Node : /\ RepairedStore(g, n) = Add(store[n], RepairOperation(g))
                              /\ RepairedStore(g, n) \in Store
<1>1. op[g] \in Operation /\ latest[g].value \in Value /\ latest[g].timestamp \in Nat
  BY SiteType DEF Wellformed, RepairsAreWrites
<1>2. op[g].key \in Key
  BY <1>1 DEF Operation
<1>3. RepairOperation(g) = [name |-> "ADD", key |-> op[g].key,
                            value |-> latest[g].value,
                            timestamp |-> latest[g].timestamp]
  BY <1>1, NoneAssumption DEF RepairOperation
<1>4. RepairOperation(g) \in Operation /\ RepairOperation(g).name = "ADD"
  BY <1>1, <1>2, <1>3 DEF Operation
<1>5. ASSUME NEW n \in Node
      PROVE  /\ RepairedStore(g, n) = Add(store[n], RepairOperation(g))
             /\ RepairedStore(g, n) \in Store
  <2>1. store[n] \in Store
    BY DEF Wellformed, TypeOK
  <2>. QED
    BY <1>4, <2>1, AddType DEF RepairedStore
<1>. QED
  BY <1>3, <1>4, <1>5


-----------------------------------------------------------------------------
(***************************************************************************)
(* What no step undoes                                                     *)
(***************************************************************************)
\* The actions of Next, one by one.
LEMMA NextActions ==
    ASSUME [Next]_vars
    PROVE  \/ \E o \in Adds, n \in Node, k \in Key, v \in Value : BeginAdd(o, n, k, v)
           \/ \E o \in Removes, n \in Node, k \in Key : BeginRemove(o, n, k)
           \/ \E o \in Gets, n \in Node, k \in Key : BeginGet(o, n, k)
           \/ \E o \in Request : \/ FanOut(o)
                                 \/ FinishAdd(o)
                                 \/ FinishRemove(o)
                                 \/ FinishGet(o)
           \/ \E o \in Request, r \in Responder : \/ StoreAdd(o, r)
                                                 \/ StoreRemoveCheck(o, r)
                                                 \/ StoreRemoveUpdate(o, r)
                                                 \/ ApplyRepair(o, r)
           \/ \E o \in Request, n \in Node : \/ ReceiveWrite(o, n)
                                            \/ ServeGet(o, n)
                                            \/ LoseCall(o, n)
                                            \/ JoinNext(o, n)
                                            \/ ReceiveRepair(o, n)
                                            \/ LoseRepair(o, n)
           \/ UNCHANGED vars
BY DEF Next, RequestStep, ClientStep, Finish, StoreStep, Deliver, DeliverRepair, Terminated

\* A request keeps its operation and its coordinator once it has begun.
OpsKept ==
    \A o \in Request :
        /\ phase[o] # "new" => /\ phase'[o] # "new"
                               /\ op'[o] = op[o]
                               /\ coord'[o] = coord[o]
        /\ phase[o] = "done" => phase'[o] = "done"

LEMMA NextKeepsOps == ASSUME TypeOK, [Next]_vars PROVE OpsKept
<1>1. ASSUME NEW o \in Request, NEW n \in Node, NEW operation, Accept(o, n, operation)
      PROVE  OpsKept
  BY <1>1 DEF Accept, OpsKept, TypeOK
<1>2. ASSUME NEW o \in Request, phase' = [phase EXCEPT ![o] = "done"], UNCHANGED <<op, coord>>
      PROVE  OpsKept
  BY <1>2 DEF OpsKept, TypeOK
<1>3. ASSUME NEW o \in Request, FanOut(o) PROVE OpsKept
  BY <1>3 DEF FanOut, OpsKept, TypeOK
<1>4. ASSUME UNCHANGED <<phase, op, coord>> PROVE OpsKept
  BY <1>4 DEF OpsKept
<1>5. ASSUME NEW o \in Request, NEW n \in Node, NEW k \in Key
      PROVE  /\ BeginRemove(o, n, k) => OpsKept
             /\ BeginGet(o, n, k) => OpsKept
             /\ \A v \in Value : BeginAdd(o, n, k, v) => OpsKept
  <2>1. BeginRemove(o, n, k) => OpsKept
    BY <1>1 DEF BeginRemove
  <2>2. BeginGet(o, n, k) => OpsKept
    BY <1>1 DEF BeginGet
  <2>3. \A v \in Value : BeginAdd(o, n, k, v) => OpsKept
    BY <1>1 DEF BeginAdd
  <2>. QED
    BY <2>1, <2>2, <2>3
<1>6. ASSUME NEW o \in Request, FinishAdd(o) \/ FinishRemove(o) \/ FinishGet(o)
      PROVE  OpsKept
  BY <1>2, <1>6 DEF FinishAdd, FinishRemove, FinishGet, Answer
<1>7. ASSUME NEW o \in Request, NEW r \in Responder,
             \/ StoreAdd(o, r) \/ StoreRemoveCheck(o, r) \/ StoreRemoveUpdate(o, r)
             \/ ApplyRepair(o, r)
      PROVE  OpsKept
  BY <1>4, <1>7 DEF StoreAdd, StoreRemoveCheck, StoreRemoveUpdate, ApplyRepair, requestVars
<1>8. ASSUME NEW o \in Request, NEW n \in Node,
             \/ ReceiveWrite(o, n) \/ ServeGet(o, n) \/ LoseCall(o, n) \/ JoinNext(o, n)
             \/ ReceiveRepair(o, n) \/ LoseRepair(o, n)
      PROVE  OpsKept
  BY <1>4, <1>8 DEF ReceiveWrite, ServeGet, LoseCall, JoinNext, ReceiveRepair, LoseRepair,
                    requestVars
<1>9. CASE UNCHANGED vars
  BY <1>4, <1>9 DEF vars
<1>. QED
  BY <1>3, <1>5, <1>6, <1>7, <1>8, <1>9, NextActions DEF Request

\* ... so what was written and removed stays so.
LEMMA WritesKept ==
    ASSUME OpsKept, NEW operation
    PROVE  (\E o \in Begun : op[o] = operation) => (\E o \in Begun' : op'[o] = operation)
BY DEF OpsKept, Begun

\* A part of the invariant whose variables a step leaves alone still holds.
LEMMA Frame ==
    ASSUME Wellformed, OpsKept
    PROVE  /\ UNCHANGED resp => AnswersAreWrites'
           /\ UNCHANGED repairVars => RepairsAreWrites'
           /\ UNCHANGED store => StoresHoldWrites'
           /\ UNCHANGED reply => RepliesAreAnswers' /\ RepliesAreWrites'
           /\ UNCHANGED <<phase, op>> => NamesMatch'
<1>1. ASSUME UNCHANGED resp PROVE AnswersAreWrites'
  <2>. SUFFICES ASSUME NEW o \in Request, NEW r \in Responder, resp'[o][r].timestamp # None
                PROVE  /\ phase'[o] # "new"
                       /\ o \in Gets
                       /\ resp'[o][r].value \in Value
                       /\ Written(op[o].key, resp[o][r].value, resp[o][r].timestamp)'
    BY DEF AnswersAreWrites
  <2>1. /\ phase[o] # "new"
        /\ o \in Gets
        /\ resp[o][r].value \in Value
        /\ Written(op[o].key, resp[o][r].value, resp[o][r].timestamp)
    BY <1>1 DEF Wellformed, AnswersAreWrites
  <2>2. phase'[o] # "new" /\ op'[o] = op[o]
    BY <2>1 DEF OpsKept
  <2>. QED
    BY <1>1, <2>1, <2>2, WritesKept DEF Written
<1>2. ASSUME UNCHANGED repairVars PROVE RepairsAreWrites'
  <2>. SUFFICES ASSUME NEW o \in Request, NEW r \in Responder, repair'[o][r] # "none"
                PROVE  /\ phase'[o] = "done"
                       /\ o \in Gets
                       /\ latest'[o].value \in Value
                       /\ latest'[o].timestamp \in Nat
                       /\ Written(op[o].key, latest[o].value, latest[o].timestamp)'
    BY DEF RepairsAreWrites
  <2>1. /\ phase[o] = "done"
        /\ o \in Gets
        /\ latest[o].value \in Value
        /\ latest[o].timestamp \in Nat
        /\ Written(op[o].key, latest[o].value, latest[o].timestamp)
    BY <1>2 DEF Wellformed, RepairsAreWrites, repairVars
  <2>2. phase'[o] = "done" /\ op'[o] = op[o]
    BY <2>1 DEF OpsKept
  <2>. QED
    BY <1>2, <2>1, <2>2, WritesKept DEF Written, repairVars
<1>3. ASSUME UNCHANGED store PROVE StoresHoldWrites'
  BY <1>3, WritesKept DEF Wellformed, Integrity, StoresHoldWrites, Written, Removed
<1>4. ASSUME UNCHANGED reply PROVE RepliesAreAnswers'
  BY <1>4 DEF Wellformed, RepliesAreAnswers, OpsKept
<1>5. ASSUME UNCHANGED reply PROVE RepliesAreWrites'
  BY <1>5, WritesKept DEF Wellformed, Integrity, RepliesAreWrites, RepliesAreAnswers, OpsKept,
                          Request, Written
<1>6. ASSUME UNCHANGED <<phase, op>> PROVE NamesMatch'
  BY <1>6 DEF Wellformed, NamesMatch
<1>. QED
  BY <1>1, <1>2, <1>3, <1>4, <1>5, <1>6

\* Putting what was written, or a tombstone of what was removed, into a store.
LEMMA PutKeepsStores ==
    ASSUME Wellformed, OpsKept,
           NEW n \in Node, NEW k \in Key, NEW e,
           store' = [store EXCEPT ![n] = [store[n] EXCEPT ![k] = e]],
           \E o \in Begun' :
               op'[o] = IF e.valid THEN [name |-> "ADD", key |-> k, value |-> e.value,
                                         timestamp |-> e.timestamp]
                                   ELSE [name |-> "REMOVE", key |-> k, value |-> None,
                                         timestamp |-> e.timestamp]
    PROVE  StoresHoldWrites'
<1>1. store \in [Node -> [Key -> Entry \cup {None}]]
  BY DEF Wellformed, TypeOK, Store
<1>2. store'[n][k] = e
  BY <1>1
<1>3. ASSUME NEW m \in Node, NEW l \in Key, ~(m = n /\ l = k) PROVE store'[m][l] = store[m][l]
  BY <1>1, <1>3
<1>4. ASSUME NEW m \in Node, NEW l \in Key, store'[m][l] # None
      PROVE  IF store'[m][l].valid
             THEN Written(l, store[m][l].value, store[m][l].timestamp)'
             ELSE Removed(l, store[m][l].timestamp)'
  <2>1. CASE m = n /\ l = k
    BY <1>2, <2>1 DEF Written, Removed
  <2>2. CASE ~(m = n /\ l = k)
    <3>1. store'[m][l] = store[m][l]
      BY <1>3, <2>2
    <3>2. IF store[m][l].valid
          THEN Written(l, store[m][l].value, store[m][l].timestamp)
          ELSE Removed(l, store[m][l].timestamp)
      BY <1>4, <3>1 DEF Wellformed, Integrity, StoresHoldWrites
    <3>. QED
      BY <3>1, <3>2, WritesKept DEF Written, Removed
  <2>. QED
    BY <2>1, <2>2
<1>. QED
  BY <1>4 DEF StoresHoldWrites

-----------------------------------------------------------------------------
(***************************************************************************)
(* Each action preserves the invariant                                     *)
(***************************************************************************)
LEMMA BeginAddStep ==
    ASSUME Wellformed, OpsKept, NEW o \in Adds, NEW n \in Node, NEW k \in Key, NEW v \in Value,
           BeginAdd(o, n, k, v)
    PROVE  Wellformed'
<1>1. PICK t \in Nat : LET operation == [name |-> "ADD", key |-> k, value |-> v, timestamp |-> t]
                      IN  Accept(o, n, operation) /\ Log(n, operation)
  BY NowType DEF BeginAdd
<1>. DEFINE operation == [name |-> "ADD", key |-> k, value |-> v, timestamp |-> t]
<1>2. operation \in Operation /\ o \in Request
  BY BuiltOperation DEF Request
<1>3. /\ call' = [call EXCEPT ![o][Local] = "ready"]
      /\ UNCHANGED <<store, resp, latest, repair, reply>>
  BY DEF BeginAdd, repairVars
<1>. HIDE DEF operation
<1>4. TypeOK'
  BY <1>1, <1>2, <1>3 DEF Wellformed, TypeOK, Accept, Log, Phase, CallState, Responder, operation
<1>5. NewUntouched'
  BY <1>1, <1>3 DEF Wellformed, TypeOK, NewUntouched, Accept
<1>6. NamesMatch'
  BY <1>1, <1>2 DEF Wellformed, TypeOK, NamesMatch, Accept, NameOf
<1>7. CheckedHasValue'
  BY <1>1, <1>2, <1>3 DEF Wellformed, TypeOK, NewUntouched, CheckedHasValue, Accept, Responder
<1>. QED
  BY <1>3, <1>4, <1>5, <1>6, <1>7, Frame DEF Wellformed, Integrity, repairVars

LEMMA BeginRemoveStep ==
    ASSUME Wellformed, OpsKept, NEW o \in Removes, NEW n \in Node, NEW k \in Key,
           BeginRemove(o, n, k)
    PROVE  Wellformed'
<1>1. PICK t \in Nat : LET operation == [name |-> "REMOVE", key |-> k, value |-> None,
                                       timestamp |-> t]
                      IN  Accept(o, n, operation) /\ Log(n, operation)
  BY NowType DEF BeginRemove
<1>. DEFINE operation == [name |-> "REMOVE", key |-> k, value |-> None, timestamp |-> t]
<1>2. operation \in Operation /\ o \in Request
  BY BuiltOperation DEF Request
<1>3. /\ call' = [call EXCEPT ![o][Local] = "ready"]
      /\ UNCHANGED <<store, resp, latest, repair, reply>>
  BY DEF BeginRemove, repairVars
<1>. HIDE DEF operation
<1>4. TypeOK'
  BY <1>1, <1>2, <1>3 DEF Wellformed, TypeOK, Accept, Log, Phase, CallState, Responder, operation
<1>5. NewUntouched'
  BY <1>1, <1>3 DEF Wellformed, TypeOK, NewUntouched, Accept
<1>6. NamesMatch'
  BY <1>1, <1>2, RequestAssumption DEF Wellformed, TypeOK, NamesMatch, Accept, NameOf
<1>7. CheckedHasValue'
  BY <1>1, <1>2, <1>3 DEF Wellformed, TypeOK, NewUntouched, CheckedHasValue, Accept, Responder
<1>. QED
  BY <1>3, <1>4, <1>5, <1>6, <1>7, Frame DEF Wellformed, Integrity, repairVars

LEMMA FanOutStep ==
    ASSUME Wellformed, OpsKept, NEW o \in Request, FanOut(o)
    PROVE  Wellformed'
<1>1. TypeOK'
  BY DEF FanOut, Wellformed, TypeOK, Phase, CallState, requestVars, repairVars
<1>2. NewUntouched'
  BY DEF FanOut, Wellformed, TypeOK, NewUntouched
<1>3. NamesMatch'
  BY DEF FanOut, Wellformed, TypeOK, NamesMatch
<1>4. CheckedHasValue'
  BY DEF FanOut, Wellformed, TypeOK, CheckedHasValue
<1>. QED
  BY <1>1, <1>2, <1>3, <1>4, Frame DEF Wellformed, Integrity, FanOut

LEMMA BeginGetStep ==
    ASSUME Wellformed, OpsKept, NEW o \in Gets, NEW n \in Node, NEW k \in Key,
           BeginGet(o, n, k)
    PROVE  Wellformed'
<1>1. PICK t \in Nat : Accept(o, n, [name |-> "GET", key |-> k, value |-> None, timestamp |-> t])
  BY NowType DEF BeginGet
<1>. DEFINE operation == [name |-> "GET", key |-> k, value |-> None, timestamp |-> t]
            answer    == Get(store[n], k)
<1>2. operation \in Operation /\ o \in Request
  BY BuiltOperation DEF Request
<1>3. /\ call' = [call EXCEPT ![o][Local] = "served"]
      /\ resp' = [resp EXCEPT ![o][Local] = answer]
      /\ UNCHANGED <<store, logged, latest, repair, reply>>
  BY DEF BeginGet, repairVars
<1>4. store[n] \in Store
  BY DEF Wellformed, TypeOK
<1>5. answer \in Response
  BY <1>4, GetAnswer
<1>6. answer.timestamp # None => answer.value \in Value /\ Written(k, answer.value, answer.timestamp)
  <2>. SUFFICES ASSUME answer.timestamp # None
                PROVE  answer.value \in Value /\ Written(k, answer.value, answer.timestamp)
    OBVIOUS
  <2>1. /\ Live(store[n], k)
        /\ store[n][k].value \in Value
        /\ answer.value = store[n][k].value
        /\ answer.timestamp = store[n][k].timestamp
    BY <1>4, GetAnswer
  <2>. QED
    BY <2>1 DEF Wellformed, Integrity, StoresHoldWrites, Live
<1>. HIDE DEF operation, answer
<1>7. op'[o].key = k /\ phase'[o] # "new" /\ op'[o] = operation
  BY <1>1, <1>2 DEF Wellformed, TypeOK, Accept, operation
<1>8. TypeOK'
  BY <1>1, <1>2, <1>3, <1>5 DEF Wellformed, TypeOK, Accept, Phase, CallState, Responder, operation
<1>9. NewUntouched'
  BY <1>1, <1>3 DEF Wellformed, TypeOK, NewUntouched, Accept
<1>10. NamesMatch'
  BY <1>1, <1>2, RequestAssumption DEF Wellformed, TypeOK, NamesMatch, Accept, NameOf
<1>11. CheckedHasValue'
  BY <1>1, <1>2, <1>3 DEF Wellformed, TypeOK, NewUntouched, CheckedHasValue, Accept, Responder
<1>12. AnswersAreWrites'
  <2>. SUFFICES ASSUME NEW p \in Request, NEW r \in Responder, resp'[p][r].timestamp # None
                PROVE  /\ phase'[p] # "new"
                       /\ p \in Gets
                       /\ resp'[p][r].value \in Value
                       /\ Written(op[p].key, resp[p][r].value, resp[p][r].timestamp)'
    BY DEF AnswersAreWrites
  <2>1. CASE p = o /\ r = Local
    <3>1. resp'[p][r] = answer
      BY <1>2, <1>3, <2>1 DEF Wellformed, TypeOK
    <3>. QED
      BY <1>6, <1>7, <2>1, <3>1, WritesKept DEF Written
  <2>2. CASE ~(p = o /\ r = Local)
    <3>1. resp'[p][r] = resp[p][r]
      BY <1>3, <2>2 DEF Wellformed, TypeOK
    <3>2. /\ phase[p] # "new"
          /\ p \in Gets
          /\ resp[p][r].value \in Value
          /\ Written(op[p].key, resp[p][r].value, resp[p][r].timestamp)
      BY <3>1 DEF Wellformed, AnswersAreWrites
    <3>. QED
      BY <3>1, <3>2, WritesKept DEF Written, OpsKept
  <2>. QED
    BY <2>1, <2>2
<1>. QED
  BY <1>3, <1>8, <1>9, <1>10, <1>11, <1>12, Frame DEF Wellformed, Integrity, repairVars

LEMMA LoseCallStep ==
    ASSUME Wellformed, OpsKept, NEW o \in Request, NEW n \in Node, LoseCall(o, n)
    PROVE  Wellformed'
<1>1. TypeOK'
  BY DEF LoseCall, Wellformed, TypeOK, CallState, requestVars, repairVars
<1>2. NewUntouched'
  BY DEF LoseCall, Wellformed, TypeOK, NewUntouched, requestVars, Responder
<1>3. CheckedHasValue'
  BY DEF LoseCall, Wellformed, TypeOK, CheckedHasValue, requestVars
<1>. QED
  BY <1>1, <1>2, <1>3, Frame DEF Wellformed, Integrity, LoseCall, requestVars

LEMMA JoinNextStep ==
    ASSUME Wellformed, OpsKept, NEW o \in Request, NEW n \in Node, JoinNext(o, n)
    PROVE  Wellformed'
<1>1. TypeOK'
  BY DEF JoinNext, Wellformed, TypeOK, CallState, requestVars, repairVars
<1>2. NewUntouched'
  BY DEF JoinNext, Wellformed, TypeOK, NewUntouched, requestVars, Responder
<1>3. CheckedHasValue'
  BY DEF JoinNext, Wellformed, TypeOK, CheckedHasValue, requestVars
<1>. QED
  BY <1>1, <1>2, <1>3, Frame DEF Wellformed, Integrity, JoinNext, requestVars

LEMMA ReceiveWriteStep ==
    ASSUME Wellformed, OpsKept, NEW o \in Request, NEW n \in Node, ReceiveWrite(o, n)
    PROVE  Wellformed'
<1>1. phase[o] # "new" /\ op[o] \in Operation
  BY DEF ReceiveWrite, Wellformed, TypeOK, NewUntouched, Responder
<1>2. TypeOK'
  BY <1>1 DEF ReceiveWrite, Log, Wellformed, TypeOK, CallState, requestVars, repairVars
<1>3. NewUntouched'
  BY <1>1 DEF ReceiveWrite, Wellformed, TypeOK, NewUntouched, requestVars, Responder
<1>4. CheckedHasValue'
  BY DEF ReceiveWrite, Wellformed, TypeOK, CheckedHasValue, requestVars
<1>. QED
  BY <1>2, <1>3, <1>4, Frame DEF Wellformed, Integrity, ReceiveWrite, requestVars

LEMMA StoreAddStep ==
    ASSUME Wellformed, OpsKept, NEW o \in Request, NEW r \in Responder, StoreAdd(o, r)
    PROVE  Wellformed'
<1>. DEFINE n == Site(o, r)
<1>1. phase[o] # "new"
  BY DEF StoreAdd, Wellformed, NewUntouched
<1>2. op[o] \in Operation /\ n \in Node /\ op[o].name = "ADD"
  BY <1>1, SiteType DEF StoreAdd, Wellformed
<1>3. Add(store[n], op[o]) \in Store /\ op[o].key \in Key
  BY <1>2, AddType DEF Wellformed, TypeOK, Operation
<1>4. /\ store' = [store EXCEPT ![n] = Add(store[n], op[o])]
      /\ call' = [call EXCEPT ![o][r] = "served"]
      /\ UNCHANGED <<logged, phase, op, coord, reply, resp, latest, repair>>
  BY DEF StoreAdd, requestVars, repairVars
<1>. HIDE DEF n
<1>5. TypeOK'
  BY <1>2, <1>3, <1>4 DEF Wellformed, TypeOK, CallState
<1>6. NewUntouched'
  BY <1>1, <1>4 DEF Wellformed, TypeOK, NewUntouched
<1>7. CheckedHasValue'
  BY <1>4 DEF Wellformed, TypeOK, CheckedHasValue
<1>8. StoresHoldWrites'
  <2>. DEFINE e == [value |-> op[o].value, timestamp |-> op[o].timestamp, valid |-> TRUE]
  <2>1. store' = [store EXCEPT ![n] = [store[n] EXCEPT ![op[o].key] = e]]
    BY <1>4 DEF Add
  <2>2. o \in Begun' /\ op'[o] = [name |-> "ADD", key |-> op[o].key, value |-> e.value,
                                  timestamp |-> e.timestamp]
    BY <1>1, <1>2, <1>4 DEF Begun, Operation
  <2>3. e.valid
    OBVIOUS
  <2>. HIDE DEF e
  <2>. QED
    BY <1>2, <1>3, <2>1, <2>2, <2>3, PutKeepsStores
<1>. QED
  BY <1>4, <1>5, <1>6, <1>7, <1>8, Frame DEF Wellformed, Integrity, repairVars

LEMMA StoreRemoveCheckStep ==
    ASSUME Wellformed, OpsKept, NEW o \in Request, NEW r \in Responder, StoreRemoveCheck(o, r)
    PROVE  Wellformed'
<1>. DEFINE n == Site(o, r)
<1>1. phase[o] # "new"
  BY DEF StoreRemoveCheck, Wellformed, NewUntouched
<1>2. op[o] \in Operation /\ n \in Node /\ op[o].name = "REMOVE" /\ op[o].key \in Key
  BY <1>1, SiteType DEF StoreRemoveCheck, Wellformed, Operation
<1>4. Live(store[n], op[o].key) => store[n][op[o].key].value \in Value
  BY <1>2 DEF Wellformed, TypeOK, Store, Entry, Live
<1>5. UNCHANGED <<store, logged, phase, op, coord, reply, latest, repair>>
  BY DEF StoreRemoveCheck, requestVars, repairVars
<1>. HIDE DEF n
<1>6. ASSUME NEW c \in CallState, call' = [call EXCEPT ![o][r] = c]
      PROVE  NewUntouched'
  BY <1>1, <1>5, <1>6 DEF Wellformed, TypeOK, NewUntouched
<1>7. CASE Live(store[n], op[o].key)
  <2>. DEFINE found == [value |-> store[n][op[o].key].value, timestamp |-> None]
  <2>1. /\ call' = [call EXCEPT ![o][r] = "checked"]
        /\ resp' = [resp EXCEPT ![o][r] = found]
    BY <1>7 DEF StoreRemoveCheck, n
  <2>2. found \in Response /\ found.value \in Value /\ found.timestamp = None
    BY <1>4, <1>7 DEF Response
  <2>. HIDE DEF found
  <2>3. TypeOK'
    BY <1>5, <2>1, <2>2 DEF Wellformed, TypeOK, CallState
  <2>4. CheckedHasValue'
    BY <1>2, <1>5, <2>1, <2>2 DEF Wellformed, TypeOK, CheckedHasValue
  <2>5. AnswersAreWrites'
    <3>1. \A p \in Request, q \in Responder :
              resp'[p][q].timestamp # None => resp'[p][q] = resp[p][q]
      BY <2>1, <2>2 DEF Wellformed, TypeOK
    <3>. QED
      BY <1>5, <3>1 DEF Wellformed, AnswersAreWrites, Written, Begun
  <2>. QED
    BY <1>5, <1>6, <2>1, <2>3, <2>4, <2>5, Frame DEF Wellformed, Integrity, repairVars, CallState
<1>8. CASE ~Live(store[n], op[o].key)
  <2>1. call' = [call EXCEPT ![o][r] = "failed"] /\ UNCHANGED resp
    BY <1>8 DEF StoreRemoveCheck, n
  <2>2. TypeOK'
    BY <1>5, <2>1 DEF Wellformed, TypeOK, CallState
  <2>3. CheckedHasValue'
    BY <1>5, <2>1 DEF Wellformed, TypeOK, CheckedHasValue
  <2>. QED
    BY <1>5, <1>6, <2>1, <2>2, <2>3, Frame DEF Wellformed, Integrity, repairVars, CallState
<1>. QED
  BY <1>7, <1>8

LEMMA StoreRemoveUpdateStep ==
    ASSUME Wellformed, OpsKept, NEW o \in Request, NEW r \in Responder, StoreRemoveUpdate(o, r)
    PROVE  Wellformed'
<1>. DEFINE n == Site(o, r)
            v == resp[o][r].value
<1>1. phase[o] # "new" /\ v \in Value
  BY DEF StoreRemoveUpdate, Wellformed, NewUntouched, CheckedHasValue
<1>2. op[o] \in Operation /\ n \in Node
  BY <1>1, SiteType DEF Wellformed
<1>3. /\ Bury(store[n], op[o], v) \in Store
      /\ op[o].key \in Key
  BY <1>1, <1>2, BuryType DEF Wellformed, TypeOK, Operation
<1>4. /\ store' = [store EXCEPT ![n] = Bury(store[n], op[o], v)]
      /\ call[o][r] = "checked"
      /\ call' = [call EXCEPT ![o][r] = "served"]
      /\ UNCHANGED <<logged, phase, op, coord, reply, resp, latest, repair>>
  BY DEF StoreRemoveUpdate, requestVars, repairVars
<1>5. op[o].name = "REMOVE"
  BY <1>4 DEF Wellformed, CheckedHasValue
<1>. HIDE DEF n, v
<1>6. TypeOK'
  BY <1>2, <1>3, <1>4 DEF Wellformed, TypeOK, CallState
<1>7. NewUntouched'
  BY <1>1, <1>4 DEF Wellformed, TypeOK, NewUntouched
<1>8. CheckedHasValue'
  BY <1>4 DEF Wellformed, TypeOK, CheckedHasValue
<1>9. StoresHoldWrites'
  <2>. DEFINE e == [value |-> v, timestamp |-> op[o].timestamp, valid |-> FALSE]
  <2>1. store' = [store EXCEPT ![n] = [store[n] EXCEPT ![op[o].key] = e]]
    BY <1>4 DEF Bury
  <2>2. o \in Begun' /\ op'[o] = [name |-> "REMOVE", key |-> op[o].key, value |-> None,
                                  timestamp |-> e.timestamp]
    BY <1>1, <1>2, <1>4, <1>5 DEF Begun, Operation
  <2>3. ~e.valid
    OBVIOUS
  <2>. HIDE DEF e
  <2>. QED
    BY <1>2, <1>3, <2>1, <2>2, <2>3, PutKeepsStores
<1>. QED
  BY <1>4, <1>6, <1>7, <1>8, <1>9, Frame DEF Wellformed, Integrity, repairVars

LEMMA ServeGetStep ==
    ASSUME Wellformed, OpsKept, NEW o \in Request, NEW n \in Node, ServeGet(o, n)
    PROVE  Wellformed'
<1>. DEFINE k      == op[o].key
            answer == Get(store[n], k)
<1>1. phase[o] # "new" /\ n \in Responder
  BY DEF ServeGet, Wellformed, NewUntouched, Responder
<1>2. op[o] \in Operation /\ k \in Key /\ o \in Gets
  <2>1. op[o] \in Operation /\ op[o].name = "GET"
    BY <1>1, SiteType DEF Wellformed, ServeGet
  <2>2. o \in Gets
    BY <1>1, <2>1 DEF Wellformed, NamesMatch, NameOf, Request
  <2>. QED
    BY <2>1, <2>2 DEF Operation
<1>3. store[n] \in Store
  BY DEF Wellformed, TypeOK
<1>4. answer \in Response
  BY <1>2, <1>3, GetAnswer
<1>5. answer.timestamp # None => answer.value \in Value /\ Written(k, answer.value, answer.timestamp)
  <2>. SUFFICES ASSUME answer.timestamp # None
                PROVE  answer.value \in Value /\ Written(k, answer.value, answer.timestamp)
    OBVIOUS
  <2>1. /\ Live(store[n], k)
        /\ store[n][k].value \in Value
        /\ answer.value = store[n][k].value
        /\ answer.timestamp = store[n][k].timestamp
    BY <1>2, <1>3, GetAnswer
  <2>. QED
    BY <1>2, <2>1 DEF Wellformed, Integrity, StoresHoldWrites, Live
<1>6. /\ call' = [call EXCEPT ![o][n] = "served"]
      /\ resp' = [resp EXCEPT ![o][n] = answer]
      /\ UNCHANGED <<store, logged, phase, op, coord, reply, latest, repair>>
  BY DEF ServeGet, requestVars, repairVars
<1>. HIDE DEF answer
<1>7. TypeOK'
  BY <1>1, <1>4, <1>6 DEF Wellformed, TypeOK, CallState
<1>8. NewUntouched'
  BY <1>1, <1>6 DEF Wellformed, TypeOK, NewUntouched
<1>9. CheckedHasValue'
  BY <1>1, <1>6 DEF Wellformed, TypeOK, CheckedHasValue
<1>10. AnswersAreWrites'
  <2>. SUFFICES ASSUME NEW p \in Request, NEW r \in Responder, resp'[p][r].timestamp # None
                PROVE  /\ phase'[p] # "new"
                       /\ p \in Gets
                       /\ resp'[p][r].value \in Value
                       /\ Written(op[p].key, resp[p][r].value, resp[p][r].timestamp)'
    BY DEF AnswersAreWrites
  <2>1. CASE p = o /\ r = n
    <3>1. resp'[p][r] = answer
      BY <1>1, <1>6, <2>1 DEF Wellformed, TypeOK
    <3>. QED
      BY <1>1, <1>2, <1>5, <1>6, <2>1, <3>1 DEF Written, Begun
  <2>2. CASE ~(p = o /\ r = n)
    <3>1. resp'[p][r] = resp[p][r]
      BY <1>6, <2>2 DEF Wellformed, TypeOK
    <3>2. /\ phase[p] # "new"
          /\ p \in Gets
          /\ resp[p][r].value \in Value
          /\ Written(op[p].key, resp[p][r].value, resp[p][r].timestamp)
      BY <3>1 DEF Wellformed, AnswersAreWrites
    <3>. QED
      BY <1>6, <3>1, <3>2 DEF Written, Begun
  <2>. QED
    BY <2>1, <2>2
<1>. QED
  BY <1>6, <1>7, <1>8, <1>9, <1>10, Frame DEF Wellformed, Integrity, repairVars

LEMMA FinishWriteStep ==
    ASSUME Wellformed, OpsKept, NEW o \in Request, FinishAdd(o) \/ FinishRemove(o)
    PROVE  Wellformed'
<1>1. /\ phase[o] = "collect"
      /\ UNCHANGED <<store, logged, op, coord, call, resp, latest, repair>>
  BY DEF FinishAdd, FinishRemove, LoopOver, repairVars
<1>2. op[o] \in Operation
  BY <1>1, SiteType DEF Wellformed, TypeOK
<1>3. o \notin Gets
  <2>1. op[o].name # "GET"
    BY DEF FinishAdd, FinishRemove
  <2>. QED
    BY <1>1, <2>1, RequestAssumption DEF Wellformed, NamesMatch, NameOf
<1>4. PICK v \in Value \cup {None}, t \in Nat \cup {None} : Answer(o, v, t)
  BY <1>2 DEF FinishAdd, FinishRemove, Operation
<1>5. [status |-> Status(o), achieved |-> Cardinality(Votes(o)) + 1, value |-> v, timestamp |-> t]
          \in Reply
  BY VotesFinite DEF Reply, Status
<1>6. TypeOK'
  BY <1>1, <1>4, <1>5 DEF Answer, Wellformed, TypeOK, Phase
<1>7. NewUntouched'
  BY <1>1, <1>4 DEF Answer, Wellformed, TypeOK, NewUntouched
<1>8. NamesMatch'
  BY <1>1, <1>4 DEF Answer, Wellformed, TypeOK, NamesMatch
<1>9. CheckedHasValue'
  BY <1>1 DEF Wellformed, CheckedHasValue
<1>10. RepliesAreAnswers'
  BY <1>1, <1>4 DEF Answer, Wellformed, TypeOK, RepliesAreAnswers
<1>11. RepliesAreWrites'
  <2>1. \A g \in Gets : reply'[g] = reply[g] /\ op'[g] = op[g]
    BY <1>1, <1>3, <1>4 DEF Answer, Wellformed, TypeOK, Request
  <2>. QED
    BY <2>1, WritesKept DEF Wellformed, Integrity, RepliesAreWrites, Written
<1>. QED
  BY <1>1, <1>6, <1>7, <1>8, <1>9, <1>10, <1>11, Frame DEF Wellformed, Integrity, repairVars

\* What the repair of a GET spreads is the freshest of its answers.
LEMMA FreshestAnswer ==
    ASSUME Wellformed, NEW o \in Request, NEW r \in FirstFound(o)
    PROVE  /\ r \in Responder
           /\ o \in Gets
           /\ resp[o][r] \in Response
           /\ resp[o][r].value \in Value
           /\ resp[o][r].timestamp \in Nat
           /\ Written(op[o].key, resp[o][r].value, resp[o][r].timestamp)
<1>1. r \in Responder /\ resp[o][r].timestamp # None
  BY DEF FirstFound, Freshest, Stamped, Responders, Votes, Responder
<1>2. resp[o][r] \in Response
  BY <1>1 DEF Wellformed, TypeOK
<1>. QED
  BY <1>1, <1>2 DEF Wellformed, AnswersAreWrites, Response

LEMMA FinishGetStep ==
    ASSUME Wellformed, OpsKept, NEW o \in Request, FinishGet(o)
    PROVE  Wellformed'
<1>1. /\ phase[o] = "collect"
      /\ UNCHANGED <<store, logged, op, coord, call, resp>>
  BY DEF FinishGet, LoopOver
<1>2. ASSUME NEW v \in Value \cup {None}, NEW t \in Nat \cup {None}, Answer(o, v, t)
      PROVE  /\ phase' = [phase EXCEPT ![o] = "done"]
             /\ reply' \in [Request -> Reply \cup {None}]
             /\ reply'[o].value = v
             /\ reply'[o].timestamp = t
             /\ \A p \in Request \ {o} : reply'[p] = reply[p]
  <2>1. [status |-> Status(o), achieved |-> Cardinality(Votes(o)) + 1,
         value |-> v, timestamp |-> t] \in Reply
    BY VotesFinite DEF Reply, Status
  <2>. QED
    BY <1>2, <2>1 DEF Answer, Wellformed, TypeOK
<1>3. ASSUME phase' = [phase EXCEPT ![o] = "done"]
      PROVE  NewUntouched' /\ NamesMatch' /\ CheckedHasValue'
  <2>1. NewUntouched'
    BY <1>1, <1>3 DEF Wellformed, TypeOK, NewUntouched
  <2>2. NamesMatch'
    BY <1>1, <1>3 DEF Wellformed, TypeOK, NamesMatch
  <2>3. CheckedHasValue'
    BY <1>1 DEF Wellformed, CheckedHasValue
  <2>. QED
    BY <2>1, <2>2, <2>3
<1>4. ASSUME phase' = [phase EXCEPT ![o] = "done"],
             \A p \in Request \ {o} : reply'[p] = reply[p]
      PROVE  RepliesAreAnswers'
  BY <1>1, <1>3, <1>4 DEF Wellformed, TypeOK, RepliesAreAnswers
<1>5. ASSUME \A p \in Request \ {o} : reply'[p] = reply[p],
             o \in Gets /\ reply'[o].value # None =>
                 Written(op[o].key, reply'[o].value, reply'[o].timestamp)
      PROVE  RepliesAreWrites'
  <2>. SUFFICES ASSUME NEW g \in Gets, reply'[g] # None, reply'[g].value # None
                PROVE  Written(op[g].key, reply'[g].value, reply'[g].timestamp)
    BY <1>1, WritesKept DEF RepliesAreWrites, Written
  <2>1. CASE g = o
    BY <1>5, <2>1
  <2>2. CASE g # o
    BY <1>5, <2>2 DEF Wellformed, Integrity, RepliesAreWrites, Request
  <2>. QED
    BY <2>1, <2>2
<1>6. CASE Answer(o, None, None) /\ UNCHANGED repairVars
  <2>1. TypeOK'
    BY <1>1, <1>2, <1>6 DEF Wellformed, TypeOK, Phase, repairVars
  <2>. QED
    BY <1>1, <1>2, <1>3, <1>4, <1>5, <1>6, <2>1, Frame DEF Wellformed, Integrity
<1>7. ASSUME NEW r \in FirstFound(o),
             latest' = [latest EXCEPT ![o] = resp[o][r]],
             repair' = [repair EXCEPT ![o] = [s \in Responder |->
                           IF s \in Stale(o) THEN "sent" ELSE repair[o][s]]],
             Answer(o, resp[o][r].value,
                    IF resp[o][r].value = None THEN None ELSE resp[o][r].timestamp)
      PROVE  Wellformed'
  <2>1. /\ o \in Gets
        /\ resp[o][r] \in Response
        /\ resp[o][r].value \in Value
        /\ resp[o][r].timestamp \in Nat
        /\ Written(op[o].key, resp[o][r].value, resp[o][r].timestamp)
    BY FreshestAnswer
  <2>2. Answer(o, resp[o][r].value, resp[o][r].timestamp)
    BY <1>7, <2>1, NoneAssumption
  <2>3. /\ phase' = [phase EXCEPT ![o] = "done"]
        /\ reply' \in [Request -> Reply \cup {None}]
        /\ reply'[o].value = resp[o][r].value
        /\ reply'[o].timestamp = resp[o][r].timestamp
        /\ \A p \in Request \ {o} : reply'[p] = reply[p]
    BY <1>2, <2>1, <2>2
  <2>4. TypeOK'
    BY <1>1, <1>7, <2>1, <2>3 DEF Wellformed, TypeOK, Phase, RepairState
  <2>5. RepairsAreWrites'
    <3>. SUFFICES ASSUME NEW p \in Request, NEW q \in Responder, repair'[p][q] # "none"
                  PROVE  /\ phase'[p] = "done"
                         /\ p \in Gets
                         /\ latest'[p].value \in Value
                         /\ latest'[p].timestamp \in Nat
                         /\ Written(op[p].key, latest[p].value, latest[p].timestamp)'
      BY DEF RepairsAreWrites
    <3>1. CASE p = o
      <4>1. latest'[o] = resp[o][r] /\ phase'[o] = "done"
        BY <1>7, <2>3 DEF Wellformed, TypeOK
      <4>. QED
        BY <1>1, <2>1, <3>1, <4>1, WritesKept DEF Written
    <3>2. CASE p # o
      <4>1. latest'[p] = latest[p] /\ repair'[p] = repair[p] /\ phase'[p] = phase[p]
        BY <1>7, <2>3, <3>2 DEF Wellformed, TypeOK
      <4>. QED
        BY <1>1, <3>2, <4>1, WritesKept DEF Wellformed, RepairsAreWrites, Written
    <3>. QED
      BY <3>1, <3>2
  <2>6. RepliesAreWrites'
    BY <1>5, <2>1, <2>3
  <2>. QED
    BY <1>1, <1>3, <1>4, <2>3, <2>4, <2>5, <2>6, Frame DEF Wellformed, Integrity
<1>. QED
  BY <1>6, <1>7 DEF FinishGet

LEMMA ReceiveRepairStep ==
    ASSUME Wellformed, OpsKept, NEW o \in Request, NEW n \in Node,
           ReceiveRepair(o, n) \/ LoseRepair(o, n)
    PROVE  Wellformed'
<1>1. /\ n \in Responder
      /\ repair[o][n] = "sent"
      /\ UNCHANGED <<store, phase, op, coord, reply, call, resp, latest>>
  BY DEF ReceiveRepair, LoseRepair, requestVars, Responder
<1>2. RepairOperation(o) \in Operation
  BY <1>1, RepairIsAdd
<1>3. logged' \in [Node -> SUBSET Operation]
  <2>1. logged \in [Node -> SUBSET Operation]
    BY DEF Wellformed, TypeOK
  <2>2. ASSUME LoseRepair(o, n) PROVE logged' \in [Node -> SUBSET Operation]
    BY <2>1, <2>2 DEF LoseRepair
  <2>3. ASSUME ReceiveRepair(o, n) PROVE logged' \in [Node -> SUBSET Operation]
    BY <1>2, <2>1, <2>3 DEF ReceiveRepair, Log
  <2>. QED
    BY <2>2, <2>3
<1>4. PICK c \in RepairState : repair' = [repair EXCEPT ![o][n] = c]
  BY DEF ReceiveRepair, LoseRepair, RepairState
<1>5. TypeOK'
  BY <1>1, <1>3, <1>4 DEF Wellformed, TypeOK
<1>6. NewUntouched' /\ NamesMatch' /\ CheckedHasValue'
  BY <1>1 DEF Wellformed, NewUntouched, NamesMatch, CheckedHasValue
<1>7. RepairsAreWrites'
  <2>1. \A p \in Request, r \in Responder : repair'[p][r] # "none" => repair[p][r] # "none"
    BY <1>1, <1>4 DEF Wellformed, TypeOK
  <2>. QED
    BY <1>1, <2>1 DEF Wellformed, RepairsAreWrites, Written, Begun
<1>. QED
  BY <1>1, <1>5, <1>6, <1>7, Frame DEF Wellformed, Integrity

LEMMA ApplyRepairStep ==
    ASSUME Wellformed, OpsKept, NEW o \in Request, NEW r \in Responder, ApplyRepair(o, r)
    PROVE  Wellformed'
<1>. DEFINE n == Site(o, r)
<1>1. /\ repair[o][r] # "none"
      /\ store' = [store EXCEPT ![n] = RepairedStore(o, n)]
      /\ repair' = [repair EXCEPT ![o][r] = "done"]
      /\ UNCHANGED <<logged, phase, op, coord, reply, call, resp, latest>>
  BY DEF ApplyRepair, requestVars
<1>2. /\ phase[o] = "done"
      /\ latest[o].value \in Value
      /\ latest[o].timestamp \in Nat
      /\ Written(op[o].key, latest[o].value, latest[o].timestamp)
  BY <1>1 DEF Wellformed, RepairsAreWrites
<1>3. n \in Node /\ op[o].key \in Key
  BY <1>2, SiteType DEF Wellformed, Operation
<1>4. /\ RepairedStore(o, n) \in Store
      /\ RepairedStore(o, n) = Add(store[n], RepairOperation(o))
      /\ RepairOperation(o) = [name |-> "ADD", key |-> op[o].key, value |-> latest[o].value,
                               timestamp |-> latest[o].timestamp]
  BY <1>1, <1>3, RepairIsAdd
<1>. HIDE DEF n
<1>5. TypeOK'
  BY <1>1, <1>3, <1>4 DEF Wellformed, TypeOK, RepairState
<1>6. NewUntouched' /\ NamesMatch' /\ CheckedHasValue'
  BY <1>1 DEF Wellformed, NewUntouched, NamesMatch, CheckedHasValue
<1>7. RepairsAreWrites'
  BY <1>1 DEF Wellformed, TypeOK, RepairsAreWrites, Written, Begun
<1>8. StoresHoldWrites'
  <2>. DEFINE e == [value |-> latest[o].value, timestamp |-> latest[o].timestamp, valid |-> TRUE]
  <2>1. store' = [store EXCEPT ![n] = [store[n] EXCEPT ![op[o].key] = e]]
    BY <1>1, <1>4 DEF Add
  <2>2. \E p \in Begun' : op'[p] = [name |-> "ADD", key |-> op[o].key, value |-> e.value,
                                    timestamp |-> e.timestamp]
    BY <1>1, <1>2 DEF Begun, Written
  <2>3. e.valid
    OBVIOUS
  <2>. HIDE DEF e
  <2>. QED
    BY <1>3, <2>1, <2>2, <2>3, PutKeepsStores
<1>. QED
  BY <1>1, <1>5, <1>6, <1>7, <1>8, Frame DEF Wellformed, Integrity

-----------------------------------------------------------------------------
(***************************************************************************)
(* Theorems                                                                *)
(***************************************************************************)
LEMMA WellformedInit == Init => Wellformed
<1>. SUFFICES ASSUME Init PROVE Wellformed
  OBVIOUS
<1>1. TypeOK
  BY DEF Init, TypeOK, Store, EmptyStore, Response, NotFound, Phase, CallState, RepairState
<1>2. NewUntouched /\ NamesMatch /\ CheckedHasValue
  BY DEF Init, NewUntouched, NamesMatch, CheckedHasValue
<1>3. AnswersAreWrites /\ RepairsAreWrites /\ RepliesAreAnswers
  BY DEF Init, AnswersAreWrites, RepairsAreWrites, RepliesAreAnswers, NotFound
<1>4. Integrity
  BY DEF Init, Integrity, StoresHoldWrites, RepliesAreWrites, EmptyStore, Request
<1>. QED
  BY <1>1, <1>2, <1>3, <1>4 DEF Wellformed

LEMMA WellformedNext == Wellformed /\ [Next]_vars => Wellformed'
<1>. SUFFICES ASSUME Wellformed, [Next]_vars PROVE Wellformed'
  OBVIOUS
<1>1. OpsKept
  BY NextKeepsOps DEF Wellformed
<1>2. CASE UNCHANGED vars
  <2>1. TypeOK' /\ NewUntouched' /\ CheckedHasValue'
    BY <1>2 DEF vars, Wellformed, TypeOK, NewUntouched, CheckedHasValue
  <2>. QED
    BY <1>1, <1>2, <2>1, Frame DEF vars, Wellformed, Integrity, repairVars
<1>. QED
  BY <1>1, <1>2, NextActions, BeginAddStep, BeginRemoveStep, BeginGetStep, FanOutStep,
     FinishWriteStep, FinishGetStep, StoreAddStep, StoreRemoveCheckStep, StoreRemoveUpdateStep,
     ApplyRepairStep, ReceiveWriteStep, ServeGetStep, LoseCallStep, JoinNextStep,
     ReceiveRepairStep

\* Every run keeps the circle of answers, repairs and entries to writes clients issued.
THEOREM WellformedAlways == Spec => []Wellformed
BY WellformedInit, WellformedNext, PTL DEF Spec

(***************************************************************************)
(* Every variable keeps its type: in particular no handler ever buries a   *)
(* missing value or repairs with a missing timestamp.                      *)
(***************************************************************************)
THEOREM TypeCorrect == Spec => []TypeOK
<1>1. Wellformed => TypeOK
  BY DEF Wellformed
<1>. QED
  BY <1>1, WellformedAlways, PTL

(***************************************************************************)
(* Stores and replies never mix the value of one write with the timestamp  *)
(* of another, whatever calls fail and however requests interleave.        *)
(***************************************************************************)
THEOREM IntegrityHolds == Spec => []Integrity
<1>1. Wellformed => Integrity
  BY DEF Wellformed
<1>. QED
  BY <1>1, WellformedAlways, PTL

-----------------------------------------------------------------------------
(***************************************************************************)
(* The status of an answer                                                 *)
(***************************************************************************)
\* The loop over the answers stops on the vote that completes the quorum.
VotesBounded ==
    \A o \in Request : phase[o] # "new" => Cardinality(Votes(o)) <= Needed(o)

\* A quorum of two or more needs at least one vote of a peer.
LEMMA NeededType ==
    ASSUME ReadQuorum >= 2, WriteQuorum >= 2, NEW o \in Request
    PROVE  /\ Needed(o) \in Nat \ {0}
           /\ Needed(o) + 1 = IF op[o].name = "GET" THEN ReadQuorum ELSE WriteQuorum
BY QuorumAssumption DEF Needed, Minus1

\* Only join_next adds to the votes, one at a time.
LEMMA VotesStep ==
    ASSUME TypeOK, [Next]_vars, NEW o \in Request
    PROVE  \/ Votes(o)' \subseteq Votes(o)
           \/ \E n \in Node : ~Reached(o) /\ Votes(o)' = Votes(o) \cup {n}
<1>. USE DEF TypeOK, Votes, Responder
<1>1. ASSUME NEW p \in Request, NEW r \in Responder, NEW c, c # "voted",
             call' = [call EXCEPT ![p][r] = c]
      PROVE  Votes(o)' \subseteq Votes(o)
  BY <1>1
<1>2. ASSUME UNCHANGED call PROVE Votes(o)' \subseteq Votes(o)
  BY <1>2
<1>3. ASSUME NEW p \in Request, NEW n \in Node, NEW k \in Key
      PROVE  /\ BeginRemove(p, n, k) => Votes(o)' \subseteq Votes(o)
             /\ BeginGet(p, n, k) => Votes(o)' \subseteq Votes(o)
             /\ \A v \in Value : BeginAdd(p, n, k, v) => Votes(o)' \subseteq Votes(o)
  <2>1. BeginRemove(p, n, k) => Votes(o)' \subseteq Votes(o)
    BY <1>1 DEF BeginRemove
  <2>2. BeginGet(p, n, k) => Votes(o)' \subseteq Votes(o)
    BY <1>1 DEF BeginGet
  <2>3. \A v \in Value : BeginAdd(p, n, k, v) => Votes(o)' \subseteq Votes(o)
    BY <1>1 DEF BeginAdd
  <2>. QED
    BY <2>1, <2>2, <2>3
<1>4. ASSUME NEW p \in Request, FanOut(p) PROVE Votes(o)' \subseteq Votes(o)
  BY <1>4 DEF FanOut
<1>5. ASSUME NEW p \in Request, FinishAdd(p) \/ FinishRemove(p) \/ FinishGet(p)
      PROVE  Votes(o)' \subseteq Votes(o)
  BY <1>2, <1>5 DEF FinishAdd, FinishRemove, FinishGet
<1>6. ASSUME NEW p \in Request, NEW r \in Responder,
             \/ StoreAdd(p, r) \/ StoreRemoveCheck(p, r) \/ StoreRemoveUpdate(p, r)
             \/ ApplyRepair(p, r)
      PROVE  Votes(o)' \subseteq Votes(o)
  BY <1>1, <1>2, <1>6 DEF StoreAdd, StoreRemoveCheck, StoreRemoveUpdate, ApplyRepair
<1>7. ASSUME NEW p \in Request, NEW n \in Node,
             \/ ReceiveWrite(p, n) \/ ServeGet(p, n) \/ LoseCall(p, n)
             \/ ReceiveRepair(p, n) \/ LoseRepair(p, n)
      PROVE  Votes(o)' \subseteq Votes(o)
  BY <1>1, <1>2, <1>7 DEF ReceiveWrite, ServeGet, LoseCall, ReceiveRepair, LoseRepair
<1>8. ASSUME NEW p \in Request, NEW n \in Node, JoinNext(p, n)
      PROVE  \/ Votes(o)' \subseteq Votes(o)
             \/ ~Reached(o) /\ Votes(o)' = Votes(o) \cup {n}
  <2>1. ~Reached(p) /\ call' = [call EXCEPT ![p][n] = "voted"]
    BY <1>8 DEF JoinNext
  <2>2. CASE p = o
    BY <2>1, <2>2
  <2>3. CASE p # o
    BY <2>1, <2>3
  <2>. QED
    BY <2>2, <2>3
<1>9. CASE UNCHANGED vars
  BY <1>2, <1>9 DEF vars
<1>. QED
  BY <1>3, <1>4, <1>5, <1>6, <1>7, <1>8, <1>9, NextActions DEF Request

LEMMA VotesBoundedNext ==
    ASSUME ReadQuorum >= 2, WriteQuorum >= 2, Wellformed, VotesBounded, [Next]_vars
    PROVE  VotesBounded'
<1>. SUFFICES ASSUME NEW o \in Request PROVE Cardinality(Votes(o)') <= Needed(o)'
  BY DEF VotesBounded
<1>1. IsFiniteSet(Votes(o)) /\ Cardinality(Votes(o)) \in Nat
  BY VotesFinite
<1>2. Needed(o)' \in Nat \ {0}
  BY QuorumAssumption DEF Needed, Minus1
<1>3. CASE phase[o] = "new"
  <2>1. Votes(o) = {}
    BY <1>3 DEF Wellformed, NewUntouched, Votes, Responder
  <2>2. Votes(o)' = {} \/ \E n \in Node : Votes(o)' = {n}
    BY <2>1, VotesStep DEF Wellformed
  <2>3. CASE Votes(o)' = {}
    BY <1>2, <2>3, FS_EmptySet
  <2>4. ASSUME NEW n \in Node, Votes(o)' = {n} PROVE Cardinality(Votes(o)') <= Needed(o)'
    <3>1. Cardinality({n}) = 1
      BY FS_Singleton
    <3>. QED
      BY <1>2, <2>4, <3>1
  <2>. QED
    BY <2>2, <2>3, <2>4
<1>4. CASE phase[o] # "new"
  <2>1. Needed(o)' = Needed(o) /\ Cardinality(Votes(o)) <= Needed(o)
    BY <1>4, NextKeepsOps DEF Wellformed, OpsKept, Needed, VotesBounded
  <2>2. CASE Votes(o)' \subseteq Votes(o)
    BY <1>1, <1>2, <2>1, <2>2, FS_Subset, FS_CardinalityType
  <2>3. ASSUME NEW n \in Node, ~Reached(o), Votes(o)' = Votes(o) \cup {n}
        PROVE  Cardinality(Votes(o)') <= Needed(o)'
    <3>1. Cardinality(Votes(o)) < Needed(o)
      BY <1>1, <1>2, <2>1, <2>3, FS_EmptySet DEF Reached
    <3>2. Cardinality(Votes(o) \cup {n}) \in {Cardinality(Votes(o)), Cardinality(Votes(o)) + 1}
      BY <1>1, FS_AddElement
    <3>. QED
      BY <1>1, <1>2, <2>1, <2>3, <3>1, <3>2
  <2>. QED
    BY <2>2, <2>3, VotesStep DEF Wellformed
<1>. QED
  BY <1>3, <1>4

\* An answer is given once, with the votes there are.
LEMMA RepliesStep ==
    ASSUME TypeOK, [Next]_vars, NEW o \in Request, reply'[o] # reply[o]
    PROVE  /\ phase[o] # "new"
           /\ reply'[o].status = Status(o)
           /\ reply'[o].achieved = Cardinality(Votes(o)) + 1
<1>1. ASSUME NEW p \in Request, Finish(p) PROVE p = o /\ phase[o] = "collect" /\ \E v, t : Answer(o, v, t)
  <2>1. phase[p] = "collect" /\ \E v, t : Answer(p, v, t)
    BY <1>1 DEF Finish, FinishAdd, FinishRemove, FinishGet, LoopOver
  <2>2. p = o
    BY <2>1 DEF Answer, TypeOK
  <2>. QED
    BY <2>1, <2>2
<1>2. \E p \in Request : Finish(p)
  BY NextActions, ZenonT(30) DEF Finish, BeginAdd, BeginRemove, BeginGet, FanOut, StoreAdd, StoreRemoveCheck,
     StoreRemoveUpdate, ApplyRepair, ReceiveWrite, ServeGet, LoseCall, JoinNext, ReceiveRepair,
     LoseRepair, requestVars, vars
<1>. QED
  BY <1>1, <1>2 DEF Answer, TypeOK

(***************************************************************************)
(* The status of an answer is `success' exactly if it reports as many      *)
(* votes as the quorum asks for, for quorums of two or more.               *)
(***************************************************************************)
THEOREM StatusReflectsQuorumHolds ==
    ASSUME ReadQuorum >= 2, WriteQuorum >= 2
    PROVE  Spec => []StatusReflectsQuorum
<1>1. Init => VotesBounded /\ StatusReflectsQuorum
  BY DEF Init, VotesBounded, StatusReflectsQuorum
<1>2. Wellformed /\ VotesBounded /\ [Next]_vars => VotesBounded'
  BY VotesBoundedNext
<1>3. Wellformed /\ VotesBounded /\ StatusReflectsQuorum /\ [Next]_vars => StatusReflectsQuorum'
  <2>. SUFFICES ASSUME Wellformed, VotesBounded, StatusReflectsQuorum, [Next]_vars,
                       NEW o \in Request, reply'[o] # None
                PROVE  reply'[o].status = "success" <=>
                           reply'[o].achieved >= IF op'[o].name = "GET" THEN ReadQuorum
                                                                         ELSE WriteQuorum
    BY DEF StatusReflectsQuorum
  <2>1. phase[o] # "new" => op'[o] = op[o]
    BY NextKeepsOps DEF Wellformed, OpsKept
  <2>2. CASE reply'[o] = reply[o]
    BY <2>1, <2>2 DEF Wellformed, RepliesAreAnswers, StatusReflectsQuorum
  <2>3. CASE reply'[o] # reply[o]
    <3>1. /\ phase[o] # "new"
          /\ reply'[o].status = Status(o)
          /\ reply'[o].achieved = Cardinality(Votes(o)) + 1
      BY <2>3, RepliesStep DEF Wellformed
    <3>2. Cardinality(Votes(o)) \in Nat /\ Cardinality(Votes(o)) <= Needed(o)
      BY <3>1, VotesFinite DEF VotesBounded
    <3>. QED
      BY <2>1, <3>1, <3>2, NeededType DEF Status
  <2>. QED
    BY <2>2, <2>3
<1>. QED
  BY <1>1, <1>2, <1>3, WellformedAlways, PTL DEF Spec

=============================================================================
