---------------------- MODULE LallyReplicationLogProofs ----------------------
(***************************************************************************)
(* Proofs of what LallyReplication promises about the hooks: entries are   *)
(* logged before they are stored, and an acknowledged write is in the log  *)
(* of a write quorum.                                                      *)
(***************************************************************************)
EXTENDS LallyReplicationProofs

-----------------------------------------------------------------------------
(***************************************************************************)
(* The inductive invariant                                                 *)
(***************************************************************************)
Writes == Adds \cup Removes

Past == {"ready", "checked", "served", "voted"}

\* The hooks of the coordinator run first, those of a peer before its store.
CallsLogged ==
    \A o \in Writes :
        /\ phase[o] # "new" => op[o] \in logged[coord[o]]
        /\ \A n \in Node : call[o][n] \in Past => op[o] \in logged[n]

\* Only the nodes of the coordinator's pool are called.
CalleesPooled ==
    \A o \in Request, n \in Node :
        call[o][n] # "idle" => phase[o] # "new" /\ n \in Pool[coord[o]]

RepairsLogged ==
    \A o \in Request, n \in Node :
        repair[o][n] = "ready" => RepairOperation(o) \in logged[n]

\* The votes of an answered request are the ones its status was computed from.
RepliesCounted ==
    \A o \in Request :
        reply[o] # None /\ reply[o].status = "success" =>
            Cardinality(Votes(o)) = Needed(o)

Ledger == /\ CallsLogged
          /\ CalleesPooled
          /\ RepairsLogged
          /\ RepliesCounted
          /\ LoggedUnlessRepaired

-----------------------------------------------------------------------------
(***************************************************************************)
(* What no step undoes                                                     *)
(***************************************************************************)
\* Logs only grow; a spawned repair keeps its answer, a finished one is kept.
LogsKept ==
    /\ \A n \in Node : logged[n] \subseteq logged'[n]
    /\ \A o \in Request, r \in Responder :
           repair[o][r] # "none" => /\ latest'[o] = latest[o]
                                    /\ repair[o][r] = "done" => repair'[o][r] = "done"

LEMMA NextKeepsLogs == ASSUME Wellformed, [Next]_vars PROVE LogsKept
<1>1. ASSUME UNCHANGED <<latest, repair>>, \A n \in Node : logged[n] \subseteq logged'[n]
      PROVE  LogsKept
  BY <1>1 DEF LogsKept
<1>2. ASSUME NEW n \in Node, NEW operation, Log(n, operation)
      PROVE  \A m \in Node : logged[m] \subseteq logged'[m]
  BY <1>2 DEF Log, Wellformed, TypeOK
<1>3. ASSUME NEW o \in Request, NEW n \in Node, NEW k \in Key
      PROVE  /\ BeginRemove(o, n, k) => LogsKept
             /\ BeginGet(o, n, k) => LogsKept
             /\ \A v \in Value : BeginAdd(o, n, k, v) => LogsKept
  <2>1. BeginRemove(o, n, k) => LogsKept
    BY <1>1, <1>2 DEF BeginRemove, repairVars
  <2>2. BeginGet(o, n, k) => LogsKept
    BY <1>1 DEF BeginGet, repairVars
  <2>3. \A v \in Value : BeginAdd(o, n, k, v) => LogsKept
    BY <1>1, <1>2 DEF BeginAdd, repairVars
  <2>. QED
    BY <2>1, <2>2, <2>3
<1>4. ASSUME NEW o \in Request, FanOut(o) \/ FinishAdd(o) \/ FinishRemove(o)
      PROVE  LogsKept
  BY <1>1, <1>4 DEF FanOut, FinishAdd, FinishRemove, repairVars
<1>5. ASSUME NEW o \in Request, NEW r \in Responder,
             StoreAdd(o, r) \/ StoreRemoveCheck(o, r) \/ StoreRemoveUpdate(o, r)
      PROVE  LogsKept
  BY <1>1, <1>5 DEF StoreAdd, StoreRemoveCheck, StoreRemoveUpdate, repairVars
<1>6. ASSUME NEW o \in Request, NEW n \in Node, ServeGet(o, n) \/ LoseCall(o, n) \/ JoinNext(o, n)
      PROVE  LogsKept
  BY <1>1, <1>6 DEF ServeGet, LoseCall, JoinNext, repairVars
<1>7. ASSUME NEW o \in Request, NEW n \in Node, ReceiveWrite(o, n) PROVE LogsKept
  BY <1>1, <1>2, <1>7 DEF ReceiveWrite, repairVars
<1>8. ASSUME NEW o \in Request, FinishGet(o) PROVE LogsKept
  <2>1. UNCHANGED logged /\ phase[o] = "collect"
    BY <1>8 DEF FinishGet, LoopOver
  <2>2. \A r \in Responder : repair[o][r] = "none"
    BY <2>1 DEF Wellformed, RepairsAreWrites
  <2>3. \A p \in Request \ {o} : latest'[p] = latest[p] /\ repair'[p] = repair[p]
    BY <1>8 DEF FinishGet, repairVars, Wellformed, TypeOK
  <2>. QED
    BY <2>1, <2>2, <2>3 DEF LogsKept
<1>9. ASSUME NEW o \in Request, NEW r \in Responder, NEW c,
             repair[o][r] # "done", repair' = [repair EXCEPT ![o][r] = c], UNCHANGED latest,
             \A n \in Node : logged[n] \subseteq logged'[n]
      PROVE  LogsKept
  BY <1>9 DEF LogsKept, Wellformed, TypeOK
<1>10. ASSUME NEW o \in Request, NEW r \in Responder, ApplyRepair(o, r) PROVE LogsKept
  BY <1>9, <1>10 DEF ApplyRepair
<1>11. ASSUME NEW o \in Request, NEW n \in Node, ReceiveRepair(o, n) PROVE LogsKept
  BY <1>2, <1>9, <1>11 DEF ReceiveRepair, Responder
<1>12. ASSUME NEW o \in Request, NEW n \in Node, LoseRepair(o, n) PROVE LogsKept
  BY <1>9, <1>12 DEF LoseRepair, Responder
<1>13. CASE UNCHANGED vars
  BY <1>1, <1>13 DEF vars
<1>. QED
  BY <1>3, <1>4, <1>5, <1>6, <1>7, <1>8, <1>10, <1>11, <1>12, <1>13, NextActions DEF Request

\* The reason why an entry is in a store outlives every step that keeps the entry.
LEMMA EntryKept ==
    ASSUME Wellformed, Ledger, OpsKept, LogsKept, NEW n \in Node, NEW k \in Key,
           store'[n][k] = store[n][k], store[n][k] # None
    PROVE  (LoggedHere(n, k) \/ RepairedLocally(n, k))'
<1>1. CASE LoggedHere(n, k)
  BY <1>1 DEF LoggedHere, LogsKept
<1>2. CASE RepairedLocally(n, k)
  <2>1. PICK g \in Gets : /\ coord[g] = n
                         /\ op[g].key = k
                         /\ repair[g][Local] = "done"
                         /\ latest[g] = [value     |-> store[n][k].value,
                                        timestamp |-> store[n][k].timestamp]
    BY <1>2 DEF RepairedLocally
  <2>2. g \in Request /\ Local \in Responder
    BY DEF Request, Responder
  <2>3. phase[g] # "new"
    BY <2>1, <2>2 DEF Wellformed, RepairsAreWrites
  <2>. QED
    BY <2>1, <2>2, <2>3 DEF OpsKept, LogsKept, RepairedLocally
<1>. QED
  BY <1>1, <1>2 DEF Ledger, LoggedUnlessRepaired

\* Putting a logged or locally repaired entry keeps every store accounted for.
LEMMA PutLogged ==
    ASSUME Wellformed, Ledger, OpsKept, LogsKept,
           NEW n \in Node, NEW l \in Key, NEW e,
           store' = [store EXCEPT ![n] = [store[n] EXCEPT ![l] = e]],
           (LoggedHere(n, l) \/ RepairedLocally(n, l))'
    PROVE  LoggedUnlessRepaired'
<1>1. ASSUME NEW m \in Node, NEW k \in Key, ~(m = n /\ k = l) PROVE store'[m][k] = store[m][k]
  BY <1>1 DEF Wellformed, TypeOK, Store
<1>2. ASSUME NEW m \in Node, NEW k \in Key, store'[m][k] # None
      PROVE  (LoggedHere(m, k) \/ RepairedLocally(m, k))'
  <2>1. CASE m = n /\ k = l
    BY <2>1
  <2>2. CASE ~(m = n /\ k = l)
    BY <1>1, <1>2, <2>2, EntryKept
  <2>. QED
    BY <2>1, <2>2
<1>. QED
  BY <1>2 DEF LoggedUnlessRepaired

NoneBegins == \A o \in Request : phase'[o] # "new" => phase[o] # "new"

\* A part of the invariant whose variables a step leaves alone still holds.
LEMMA LedgerFrame ==
    ASSUME Wellformed, Ledger, OpsKept, LogsKept
    PROVE  /\ NoneBegins /\ UNCHANGED call => CallsLogged' /\ CalleesPooled'
           /\ UNCHANGED repair => RepairsLogged'
           /\ UNCHANGED <<call, reply>> => RepliesCounted'
           /\ UNCHANGED store => LoggedUnlessRepaired'
<1>1. ASSUME NoneBegins, UNCHANGED call PROVE CallsLogged'
  <2>1. ASSUME NEW o \in Writes, phase'[o] # "new" PROVE op'[o] \in logged'[coord'[o]]
    <3>1. o \in Request /\ phase[o] # "new"
      BY <1>1, <2>1 DEF NoneBegins, Writes, Request
    <3>. QED
      BY <3>1 DEF Wellformed, TypeOK, Ledger, CallsLogged, OpsKept, LogsKept
  <2>2. ASSUME NEW o \in Writes, NEW n \in Node, call'[o][n] \in Past
        PROVE  op'[o] \in logged'[n]
    <3>1. o \in Request /\ call[o][n] # "idle" /\ n \in Responder
      BY <1>1, <2>2 DEF Writes, Request, Past, Responder
    <3>2. phase[o] # "new"
      BY <3>1 DEF Wellformed, NewUntouched
    <3>. QED
      BY <1>1, <2>2, <3>1, <3>2 DEF Ledger, CallsLogged, OpsKept, LogsKept
  <2>. QED
    BY <2>1, <2>2 DEF CallsLogged
<1>2. ASSUME NoneBegins, UNCHANGED call PROVE CalleesPooled'
  BY <1>2 DEF Ledger, CalleesPooled, OpsKept
<1>3. ASSUME UNCHANGED repair PROVE RepairsLogged'
  <2>. SUFFICES ASSUME NEW o \in Request, NEW n \in Node, repair'[o][n] = "ready"
                PROVE  RepairOperation(o)' \in logged'[n]
    BY DEF RepairsLogged
  <2>1. repair[o][n] = "ready" /\ n \in Responder
    BY <1>3 DEF Responder
  <2>2. phase[o] = "done"
    BY <2>1 DEF Wellformed, RepairsAreWrites
  <2>3. latest'[o] = latest[o] /\ op'[o] = op[o]
    BY <2>1, <2>2 DEF LogsKept, OpsKept
  <2>. QED
    BY <2>1, <2>3 DEF Ledger, RepairsLogged, LogsKept, RepairOperation
<1>4. ASSUME UNCHANGED <<call, reply>> PROVE RepliesCounted'
  BY <1>4 DEF Wellformed, RepliesAreAnswers, Ledger, RepliesCounted, OpsKept, Votes, Needed
<1>5. ASSUME UNCHANGED store PROVE LoggedUnlessRepaired'
  BY <1>5, EntryKept DEF LoggedUnlessRepaired
<1>. QED
  BY <1>1, <1>2, <1>3, <1>4, <1>5

\* A change of one call, of a request without a reply or to something else than a vote.
LEMMA OneCall ==
    ASSUME Wellformed, Ledger, OpsKept, LogsKept, UNCHANGED <<phase, reply>>,
           NEW o \in Request, NEW r \in Responder, NEW c,
           call' = [call EXCEPT ![o][r] = c],
           call[o][r] # "idle",
           r \in Node /\ o \in Writes /\ c \in Past => op[o] \in logged'[r],
           phase[o] # "done" \/ (call[o][r] # "voted" /\ c # "voted")
    PROVE  CallsLogged' /\ CalleesPooled' /\ RepliesCounted'
<1>1. phase[o] # "new" /\ op'[o] = op[o]
  BY DEF Wellformed, NewUntouched, OpsKept
<1>2. ASSUME NEW p \in Request, NEW q \in Responder
      PROVE  call'[p][q] = IF p = o /\ q = r THEN c ELSE call[p][q]
  BY DEF Wellformed, TypeOK
<1>3. CallsLogged'
  <2>1. ASSUME NEW p \in Writes, phase'[p] # "new" PROVE op'[p] \in logged'[coord'[p]]
    BY <2>1, SiteType DEF Wellformed, Ledger, CallsLogged, OpsKept, LogsKept, Writes, Request
  <2>2. ASSUME NEW p \in Writes, NEW n \in Node, call'[p][n] \in Past
        PROVE  op'[p] \in logged'[n]
    <3>1. p \in Request /\ n \in Responder
      BY DEF Writes, Request, Responder
    <3>2. CASE p = o /\ n = r
      BY <1>1, <1>2, <2>2, <3>1, <3>2
    <3>3. CASE ~(p = o /\ n = r)
      <4>1. call[p][n] \in Past
        BY <1>2, <2>2, <3>1, <3>3
      <4>2. phase[p] # "new"
        BY <3>1, <4>1 DEF Wellformed, NewUntouched, Past
      <4>. QED
        BY <3>1, <4>1, <4>2 DEF Ledger, CallsLogged, OpsKept, LogsKept
    <3>. QED
      BY <3>2, <3>3
  <2>. QED
    BY <2>1, <2>2 DEF CallsLogged
<1>4. CalleesPooled'
  <2>. SUFFICES ASSUME NEW p \in Request, NEW n \in Node, call'[p][n] # "idle"
                PROVE  phase'[p] # "new" /\ n \in Pool[coord'[p]]
    BY DEF CalleesPooled
  <2>1. n \in Responder /\ call[p][n] # "idle"
    BY <1>2 DEF Responder
  <2>. QED
    BY <2>1 DEF Ledger, CalleesPooled, OpsKept
<1>5. RepliesCounted'
  <2>. SUFFICES ASSUME NEW p \in Request, reply'[p] # None, reply'[p].status = "success"
                PROVE  Cardinality(Votes(p)') = Needed(p)'
    BY DEF RepliesCounted
  <2>1. phase[p] = "done"
    BY DEF Wellformed, RepliesAreAnswers
  <2>2. \A n \in Node : call'[p][n] = "voted" <=> call[p][n] = "voted"
    BY <1>2, <2>1 DEF Responder
  <2>3. Votes(p)' = Votes(p)
    BY <2>2 DEF Votes
  <2>4. Needed(p)' = Needed(p)
    BY <2>1 DEF OpsKept, Needed
  <2>. QED
    BY <2>3, <2>4 DEF Ledger, RepliesCounted
<1>. QED
  BY <1>3, <1>4, <1>5

-----------------------------------------------------------------------------
(***************************************************************************)
(* Each action preserves the invariant                                     *)
(***************************************************************************)
\* An ADD or a REMOVE that begins has been through the hooks of its coordinator.
LEMMA BeginLedger ==
    ASSUME Wellformed, Ledger, OpsKept, LogsKept,
           NEW o \in Request, NEW n \in Node, NEW operation, NEW c,
           Accept(o, n, operation),
           o \in Writes => operation \in logged'[n],
           call' = [call EXCEPT ![o][Local] = c],
           UNCHANGED <<store, repair, latest, reply>>
    PROVE  Ledger'
<1>1. /\ \A p \in Request \ {o} : /\ phase'[p] = phase[p]
                                 /\ op'[p] = op[p]
                                 /\ coord'[p] = coord[p]
                                 /\ call'[p] = call[p]
      /\ \A m \in Node : call'[o][m] = call[o][m]
  BY NodeAssumption DEF Accept, Wellformed, TypeOK, Responder
<1>2. phase[o] = "new" /\ op'[o] = operation /\ coord'[o] = n
  BY DEF Accept, Wellformed, TypeOK
<1>3. \A m \in Node : call'[o][m] = "idle"
  BY <1>1, <1>2 DEF Wellformed, NewUntouched, Responder
<1>4. CallsLogged'
  <2>1. ASSUME NEW p \in Writes, phase'[p] # "new" PROVE op'[p] \in logged'[coord'[p]]
    <3>1. CASE p = o
      BY <1>2, <3>1
    <3>2. CASE p # o
      BY <1>1, <2>1, <3>2 DEF Wellformed, TypeOK, Ledger, CallsLogged, LogsKept, Writes, Request
    <3>. QED
      BY <3>1, <3>2
  <2>2. ASSUME NEW p \in Writes, NEW m \in Node, call'[p][m] \in Past
        PROVE  op'[p] \in logged'[m]
    <3>1. p # o
      BY <1>3, <2>2 DEF Past
    <3>. QED
      BY <1>1, <2>2, <3>1 DEF Ledger, CallsLogged, LogsKept, Writes, Request
  <2>. QED
    BY <2>1, <2>2 DEF CallsLogged
<1>5. CalleesPooled'
  BY <1>1, <1>3 DEF Ledger, CalleesPooled
<1>6. RepliesCounted'
  <2>. SUFFICES ASSUME NEW p \in Request, reply[p] # None, reply[p].status = "success"
                PROVE  Cardinality(Votes(p)') = Needed(p)'
    BY DEF RepliesCounted
  <2>1. p # o
    BY <1>2 DEF Wellformed, RepliesAreAnswers
  <2>2. Votes(p)' = Votes(p) /\ Needed(p)' = Needed(p)
    BY <1>1, <2>1 DEF Votes, Needed
  <2>. QED
    BY <2>2 DEF Ledger, RepliesCounted
<1>. QED
  BY <1>4, <1>5, <1>6, LedgerFrame DEF Ledger

LEMMA FanOutLedger ==
    ASSUME Wellformed, Ledger, OpsKept, LogsKept, NEW o \in Request, FanOut(o)
    PROVE  Ledger'
<1>1. /\ phase[o] = "local" /\ phase'[o] = "collect"
      /\ UNCHANGED <<store, logged, op, coord, reply, latest, repair>>
      /\ \A p \in Request \ {o} : phase'[p] = phase[p] /\ call'[p] = call[p]
  BY DEF FanOut, repairVars, Wellformed, TypeOK
<1>2. \A n \in Node : call'[o][n] = IF n \in Pool[coord[o]] THEN "sent" ELSE call[o][n]
  BY DEF FanOut, Wellformed, TypeOK, Responder
<1>3. CallsLogged'
  BY <1>1, <1>2 DEF Ledger, CallsLogged, Past, Writes, Request
<1>4. CalleesPooled'
  BY <1>1, <1>2 DEF Ledger, CalleesPooled
<1>5. RepliesCounted'
  <2>1. reply[o] = None
    BY <1>1 DEF Wellformed, RepliesAreAnswers
  <2>2. \A p \in Request \ {o} : Votes(p)' = Votes(p) /\ Needed(p)' = Needed(p)
    BY <1>1 DEF Votes, Needed
  <2>. QED
    BY <1>1, <2>1, <2>2 DEF Ledger, RepliesCounted
<1>. QED
  BY <1>1, <1>3, <1>4, <1>5, LedgerFrame DEF Ledger

LEMMA StoreAddLedger ==
    ASSUME Wellformed, Ledger, OpsKept, LogsKept,
           NEW o \in Request, NEW r \in Responder, StoreAdd(o, r)
    PROVE  Ledger'
<1>1. /\ call[o][r] = "ready" /\ phase[o] # "new"
      /\ call' = [call EXCEPT ![o][r] = "served"]
      /\ UNCHANGED <<logged, phase, op, coord, reply, latest, repair>>
  BY DEF StoreAdd, requestVars, repairVars, Wellformed, NewUntouched
<1>2. op[o] \in Operation /\ Site(o, r) \in Node /\ op[o].name = "ADD" /\ op[o].key \in Key
  BY <1>1, SiteType DEF StoreAdd, Wellformed, Operation
<1>3. PICK n \in Node, k \in Key,
             e \in {[value |-> op[o].value, timestamp |-> op[o].timestamp, valid |-> TRUE]} :
          n = Site(o, r) /\ k = op[o].key
  BY <1>2
<1>4. store' = [store EXCEPT ![n] = [store[n] EXCEPT ![k] = e]]
  BY <1>3 DEF StoreAdd, Add
<1>5. o \in Writes
  BY <1>1, <1>2 DEF Wellformed, NamesMatch, NameOf, Writes
<1>6. op[o] \in logged[n]
  BY <1>1, <1>3, <1>5 DEF Ledger, CallsLogged, Site, Past, Responder
<1>7. CallsLogged' /\ CalleesPooled' /\ RepliesCounted'
  <2>1. r \in Node => n = r
    BY <1>3, NodeAssumption DEF Site
  <2>. QED
    BY <1>1, <1>6, <2>1, OneCall
<1>8. LoggedHere(n, k)'
  <2>1. store'[n][k] = e
    BY <1>4 DEF Wellformed, TypeOK, Store
  <2>2. e.valid /\ op[o] = [name |-> "ADD", key |-> k, value |-> e.value,
                           timestamp |-> e.timestamp]
    BY <1>2, <1>3 DEF Operation
  <2>. QED
    BY <1>1, <1>6, <2>1, <2>2 DEF LoggedHere
<1>9. LoggedUnlessRepaired'
  BY <1>4, <1>8, PutLogged
<1>. QED
  BY <1>1, <1>7, <1>9, LedgerFrame DEF Ledger

LEMMA StoreRemoveCheckLedger ==
    ASSUME Wellformed, Ledger, OpsKept, LogsKept,
           NEW o \in Request, NEW r \in Responder, StoreRemoveCheck(o, r)
    PROVE  Ledger'
<1>1. /\ call[o][r] = "ready" /\ phase[o] # "new"
      /\ UNCHANGED <<store, logged, phase, op, coord, reply, latest, repair>>
  BY DEF StoreRemoveCheck, requestVars, repairVars, Wellformed, NewUntouched
<1>2. PICK c \in {"checked", "failed"} : call' = [call EXCEPT ![o][r] = c]
  BY DEF StoreRemoveCheck
<1>3. r \in Node /\ o \in Writes => op[o] \in logged'[r]
  BY <1>1 DEF Ledger, CallsLogged, Past
<1>4. CallsLogged' /\ CalleesPooled' /\ RepliesCounted'
  BY <1>1, <1>2, <1>3, OneCall
<1>. QED
  BY <1>1, <1>4, LedgerFrame DEF Ledger

LEMMA StoreRemoveUpdateLedger ==
    ASSUME Wellformed, Ledger, OpsKept, LogsKept,
           NEW o \in Request, NEW r \in Responder, StoreRemoveUpdate(o, r)
    PROVE  Ledger'
<1>1. /\ call[o][r] = "checked" /\ phase[o] # "new"
      /\ call' = [call EXCEPT ![o][r] = "served"]
      /\ UNCHANGED <<logged, phase, op, coord, reply, latest, repair>>
  BY DEF StoreRemoveUpdate, requestVars, repairVars, Wellformed, NewUntouched
<1>2. /\ op[o] \in Operation /\ Site(o, r) \in Node
      /\ op[o].name = "REMOVE" /\ op[o].key \in Key
  BY <1>1, SiteType DEF Wellformed, CheckedHasValue, Operation
<1>3. PICK n \in Node, k \in Key,
             e \in {[value |-> resp[o][r].value, timestamp |-> op[o].timestamp, valid |-> FALSE]} :
          n = Site(o, r) /\ k = op[o].key
  BY <1>2
<1>4. store' = [store EXCEPT ![n] = [store[n] EXCEPT ![k] = e]]
  BY <1>3 DEF StoreRemoveUpdate, Bury
<1>5. o \in Writes
  BY <1>1, <1>2 DEF Wellformed, NamesMatch, NameOf, Writes
<1>6. op[o] \in logged[n]
  BY <1>1, <1>3, <1>5 DEF Ledger, CallsLogged, Site, Past, Responder
<1>7. CallsLogged' /\ CalleesPooled' /\ RepliesCounted'
  <2>1. r \in Node => n = r
    BY <1>3, NodeAssumption DEF Site
  <2>. QED
    BY <1>1, <1>6, <2>1, OneCall
<1>8. LoggedHere(n, k)'
  <2>1. store'[n][k] = e
    BY <1>4 DEF Wellformed, TypeOK, Store
  <2>2. ~e.valid /\ op[o] = [name |-> "REMOVE", key |-> k, value |-> None,
                            timestamp |-> e.timestamp]
    BY <1>2, <1>3 DEF Operation
  <2>. QED
    BY <1>1, <1>6, <2>1, <2>2 DEF LoggedHere
<1>9. LoggedUnlessRepaired'
  BY <1>4, <1>8, PutLogged
<1>. QED
  BY <1>1, <1>7, <1>9, LedgerFrame DEF Ledger

LEMMA CallLedger ==
    ASSUME Wellformed, Ledger, OpsKept, LogsKept, NEW o \in Request, NEW n \in Node,
           ReceiveWrite(o, n) \/ ServeGet(o, n) \/ LoseCall(o, n) \/ JoinNext(o, n)
    PROVE  Ledger'
<1>1. /\ call[o][n] \in {"sent", "served"}
      /\ n \in Responder /\ phase[o] # "new"
      /\ UNCHANGED <<store, phase, op, coord, reply, latest, repair>>
  BY DEF ReceiveWrite, ServeGet, LoseCall, JoinNext, requestVars, repairVars, Responder,
         Wellformed, NewUntouched
<1>2. CASE ReceiveWrite(o, n)
  <2>1. op[o] \in logged'[n]
    BY <1>2 DEF ReceiveWrite, Log, Wellformed, TypeOK
  <2>2. call' = [call EXCEPT ![o][n] = "ready"]
    BY <1>2 DEF ReceiveWrite
  <2>. QED
    BY <1>1, <2>1, <2>2, OneCall
    , LedgerFrame DEF Ledger
<1>3. CASE ServeGet(o, n)
  <2>1. o \notin Writes
    BY <1>1, <1>3, RequestAssumption DEF ServeGet, Wellformed, NamesMatch, NameOf, Writes
  <2>2. call' = [call EXCEPT ![o][n] = "served"]
    BY <1>3 DEF ServeGet
  <2>. QED
    BY <1>1, <2>1, <2>2, OneCall, LedgerFrame DEF Ledger
<1>4. CASE LoseCall(o, n)
  <2>1. call' = [call EXCEPT ![o][n] = "failed"]
    BY <1>4 DEF LoseCall
  <2>. QED
    BY <1>1, <2>1, OneCall, LedgerFrame DEF Ledger, Past
<1>5. CASE JoinNext(o, n)
  <2>1. /\ call' = [call EXCEPT ![o][n] = "voted"]
        /\ call[o][n] = "served" /\ phase[o] = "collect"
        /\ UNCHANGED logged
    BY <1>5 DEF JoinNext
  <2>2. o \in Writes => op[o] \in logged'[n]
    BY <2>1 DEF Ledger, CallsLogged, Past
  <2>. QED
    BY <1>1, <2>1, <2>2, OneCall, LedgerFrame DEF Ledger
<1>. QED
  BY <1>2, <1>3, <1>4, <1>5

\* An answer is given its status by the votes there are.
LEMMA FinishLedger ==
    ASSUME Wellformed, Ledger, OpsKept, LogsKept, NEW o \in Request,
           FinishAdd(o) \/ FinishRemove(o) \/ FinishGet(o)
    PROVE  Ledger'
<1>1. /\ phase[o] = "collect"
      /\ UNCHANGED <<store, logged, op, coord, call>>
  BY DEF FinishAdd, FinishRemove, FinishGet, LoopOver
<1>2. PICK v, t : Answer(o, v, t)
  BY DEF FinishAdd, FinishRemove, FinishGet
<1>3. /\ NoneBegins
      /\ reply'[o].status = Status(o)
      /\ \A p \in Request \ {o} : reply'[p] = reply[p]
  BY <1>1, <1>2 DEF Answer, Wellformed, TypeOK, NoneBegins
<1>4. RepliesCounted'
  <2>1. \A p \in Request : Votes(p)' = Votes(p) /\ Needed(p)' = Needed(p)
    BY <1>1 DEF Votes, Needed
  <2>2. Status(o) = "success" => Cardinality(Votes(o)) = Needed(o)
    BY DEF Status
  <2>. QED
    BY <1>3, <2>1, <2>2 DEF Ledger, RepliesCounted
<1>5. RepairsLogged'
  <2>. SUFFICES ASSUME NEW p \in Request, NEW n \in Node, repair'[p][n] = "ready"
                PROVE  RepairOperation(p)' \in logged'[n]
    BY DEF RepairsLogged
  <2>1. n \in Responder
    BY DEF Responder
  <2>2. repair[p][n] = "ready"
    <3>1. \/ UNCHANGED repair
          \/ repair' = [repair EXCEPT ![o] = [s \in Responder |->
                           IF s \in Stale(o) THEN "sent" ELSE repair[o][s]]]
      BY DEF FinishAdd, FinishRemove, FinishGet, repairVars
    <3>2. CASE UNCHANGED repair
      BY <3>2
    <3>3. CASE repair' = [repair EXCEPT ![o] = [s \in Responder |->
                             IF s \in Stale(o) THEN "sent" ELSE repair[o][s]]]
      BY <2>1, <3>3 DEF Wellformed, TypeOK
    <3>. QED
      BY <3>1, <3>2, <3>3
  <2>3. latest'[p] = latest[p] /\ op'[p] = op[p]
    BY <1>1, <2>1, <2>2 DEF LogsKept
  <2>. QED
    BY <1>1, <2>2, <2>3 DEF Ledger, RepairsLogged, RepairOperation
<1>. QED
  BY <1>1, <1>3, <1>4, <1>5, LedgerFrame DEF Ledger

LEMMA DeliverRepairLedger ==
    ASSUME Wellformed, Ledger, OpsKept, LogsKept, NEW o \in Request, NEW n \in Node,
           ReceiveRepair(o, n) \/ LoseRepair(o, n)
    PROVE  Ledger'
<1>1. /\ n \in Responder
      /\ UNCHANGED <<store, phase, op, coord, reply, call, latest>>
  BY DEF ReceiveRepair, LoseRepair, requestVars, Responder
<1>2. RepairsLogged'
  <2>. SUFFICES ASSUME NEW p \in Request, NEW m \in Node, repair'[p][m] = "ready"
                PROVE  RepairOperation(p) \in logged'[m]
    BY <1>1 DEF RepairsLogged, RepairOperation
  <2>1. CASE repair[p][m] = "ready"
    BY <2>1 DEF Ledger, RepairsLogged, LogsKept
  <2>2. CASE repair[p][m] # "ready"
    <3>1. ReceiveRepair(o, n) /\ p = o /\ m = n
      BY <2>2 DEF ReceiveRepair, LoseRepair, Wellformed, TypeOK, Responder
    <3>. QED
      BY <3>1 DEF ReceiveRepair, Log, Wellformed, TypeOK
  <2>. QED
    BY <2>1, <2>2
<1>. QED
  BY <1>1, <1>2, LedgerFrame DEF Ledger, NoneBegins

LEMMA ApplyRepairLedger ==
    ASSUME Wellformed, Ledger, OpsKept, LogsKept,
           NEW o \in Request, NEW r \in Responder, ApplyRepair(o, r)
    PROVE  Ledger'
<1>1. /\ repair[o][r] # "none"
      /\ repair[o][r] = IF r = Local THEN "sent" ELSE "ready"
      /\ store' = [store EXCEPT ![Site(o, r)] = RepairedStore(o, Site(o, r))]
      /\ repair' = [repair EXCEPT ![o][r] = "done"]
      /\ UNCHANGED <<logged, phase, op, coord, reply, call, resp, latest>>
  BY DEF ApplyRepair, requestVars
<1>2. phase[o] = "done" /\ o \in Gets
  BY <1>1 DEF Wellformed, RepairsAreWrites
<1>3. Site(o, r) \in Node /\ op[o].key \in Key
  BY <1>2, SiteType DEF Wellformed, Operation
<1>4. PICK n \in Node, k \in Key,
             e \in {[value |-> latest[o].value, timestamp |-> latest[o].timestamp, valid |-> TRUE]} :
          n = Site(o, r) /\ k = op[o].key
  BY <1>3
<1>5. /\ RepairedStore(o, n) = Add(store[n], RepairOperation(o))
      /\ RepairOperation(o) = [name |-> "ADD", key |-> k, value |-> e.value,
                               timestamp |-> e.timestamp]
      /\ e = [value |-> e.value, timestamp |-> e.timestamp, valid |-> TRUE]
  BY <1>1, <1>4, RepairIsAdd
<1>6. store' = [store EXCEPT ![n] = [store[n] EXCEPT ![k] = e]]
  <2>1. /\ RepairOperation(o).key = k
        /\ RepairOperation(o).value = e.value
        /\ RepairOperation(o).timestamp = e.timestamp
    BY <1>5
  <2>2. Add(store[n], RepairOperation(o)) = [store[n] EXCEPT ![k] = e]
    BY <2>1, <1>5, Zenon DEF Add
  <2>. QED
    BY <1>1, <1>4, <1>5, <2>2
<1>7. store'[n][k] = e
  BY <1>6 DEF Wellformed, TypeOK, Store
<1>8. (LoggedHere(n, k) \/ RepairedLocally(n, k))'
  <2>1. CASE r = Local
    <3>1. repair'[o][Local] = "done"
      BY <1>1, <2>1 DEF Wellformed, TypeOK
    <3>2. latest[o] = [value |-> e.value, timestamp |-> e.timestamp]
      BY <1>4 DEF Wellformed, TypeOK, Response
    <3>3. coord[o] = n
      BY <1>4, <2>1 DEF Site
    <3>. QED
      BY <1>1, <1>2, <1>4, <1>7, <3>1, <3>2, <3>3 DEF RepairedLocally
  <2>2. CASE r # Local
    <3>1. n = r
      BY <1>4, <2>2 DEF Site
    <3>2. RepairOperation(o) \in logged'[n]
      BY <1>1, <2>2, <3>1 DEF Ledger, RepairsLogged
    <3>. QED
      BY <1>5, <1>7, <3>2 DEF LoggedHere
  <2>. QED
    BY <2>1, <2>2
<1>9. LoggedUnlessRepaired'
  BY <1>6, <1>8, PutLogged
<1>10. RepairsLogged'
  <2>. SUFFICES ASSUME NEW p \in Request, NEW m \in Node, repair'[p][m] = "ready"
                PROVE  RepairOperation(p) \in logged'[m]
    BY <1>1 DEF RepairsLogged, RepairOperation
  <2>1. repair[p][m] = "ready"
    BY <1>1 DEF Wellformed, TypeOK, Responder
  <2>. QED
    BY <1>1, <2>1 DEF Ledger, RepairsLogged
<1>. QED
  BY <1>1, <1>9, <1>10, LedgerFrame DEF Ledger, NoneBegins

-----------------------------------------------------------------------------
(***************************************************************************)
(* Theorems                                                                *)
(***************************************************************************)
LEMMA LedgerInit == Init => Ledger
<1>. SUFFICES ASSUME Init PROVE Ledger
  OBVIOUS
<1>1. CallsLogged
  BY DEF Init, CallsLogged, Writes, Past, Request, Responder
<1>2. CalleesPooled
  BY DEF Init, CalleesPooled, Responder
<1>3. RepairsLogged
  BY DEF Init, RepairsLogged, Responder
<1>4. RepliesCounted
  BY DEF Init, RepliesCounted
<1>5. LoggedUnlessRepaired
  BY DEF Init, LoggedUnlessRepaired, EmptyStore
<1>. QED
  BY <1>1, <1>2, <1>3, <1>4, <1>5 DEF Ledger

LEMMA LedgerNext == Wellformed /\ Ledger /\ [Next]_vars => Ledger'
<1>. SUFFICES ASSUME Wellformed, Ledger, [Next]_vars PROVE Ledger'
  OBVIOUS
<1>1. OpsKept /\ LogsKept
  BY NextKeepsOps, NextKeepsLogs DEF Wellformed
<1>2. ASSUME NEW o \in Request, NEW n \in Node, NEW k \in Key
      PROVE  /\ o \in Removes /\ BeginRemove(o, n, k) => Ledger'
             /\ o \in Gets /\ BeginGet(o, n, k) => Ledger'
             /\ \A v \in Value : o \in Adds /\ BeginAdd(o, n, k, v) => Ledger'
  <2>1. ASSUME NEW operation, Log(n, operation) PROVE operation \in logged'[n]
    BY <2>1 DEF Log, Wellformed, TypeOK
  <2>2. BeginRemove(o, n, k) => Ledger'
    BY <1>1, <2>1, BeginLedger DEF BeginRemove, repairVars
  <2>3. o \in Gets /\ BeginGet(o, n, k) => Ledger'
    <3>1. o \in Gets => o \notin Writes
      BY RequestAssumption DEF Writes
    <3>. QED
      BY <1>1, <3>1, BeginLedger DEF BeginGet, repairVars
  <2>4. \A v \in Value : BeginAdd(o, n, k, v) => Ledger'
    BY <1>1, <2>1, BeginLedger DEF BeginAdd, repairVars
  <2>. QED
    BY <2>2, <2>3, <2>4
<1>3. CASE UNCHANGED vars
  BY <1>1, <1>3, LedgerFrame DEF vars, Ledger, NoneBegins
<1>. QED
  BY <1>1, <1>2, <1>3, NextActions, FanOutLedger, FinishLedger, StoreAddLedger,
     StoreRemoveCheckLedger, StoreRemoveUpdateLedger, ApplyRepairLedger, CallLedger,
     DeliverRepairLedger DEF Request

\* What the logs hold, and what an answer was counted from, is so in every run.
THEOREM LedgerAlways == Spec => []Ledger
<1>1. Spec => []Wellformed
  BY WellformedAlways
<1>. QED
  BY <1>1, LedgerInit, LedgerNext, PTL DEF Spec

(***************************************************************************)
(* Log first: an entry of a store is in its node's log, unless a GET       *)
(* repaired it on its own coordinator.                                     *)
(***************************************************************************)
THEOREM LoggedUnlessRepairedHolds == Spec => []LoggedUnlessRepaired
<1>1. Ledger => LoggedUnlessRepaired
  BY DEF Ledger
<1>. QED
  BY <1>1, LedgerAlways, PTL

(***************************************************************************)
(* A write that succeeded is in the log of a write quorum, provided that   *)
(* no node is in its own pool.                                             *)
(***************************************************************************)
THEOREM QuorumLoggedHolds ==
    ASSUME \A n \in Node : n \notin Pool[n]
    PROVE  Spec => []QuorumLogged
<1>1. Wellformed /\ Ledger => QuorumLogged
  <2>. SUFFICES ASSUME Wellformed, Ledger, NEW o \in Adds \cup Removes,
                       reply[o] # None, reply[o].status = "success"
                PROVE  Cardinality(LoggedAt(op[o])) >= WriteQuorum
    BY DEF QuorumLogged
  <2>1. o \in Request /\ o \in Writes /\ phase[o] = "done"
    BY DEF Request, Writes, Wellformed, RepliesAreAnswers
  <2>2. coord[o] \in Node /\ op[o].name # "GET"
    BY <2>1, RequestAssumption DEF Wellformed, TypeOK, NamesMatch, NameOf
  <2>3. Cardinality(Votes(o)) = Minus1(WriteQuorum)
    BY <2>1, <2>2 DEF Ledger, RepliesCounted, Needed
  <2>4. Votes(o) \cup {coord[o]} \subseteq LoggedAt(op[o])
    BY <2>1, <2>2 DEF Ledger, CallsLogged, Votes, Past, LoggedAt
  <2>5. coord[o] \notin Votes(o)
    BY <2>1, <2>2 DEF Ledger, CalleesPooled, Votes
  <2>6. IsFiniteSet(LoggedAt(op[o])) /\ IsFiniteSet(Votes(o))
    BY NodeAssumption, FS_Subset DEF LoggedAt, Votes
  <2>7. Cardinality(Votes(o) \cup {coord[o]}) = Cardinality(Votes(o)) + 1
    BY <2>5, <2>6, FS_AddElement
  <2>8. /\ Cardinality(LoggedAt(op[o])) \in Nat
        /\ Cardinality(Votes(o) \cup {coord[o]}) <= Cardinality(LoggedAt(op[o]))
    BY <2>4, <2>6, FS_CardinalityType, FS_Subset
  <2>. QED
    BY <2>3, <2>7, <2>8, QuorumAssumption DEF Minus1
<1>. QED
  BY <1>1, WellformedAlways, LedgerAlways, PTL

=============================================================================
