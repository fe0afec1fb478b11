-------------------------- MODULE LallyRealTimeProofs --------------------------
(***************************************************************************)
(* Proofs of what patient clients of LallyRealTime can rely on, for any    *)
(* number of nodes, requests, keys and values, any pools and quorums.      *)
(***************************************************************************)
EXTENDS LallyRealTime, LallyReplicationLogProofs

-----------------------------------------------------------------------------
(***************************************************************************)
(* The inductive invariant: patient clients                                *)
(***************************************************************************)
\* At most one request has anything under way.
OneActive == \A o, p \in Request : Settled(o) \/ Settled(p) \/ o = p

\* The coordinator's own store answers a GET at once, and an ADD before the fan-out.
OwnAnswers ==
    \A o \in Request : phase[o] # "new" =>
        /\ o \in Gets => call[o][Local] = "served"
        /\ o \in Adds => \/ call[o][Local] = "served"
                         \/ call[o][Local] = "ready" /\ phase[o] = "local"

Answers == {"served", "voted"}

\* What a GET has read is what it would read now.
ReadsCurrent ==
    \A g \in Gets, r \in Responder :
        phase[g] \in {"local", "collect"} /\ call[g][r] \in Answers =>
            resp[g][r] = Get(store[Site(g, r)], op[g].key)

\* A repair under way is at least as new as the entry it will replace.
RepairsNewer ==
    \A g \in Gets, r \in Responder :
        repair[g][r] \in {"sent", "ready"} /\ Live(store[Site(g, r)], op[g].key) =>
            store[Site(g, r)][op[g].key].timestamp <= latest[g].timestamp

\* A GET that has not been answered has found nothing.
LatestLast == \A o \in Request : phase[o] # "done" => latest[o] = NotFound

Calm == OneActive /\ OwnAnswers /\ ReadsCurrent /\ RepairsNewer /\ LatestLast

(***************************************************************************)
(* ... and clocks that agree                                               *)
(***************************************************************************)
\* No two requests have the same timestamp.
Stamps ==
    \A o, p \in Begun :
        /\ op[o].timestamp <= Cardinality(Begun)
        /\ op[o].timestamp = op[p].timestamp => o = p

\* The request under way is the newest.
ActiveNewest ==
    \A o, p \in Begun : Settled(o) \/ p = o \/ op[p].timestamp < op[o].timestamp

\* The requests answered before g began are over.
AfterOver == \A g \in Begun : \A p \in after[g] : p \in Answered /\ Settled(p)

Ordered == Stamps /\ ActiveNewest /\ AfterOver

\* A node that has answered an ADD keeps it, or a newer one, unless a later REMOVE began.
Holds(a, n) ==
    \/ RemovedLater(a)
    \/ /\ Live(store[n], op[a].key)
       /\ op[a].timestamp <= store[n][op[a].key].timestamp

AddsHeld ==
    \A a \in Adds, r \in Responder : call[a][r] \in Answers => Holds(a, Site(a, r))

(***************************************************************************)
(* All that answered g will report what g has found, unless a repair of g  *)
(* is lost, until another request begins.                                  *)
(***************************************************************************)
Repairing ==
    \A g \in Gets : phase[g] = "done" /\ Begun = after[g] \cup {g} =>
        \A r \in Responders(g) :
            \/ repair[g][r] \in {"sent", "ready", "lost"}
            \/ Get(store[Site(g, r)], op[g].key) = latest[g]

Timely == Ordered /\ AddsHeld /\ Repairing

-----------------------------------------------------------------------------
(***************************************************************************)
(* The steps of PatientSpec                                                *)
(***************************************************************************)
PatientStep == RealTimeNext /\ ((\E o \in Request : Begins(o)) => AllSettled)

LEMMA PatientIsReplication == PatientSpec => Spec
<1>1. RealTimeInit => Init
  BY DEF RealTimeInit
<1>2. [PatientStep]_historyVars => [Next]_vars
  BY DEF PatientStep, RealTimeNext, historyVars
<1>. QED
  BY <1>1, <1>2, PTL DEF PatientSpec, Spec, PatientStep

\* A client begins request o.
Starts(o) ==
    \E n \in Node, k \in Key :
        \/ o \in Adds /\ \E v \in Value : BeginAdd(o, n, k, v)
        \/ o \in Removes /\ BeginRemove(o, n, k)
        \/ o \in Gets /\ BeginGet(o, n, k)

\* Something that was under way for request o goes on.
Works(o) ==
    \/ FanOut(o) \/ FinishAdd(o) \/ FinishRemove(o) \/ FinishGet(o)
    \/ \E r \in Responder : \/ StoreAdd(o, r)
                            \/ StoreRemoveCheck(o, r)
                            \/ StoreRemoveUpdate(o, r)
                            \/ ApplyRepair(o, r)
    \/ \E n \in Node : \/ ReceiveWrite(o, n) \/ ServeGet(o, n) \/ LoseCall(o, n)
                       \/ JoinNext(o, n) \/ ReceiveRepair(o, n) \/ LoseRepair(o, n)

\* A step leaves everything about request p as it is.
Alike(p) ==
    /\ phase'[p] = phase[p] /\ op'[p] = op[p] /\ coord'[p] = coord[p] /\ reply'[p] = reply[p]
    /\ call'[p] = call[p] /\ resp'[p] = resp[p]
    /\ latest'[p] = latest[p] /\ repair'[p] = repair[p]

LEMMA AlikeSettled ==
    ASSUME NEW p \in Request, Alike(p)
    PROVE  Settled(p)' <=> Settled(p)
BY DEF Alike, Settled

LEMMA StartsApart ==
    ASSUME TypeOK, NEW o \in Request, Starts(o)
    PROVE  /\ phase[o] = "new" /\ phase'[o] = "local"
           /\ \A p \in Request \ {o} : Alike(p)
<1>. USE DEF Accept, Alike, TypeOK, repairVars
<1>1. PICK n \in Node, k \in Key : \/ \E v \in Value : BeginAdd(o, n, k, v)
                                   \/ BeginRemove(o, n, k)
                                   \/ BeginGet(o, n, k)
  BY DEF Starts
<1>2. ASSUME NEW v \in Value, BeginAdd(o, n, k, v)
      PROVE  /\ phase[o] = "new" /\ phase'[o] = "local"
             /\ \A p \in Request \ {o} : Alike(p)
  BY <1>2 DEF BeginAdd
<1>3. CASE BeginRemove(o, n, k)
  BY <1>3 DEF BeginRemove
<1>4. CASE BeginGet(o, n, k)
  BY <1>4 DEF BeginGet
<1>. QED
  BY <1>1, <1>2, <1>3, <1>4

LEMMA WorksApart ==
    ASSUME Wellformed, NEW o \in Request, Works(o)
    PROVE  /\ ~Settled(o) /\ phase[o] # "new"
           /\ \A p \in Request : ~Begins(p)
           /\ \A p \in Request \ {o} : Alike(p)
<1>. USE DEF TypeOK, requestVars, repairVars
<1>0. TypeOK /\ NewUntouched
  BY DEF Wellformed
<1>1. ASSUME FinishAdd(o) \/ FinishRemove(o) \/ FinishGet(o)
      PROVE  /\ ~Settled(o) /\ phase[o] # "new"
             /\ \A p \in Request : ~Begins(p)
             /\ \A p \in Request \ {o} : Alike(p)
  <2>1. /\ phase[o] = "collect" /\ UNCHANGED <<op, coord, call, resp>>
        /\ phase' = [phase EXCEPT ![o] = "done"]
        /\ \A p \in Request \ {o} : reply'[p] = reply[p]
    BY <1>0, <1>1 DEF FinishAdd, FinishRemove, FinishGet, LoopOver, Answer
  <2>2. \A p \in Request \ {o} : latest'[p] = latest[p] /\ repair'[p] = repair[p]
    BY <1>0, <1>1 DEF FinishAdd, FinishRemove, FinishGet
  <2>. QED
    BY <1>0, <2>1, <2>2 DEF Settled, Begins, Alike
<1>2. ASSUME FanOut(o)
      PROVE  /\ ~Settled(o) /\ phase[o] # "new"
             /\ \A p \in Request : ~Begins(p)
             /\ \A p \in Request \ {o} : Alike(p)
  BY <1>0, <1>2 DEF FanOut, Settled, Begins, Alike
<1>3. ASSUME NEW r \in Responder,
             StoreAdd(o, r) \/ StoreRemoveCheck(o, r) \/ StoreRemoveUpdate(o, r)
      PROVE  /\ ~Settled(o) /\ phase[o] # "new"
             /\ \A p \in Request : ~Begins(p)
             /\ \A p \in Request \ {o} : Alike(p)
  <2>1. call[o][r] \in {"ready", "checked"} /\ UNCHANGED <<phase, op, coord, reply, latest, repair>>
    BY <1>3 DEF StoreAdd, StoreRemoveCheck, StoreRemoveUpdate
  <2>2. \A p \in Request \ {o} : call'[p] = call[p] /\ resp'[p] = resp[p]
    BY <1>0, <1>3 DEF StoreAdd, StoreRemoveCheck, StoreRemoveUpdate
  <2>. QED
    BY <1>0, <2>1, <2>2 DEF NewUntouched, Settled, Begins, Alike
<1>4. ASSUME NEW n \in Node, ReceiveWrite(o, n) \/ ServeGet(o, n) \/ LoseCall(o, n) \/ JoinNext(o, n)
      PROVE  /\ ~Settled(o) /\ phase[o] # "new"
             /\ \A p \in Request : ~Begins(p)
             /\ \A p \in Request \ {o} : Alike(p)
  <2>1. /\ call[o][n] = "sent" \/ phase[o] = "collect"
        /\ UNCHANGED <<phase, op, coord, reply, latest, repair>>
    BY <1>4 DEF ReceiveWrite, ServeGet, LoseCall, JoinNext
  <2>2. \A p \in Request \ {o} : call'[p] = call[p] /\ resp'[p] = resp[p]
    BY <1>0, <1>4 DEF ReceiveWrite, ServeGet, LoseCall, JoinNext
  <2>. QED
    BY <1>0, <2>1, <2>2 DEF NewUntouched, Settled, Begins, Alike, Responder
<1>5. ASSUME NEW r \in Responder,
             ApplyRepair(o, r) \/ (r \in Node /\ (ReceiveRepair(o, r) \/ LoseRepair(o, r)))
      PROVE  /\ ~Settled(o) /\ phase[o] # "new"
             /\ \A p \in Request : ~Begins(p)
             /\ \A p \in Request \ {o} : Alike(p)
  <2>1. repair[o][r] \in {"sent", "ready"} /\ UNCHANGED <<phase, op, coord, reply, latest, call, resp>>
    BY <1>5 DEF ApplyRepair, ReceiveRepair, LoseRepair
  <2>2. \A p \in Request \ {o} : repair'[p] = repair[p]
    BY <1>0, <1>5 DEF ApplyRepair, ReceiveRepair, LoseRepair
  <2>3. phase[o] = "done"
    BY <2>1 DEF Wellformed, RepairsAreWrites
  <2>. QED
    BY <1>0, <2>1, <2>2, <2>3 DEF Settled, Begins, Alike
<1>. QED
  BY <1>1, <1>2, <1>3, <1>4, <1>5 DEF Works, Responder

\* Only o moves: everything else is over, and stays as it is.
Others(o) == \A p \in Request \ {o} : Alike(p) /\ Settled(p) /\ after'[p] = after[p]

(***************************************************************************)
(* A step of a patient system is that of one request: it starts when       *)
(* everything is settled, or it is the only one that is not.               *)
(***************************************************************************)
LEMMA PatientSteps ==
    ASSUME Wellformed, OneActive, [PatientStep]_historyVars
    PROVE  \/ UNCHANGED vars /\ \A p \in Request : after'[p] = after[p]
           \/ \E o \in Request : Starts(o) /\ Others(o) /\ Settled(o) /\ after'[o] = Answered
           \/ \E o \in Request : Works(o) /\ Others(o) /\ ~Settled(o) /\ after'[o] = after[o]
<1>1. CASE UNCHANGED historyVars
  BY <1>1 DEF historyVars
<1>2. CASE PatientStep
  <2>0. TypeOK /\ [Next]_vars
    BY <1>2 DEF Wellformed, PatientStep, RealTimeNext
  <2>1. \A p \in Request : after'[p] = IF Begins(p) THEN Answered ELSE after[p]
    BY <1>2 DEF PatientStep, RealTimeNext
  <2>2. CASE UNCHANGED vars
    BY <2>1, <2>2 DEF vars, Begins
  <2>3. ASSUME NEW o \in Request, Starts(o)
        PROVE  Others(o) /\ Settled(o) /\ after'[o] = Answered
    <3>1. phase[o] = "new" /\ phase'[o] = "local" /\ \A p \in Request \ {o} : Alike(p)
      BY <2>0, <2>3, StartsApart
    <3>2. AllSettled
      BY <1>2, <3>1 DEF Begins, PatientStep
    <3>. QED
      BY <2>1, <3>1, <3>2 DEF Begins, Others, AllSettled, Alike
  <2>4. ASSUME NEW o \in Request, Works(o)
        PROVE  Others(o) /\ ~Settled(o) /\ after'[o] = after[o]
    BY <2>1, <2>4, WorksApart DEF Others, OneActive
  <2>5. \/ \E o \in Request : Starts(o) \/ Works(o)
        \/ UNCHANGED vars
    BY <2>0, NextActions DEF Starts, Works, Request
  <2>. QED
    BY <2>2, <2>3, <2>4, <2>5
<1>. QED
  BY <1>1, <1>2

-----------------------------------------------------------------------------
(***************************************************************************)
(* The part of the invariant that does not depend on clocks                *)
(***************************************************************************)
\* It is only about requests that are under way.
LEMMA CalmOthers ==
    ASSUME TypeOK, Calm, NEW o \in Request, Others(o),
           phase'[o] # "new" =>
               /\ o \in Gets => call'[o][Local] = "served"
               /\ o \in Adds => \/ call'[o][Local] = "served"
                                \/ call'[o][Local] = "ready" /\ phase'[o] = "local",
           o \in Gets => \A r \in Responder :
               /\ phase'[o] \in {"local", "collect"} /\ call'[o][r] \in Answers =>
                      resp'[o][r] = Get(store[Site(o, r)], op[o].key)'
               /\ repair'[o][r] \in {"sent", "ready"} /\ Live(store[Site(o, r)], op[o].key)' =>
                      store'[Site(o, r)'][op'[o].key].timestamp <= latest'[o].timestamp,
           phase'[o] # "done" => latest'[o] = NotFound
    PROVE  Calm'
<1>1. OneActive'
  BY AlikeSettled DEF Others, OneActive
<1>2. OwnAnswers'
  BY DEF Others, Alike, Calm, OwnAnswers
<1>3. ASSUME NEW g \in Gets, NEW r \in Responder, g # o
      PROVE  /\ ~(phase'[g] \in {"local", "collect"} /\ call'[g][r] \in Answers)
             /\ repair'[g][r] \notin {"sent", "ready"}
  BY <1>3 DEF Others, Alike, Settled, Request
<1>4. ReadsCurrent'
  BY <1>3 DEF ReadsCurrent
<1>5. RepairsNewer'
  BY <1>3 DEF RepairsNewer
<1>6. LatestLast'
  BY DEF Others, Alike, Calm, LatestLast
<1>. QED
  BY <1>1, <1>2, <1>4, <1>5, <1>6 DEF Calm

LEMMA CalmStarts ==
    ASSUME Wellformed, Calm, NEW o \in Request, Starts(o), Others(o)
    PROVE  Calm'
<1>0. TypeOK
  BY DEF Wellformed
<1>1. PICK n \in Node, k \in Key : \/ o \in Adds /\ \E v \in Value : BeginAdd(o, n, k, v)
                                   \/ o \in Removes /\ BeginRemove(o, n, k)
                                   \/ o \in Gets /\ BeginGet(o, n, k)
  BY DEF Starts
<1>2. phase[o] = "new" /\ phase'[o] = "local" /\ UNCHANGED <<store, latest, repair>>
  BY <1>1, StartsApart, <1>0 DEF BeginAdd, BeginRemove, BeginGet, repairVars
<1>3. \A r \in Responder : call[o][r] = "idle" /\ repair[o][r] = "none"
  BY <1>2 DEF Wellformed, NewUntouched, RepairsAreWrites
<1>4. latest[o] = NotFound
  BY <1>2 DEF Calm, LatestLast
<1>5. CASE o \in Adds /\ \E v \in Value : BeginAdd(o, n, k, v)
  <2>1. call'[o][Local] = "ready"
    BY <1>0, <1>5 DEF BeginAdd, TypeOK, Responder
  <2>. QED
    BY <1>0, <1>2, <1>4, <1>5, <2>1, CalmOthers, RequestAssumption
<1>6. CASE o \in Removes /\ BeginRemove(o, n, k)
  BY <1>0, <1>2, <1>4, <1>6, CalmOthers, RequestAssumption
<1>7. CASE o \in Gets /\ BeginGet(o, n, k)
  <2>1. /\ op'[o].key = k /\ coord'[o] = n
        /\ call' = [call EXCEPT ![o][Local] = "served"]
        /\ resp' = [resp EXCEPT ![o][Local] = Get(store[n], k)]
    BY <1>0, <1>7 DEF BeginGet, Accept, TypeOK
  <2>2. \A r \in Responder : call'[o][r] \in Answers =>
            r = Local /\ resp'[o][r] = Get(store[n], k)
    BY <1>0, <1>3, <2>1 DEF TypeOK, Responder, Answers
  <2>3. call'[o][Local] = "served"
    BY <1>0, <2>1 DEF TypeOK, Responder
  <2>4. Site(o, Local)' = n /\ Get(store[Site(o, Local)], op[o].key)' = Get(store[n], k)
    BY <1>2, <2>1 DEF Site, Get, Live
  <2>5. o \notin Adds
    BY <1>7, RequestAssumption
  <2>. QED
    BY <1>0, <1>2, <1>3, <1>4, <2>2, <2>3, <2>4, <2>5, CalmOthers
<1>. QED
  BY <1>1, <1>5, <1>6, <1>7

\* A step that only moves calls of o, and keeps what o has read.
LEMMA CalmCalls ==
    ASSUME Wellformed, Calm, NEW o \in Request, Others(o),
           UNCHANGED <<op, coord, latest, repair>>, phase[o] # "new",
           phase'[o] \in {phase[o], "collect", "done"},
           o \in Gets => UNCHANGED store,
           o \in Gets => call'[o][Local] = "served",
           o \in Adds => \/ call'[o][Local] = "served"
                         \/ call'[o][Local] = "ready" /\ phase'[o] = "local",
           phase'[o] = "collect" => phase[o] \in {"local", "collect"},
           phase[o] = "done" => phase'[o] = "done",
           o \in Gets => \A r \in Responder : call'[o][r] \in Answers =>
               \/ call[o][r] \in Answers /\ resp'[o][r] = resp[o][r]
               \/ resp'[o][r] = Get(store[Site(o, r)], op[o].key)
    PROVE  Calm'
<1>0. TypeOK
  BY DEF Wellformed
<1>1. \A r \in Responder : Site(o, r)' = Site(o, r)
  BY DEF Site
<1>2. o \in Gets => \A r \in Responder :
          /\ phase'[o] \in {"local", "collect"} /\ call'[o][r] \in Answers =>
                 resp'[o][r] = Get(store[Site(o, r)], op[o].key)'
          /\ repair'[o][r] \in {"sent", "ready"} /\ Live(store[Site(o, r)], op[o].key)' =>
                 store'[Site(o, r)'][op'[o].key].timestamp <= latest'[o].timestamp
  BY <1>1 DEF Calm, ReadsCurrent, RepairsNewer, Get, Live
<1>3. phase'[o] # "done" => latest'[o] = NotFound
  BY DEF Calm, LatestLast
<1>. QED
  BY <1>0, <1>2, <1>3, CalmOthers

LEMMA CalmWorks ==
    ASSUME Wellformed, Calm, NEW o \in Request, Works(o), Others(o)
    PROVE  Calm'
<1>0. TypeOK /\ phase[o] # "new" /\ Local \in Responder /\ Local \notin Node
  BY WorksApart, NodeAssumption DEF Wellformed, Responder
<1>1. /\ o \in Gets => call[o][Local] = "served"
      /\ o \in Adds => \/ call[o][Local] = "served"
                       \/ call[o][Local] = "ready" /\ phase[o] = "local"
  BY <1>0 DEF Calm, OwnAnswers
<1>2. op[o].name = NameOf(o)
  BY <1>0 DEF Wellformed, NamesMatch
<1>3. ASSUME FanOut(o) PROVE Calm'
  <2>1. /\ phase[o] = "local" /\ phase'[o] = "collect"
        /\ UNCHANGED <<store, op, coord, resp, latest, repair>>
        /\ call[o][Local] \in {"served", "failed"}
        /\ \A r \in Responder : call'[o][r] = IF r \in Pool[coord[o]] THEN "sent" ELSE call[o][r]
    BY <1>0, <1>3 DEF FanOut, TypeOK, repairVars
  <2>2. call'[o][Local] = call[o][Local]
    BY <1>0, <2>1, NodeAssumption DEF TypeOK
  <2>. QED
    BY <1>0, <1>1, <2>1, <2>2, CalmCalls DEF Answers
<1>4. ASSUME FinishAdd(o) \/ FinishRemove(o) PROVE Calm'
  <2>1. /\ phase[o] = "collect" /\ phase'[o] = "done"
        /\ UNCHANGED <<store, op, coord, call, resp, latest, repair>>
    BY <1>0, <1>4 DEF FinishAdd, FinishRemove, LoopOver, Answer, TypeOK, repairVars
  <2>. QED
    BY <1>0, <1>1, <2>1, CalmCalls
<1>5. ASSUME NEW r \in Responder,
             StoreAdd(o, r) \/ StoreRemoveCheck(o, r) \/ StoreRemoveUpdate(o, r)
      PROVE  Calm'
  <2>1. UNCHANGED <<phase, op, coord, latest, repair>> /\ o \notin Gets
    BY <1>0, <1>2, <1>5, RequestAssumption
       DEF StoreAdd, StoreRemoveCheck, StoreRemoveUpdate, requestVars, repairVars, NameOf,
           Wellformed, CheckedHasValue
  <2>2. o \in Adds => \/ call'[o][Local] = "served"
                      \/ call'[o][Local] = "ready" /\ phase'[o] = "local"
    <3>1. CASE StoreAdd(o, r)
      BY <1>0, <1>1, <2>1, <3>1 DEF StoreAdd, TypeOK
    <3>2. CASE o \notin Adds
      BY <3>2
    <3>3. o \in Adds => StoreAdd(o, r)
      BY <1>2, <1>5 DEF StoreRemoveCheck, StoreRemoveUpdate, NameOf, Wellformed, CheckedHasValue
    <3>. QED
      BY <3>1, <3>2, <3>3
  <2>. QED
    BY <1>0, <2>1, <2>2, CalmCalls
<1>6. ASSUME NEW n \in Node, ReceiveWrite(o, n) \/ LoseCall(o, n) \/ JoinNext(o, n)
      PROVE  Calm'
  <2>1. PICK c \in CallState : call' = [call EXCEPT ![o][n] = c] /\ (c \in Answers => call[o][n] \in Answers)
    BY <1>6 DEF ReceiveWrite, LoseCall, JoinNext, CallState, Answers
  <2>2. UNCHANGED <<store, phase, op, coord, resp, latest, repair>>
    BY <1>6 DEF ReceiveWrite, LoseCall, JoinNext, requestVars, repairVars
  <2>3. call'[o][Local] = call[o][Local]
    BY <1>0, <2>1 DEF TypeOK
  <2>4. \A r \in Responder : call'[o][r] \in Answers => call[o][r] \in Answers
    BY <1>0, <2>1 DEF TypeOK
  <2>. QED
    BY <1>0, <1>1, <2>2, <2>3, <2>4, CalmCalls
<1>7. ASSUME NEW n \in Node, ServeGet(o, n) PROVE Calm'
  <2>1. /\ call' = [call EXCEPT ![o][n] = "served"]
        /\ resp' = [resp EXCEPT ![o][n] = Get(store[n], op[o].key)]
        /\ UNCHANGED <<store, phase, op, coord, latest, repair>>
    BY <1>7 DEF ServeGet, requestVars, repairVars
  <2>2. call'[o][Local] = call[o][Local]
    BY <1>0, <2>1 DEF TypeOK
  <2>3. Site(o, n) = n
    BY <1>0 DEF Site
  <2>4. ASSUME NEW r \in Responder, call'[o][r] \in Answers
        PROVE  \/ call[o][r] \in Answers /\ resp'[o][r] = resp[o][r]
               \/ resp'[o][r] = Get(store[Site(o, r)], op[o].key)
    <3>1. CASE r = n
      BY <1>0, <2>1, <2>3, <3>1 DEF TypeOK
    <3>2. CASE r # n
      BY <1>0, <2>1, <2>4, <3>2 DEF TypeOK
    <3>. QED
      BY <3>1, <3>2
  <2>. QED
    BY <1>0, <1>1, <2>1, <2>2, <2>4, CalmCalls
<1>8. ASSUME NEW n \in Node, ReceiveRepair(o, n) \/ LoseRepair(o, n) PROVE Calm'
  <2>1. PICK c \in {"ready", "lost"} : repair[o][n] = "sent" /\ repair' = [repair EXCEPT ![o][n] = c]
    BY <1>8 DEF ReceiveRepair, LoseRepair
  <2>2. UNCHANGED <<store, phase, op, coord, call, resp, latest>>
    BY <1>8 DEF ReceiveRepair, LoseRepair, requestVars
  <2>3. \A r \in Responder : repair'[o][r] \in {"sent", "ready"} => repair[o][r] \in {"sent", "ready"}
    BY <1>0, <2>1 DEF TypeOK
  <2>4. \A r \in Responder : Site(o, r)' = Site(o, r)
    BY <2>2 DEF Site
  <2>5. o \in Gets => \A r \in Responder :
            /\ phase'[o] \in {"local", "collect"} /\ call'[o][r] \in Answers =>
                   resp'[o][r] = Get(store[Site(o, r)], op[o].key)'
            /\ repair'[o][r] \in {"sent", "ready"} /\ Live(store[Site(o, r)], op[o].key)' =>
                   store'[Site(o, r)'][op'[o].key].timestamp <= latest'[o].timestamp
    BY <2>2, <2>3, <2>4 DEF Calm, ReadsCurrent, RepairsNewer, Get, Live
  <2>6. phase'[o] # "done" => latest'[o] = NotFound
    BY <2>2 DEF Calm, LatestLast
  <2>. QED
    BY <1>0, <1>1, <2>2, <2>5, <2>6, CalmOthers
<1>9. ASSUME NEW r \in Responder, ApplyRepair(o, r) PROVE Calm'
  <2>. DEFINE n == Site(o, r)
              k == op[o].key
  <2>1. /\ repair[o][r] \in {"sent", "ready"} /\ store' = [store EXCEPT ![n] = RepairedStore(o, n)]
        /\ repair' = [repair EXCEPT ![o][r] = "done"]
        /\ UNCHANGED <<phase, op, coord, call, resp, latest>>
    BY <1>9 DEF ApplyRepair, requestVars
  <2>2. /\ phase[o] = "done" /\ latest[o].timestamp \in Nat
        /\ n \in Node /\ k \in Key
    BY <1>0, <2>1, SiteType DEF Wellformed, RepairsAreWrites, Operation
  <2>3. store'[n][k].timestamp = latest[o].timestamp
    <3>1. RepairedStore(o, n) = Add(store[n], RepairOperation(o)) /\ RepairOperation(o).key = k
          /\ RepairOperation(o).timestamp = latest[o].timestamp
      BY <2>1, <2>2, RepairIsAdd
    <3>2. store[n] \in Store
      BY <1>0, <2>2 DEF TypeOK
    <3>3. RepairedStore(o, n)[k].timestamp = latest[o].timestamp
      BY <2>2, <3>1, <3>2 DEF Add, Store
    <3>. QED
      BY <1>0, <2>1, <2>2, <3>3 DEF TypeOK
  <2>4. \A m \in Node \ {n} : store'[m] = store[m]
    BY <1>0, <2>1 DEF TypeOK
  <2>5. \A s \in Responder : Site(o, s)' = Site(o, s) /\ Site(o, s) \in Node
    BY <1>0, <2>1, SiteType DEF Site
  <2>6. \A s \in Responder : repair'[o][s] \in {"sent", "ready"} => repair[o][s] \in {"sent", "ready"}
    BY <1>0, <2>1 DEF TypeOK
  <2>. HIDE DEF n
  <2>7. ASSUME o \in Gets, NEW s \in Responder, repair'[o][s] \in {"sent", "ready"},
               Live(store[Site(o, s)], op[o].key)'
        PROVE  store'[Site(o, s)'][op'[o].key].timestamp <= latest'[o].timestamp
    <3>1. CASE Site(o, s) = n
      BY <2>1, <2>2, <2>3, <2>5, <3>1
    <3>2. CASE Site(o, s) # n
      BY <2>1, <2>4, <2>5, <2>6, <2>7, <3>2 DEF Calm, RepairsNewer, Live
    <3>. QED
      BY <3>1, <3>2
  <2>. QED
    BY <1>0, <1>1, <2>1, <2>2, <2>7, CalmOthers
<1>10. ASSUME FinishGet(o) PROVE Calm'
  <2>1. /\ phase[o] = "collect" /\ phase'[o] = "done" /\ o \in Gets
        /\ UNCHANGED <<store, op, coord, call, resp>>
    BY <1>0, <1>2, <1>10 DEF FinishGet, LoopOver, Answer, TypeOK, NameOf, Request
  <2>2. \A r \in Responder : Site(o, r)' = Site(o, r) /\ Site(o, r) \in Node /\ repair[o][r] = "none"
    BY <1>0, <2>1, SiteType DEF Site, Wellformed, RepairsAreWrites
  <2>3. ASSUME NEW s \in Responder, repair'[o][s] \in {"sent", "ready"},
               Live(store[Site(o, s)], op[o].key)'
        PROVE  store'[Site(o, s)'][op'[o].key].timestamp <= latest'[o].timestamp
    <3>1. PICK r \in FirstFound(o) :
              /\ latest' = [latest EXCEPT ![o] = resp[o][r]]
              /\ repair' = [repair EXCEPT ![o] = [q \in Responder |->
                                IF q \in Stale(o) THEN "sent" ELSE @[q]]]
      BY <1>10, <2>2, <2>3 DEF FinishGet, repairVars
    <3>2. s \in Responders(o) /\ latest'[o] = resp[o][r]
      BY <1>0, <2>2, <2>3, <3>1 DEF TypeOK, Stale
    <3>3. resp[o][s] = Get(store[Site(o, s)], op[o].key)
      BY <1>1, <2>1, <3>2 DEF Responders, Votes, Calm, ReadsCurrent, Answers
    <3>4. Live(store[Site(o, s)], op[o].key)
      BY <2>1, <2>2, <2>3 DEF Live
    <3>5. op[o].key \in Key /\ store[Site(o, s)] \in Store
      BY <1>0, <2>2, SiteType DEF TypeOK, Operation
    <3>6. resp[o][s].timestamp = store[Site(o, s)][op[o].key].timestamp /\ resp[o][s].timestamp # None
      BY <3>3, <3>4, <3>5, NoneAssumption DEF Get, Store, Entry, Live
    <3>7. resp[o][s].timestamp <= resp[o][r].timestamp
      BY <3>1, <3>2, <3>6 DEF FirstFound, Freshest, Stamped
    <3>. QED
      BY <2>1, <2>2, <3>2, <3>6, <3>7
  <2>. QED
    BY <1>0, <1>1, <2>1, <2>3, CalmOthers, RequestAssumption
<1>. QED
  BY <1>3, <1>4, <1>5, <1>6, <1>7, <1>8, <1>9, <1>10 DEF Works

LEMMA CalmNext == Wellformed /\ Calm /\ [PatientStep]_historyVars => Calm'
<1>. SUFFICES ASSUME Wellformed, Calm, [PatientStep]_historyVars PROVE Calm'
  OBVIOUS
<1>1. CASE UNCHANGED vars
  BY <1>1, ZenonT(30) DEF vars, Calm, OneActive, OwnAnswers, ReadsCurrent, RepairsNewer, LatestLast, Settled,
              Get, Live, Site
<1>. QED
  BY <1>1, PatientSteps, CalmStarts, CalmWorks DEF Calm

LEMMA CalmAlways == PatientSpec => [](Wellformed /\ Ledger /\ Calm)
<1>1. RealTimeInit => Calm
  BY DEF RealTimeInit, Init, Calm, OneActive, OwnAnswers, ReadsCurrent, RepairsNewer, LatestLast,
         Settled, Answers, Request
<1>. QED
  BY <1>1, CalmNext, WellformedAlways, LedgerAlways, PatientIsReplication, PTL
     DEF PatientSpec, PatientStep

-----------------------------------------------------------------------------
(***************************************************************************)
(* The part that needs clocks that agree                                   *)
(***************************************************************************)
LEMMA CountBegun == IsFiniteSet(Begun) /\ Cardinality(Begun) \in Nat
BY RequestAssumption, FS_Subset, FS_CardinalityType DEF Begun

LEMMA StampType ==
    ASSUME TypeOK, NEW o \in Begun
    PROVE  o \in Request /\ op[o] \in Operation /\ op[o].timestamp \in Nat /\ op[o].key \in Key
BY DEF TypeOK, Begun, Operation

\* A request that starts is newer than all that have begun.
LEMMA StartsNewest ==
    ASSUME TypeOK, SyncedClocks, NEW o \in Request, Starts(o)
    PROVE  /\ Begun' = Begun \cup {o} /\ o \notin Begun
           /\ op'[o].timestamp = Cardinality(Begun) + 1
           /\ Cardinality(Begun') = Cardinality(Begun) + 1
           /\ \A p \in Begun : op'[p] = op[p]
           /\ UNCHANGED <<store, latest, repair, reply>>
           /\ \A r \in Responder : call'[o][r] \in Answers => call[o][r] \in Answers \/ o \in Gets
<1>1. phase[o] = "new" /\ phase'[o] = "local" /\ \A p \in Request \ {o} : Alike(p)
  BY StartsApart
<1>2. Begun' = Begun \cup {o} /\ o \notin Begun /\ \A p \in Begun : op'[p] = op[p]
  BY <1>1 DEF Begun, Alike
<1>3. Cardinality(Begun') = Cardinality(Begun) + 1
  BY <1>2, CountBegun, FS_AddElement
<1>4. Now = {Cardinality(Begun) + 1}
  BY DEF Now
<1>5. PICK n \in Node, k \in Key : \/ o \in Adds /\ \E v \in Value : BeginAdd(o, n, k, v)
                                   \/ o \in Removes /\ BeginRemove(o, n, k)
                                   \/ o \in Gets /\ BeginGet(o, n, k)
  BY DEF Starts
<1>6. op'[o].timestamp = Cardinality(Begun) + 1 /\ UNCHANGED <<store, latest, repair, reply>>
  <2>1. ASSUME NEW v \in Value, BeginAdd(o, n, k, v)
        PROVE  op'[o].timestamp = Cardinality(Begun) + 1 /\ UNCHANGED <<store, latest, repair, reply>>
    BY <1>4, <2>1 DEF BeginAdd, Accept, TypeOK, repairVars
  <2>2. ASSUME BeginRemove(o, n, k)
        PROVE  op'[o].timestamp = Cardinality(Begun) + 1 /\ UNCHANGED <<store, latest, repair, reply>>
    BY <1>4, <2>2 DEF BeginRemove, Accept, TypeOK, repairVars
  <2>3. ASSUME BeginGet(o, n, k)
        PROVE  op'[o].timestamp = Cardinality(Begun) + 1 /\ UNCHANGED <<store, latest, repair, reply>>
    BY <1>4, <2>3 DEF BeginGet, Accept, TypeOK, repairVars
  <2>. QED
    BY <1>5, <2>1, <2>2, <2>3
<1>7. \A r \in Responder : call'[o][r] \in Answers => call[o][r] \in Answers \/ o \in Gets
  <2>1. CASE o \in Gets
    BY <2>1
  <2>2. CASE o \notin Gets
    <3>1. call' = [call EXCEPT ![o][Local] = "ready"]
      BY <1>5, <2>2 DEF BeginAdd, BeginRemove
    <3>. QED
      BY <3>1 DEF TypeOK, Answers, Responder
  <2>. QED
    BY <2>1, <2>2
<1>. QED
  BY <1>2, <1>3, <1>6, <1>7

\* What works on a request leaves the requests that have begun, and their operations.
LEMMA WorksKeepsBegun ==
    ASSUME Wellformed, NEW o \in Request, Works(o), Others(o), after'[o] = after[o]
    PROVE  /\ Begun' = Begun /\ o \in Begun
           /\ UNCHANGED <<op, coord>>
           /\ \A p \in Request : after'[p] = after[p]
           /\ phase[o] = "done" => phase'[o] = "done"
<1>1. phase[o] # "new" /\ \A p \in Request \ {o} : Alike(p)
  BY WorksApart
<1>2. UNCHANGED <<op, coord>>
  BY DEF Works, FanOut, FinishAdd, FinishRemove, FinishGet, StoreAdd, StoreRemoveCheck,
         StoreRemoveUpdate, ApplyRepair, ReceiveWrite, ServeGet, LoseCall, JoinNext,
         ReceiveRepair, LoseRepair, requestVars
<1>3. phase'[o] \in {phase[o], "collect", "done"} /\ (phase[o] = "done" => phase'[o] = "done")
  BY DEF Works, FanOut, FinishAdd, FinishRemove, FinishGet, StoreAdd, StoreRemoveCheck,
         StoreRemoveUpdate, ApplyRepair, ReceiveWrite, ServeGet, LoseCall, JoinNext,
         ReceiveRepair, LoseRepair, requestVars, Answer, LoopOver, Wellformed, TypeOK
<1>4. Begun' = Begun
  BY <1>1, <1>3 DEF Begun, Alike
<1>. QED
  BY <1>1, <1>2, <1>3, <1>4 DEF Begun, Others

LEMMA OrderedStarts ==
    ASSUME Wellformed, SyncedClocks, Ordered, NEW o \in Request, Starts(o), Others(o), Settled(o),
           after'[o] = Answered
    PROVE  Ordered'
<1>0. TypeOK
  BY DEF Wellformed
<1>1. /\ Begun' = Begun \cup {o} /\ o \notin Begun
      /\ op'[o].timestamp = Cardinality(Begun) + 1
      /\ Cardinality(Begun') = Cardinality(Begun) + 1
      /\ \A p \in Begun : op'[p] = op[p]
  BY <1>0, StartsNewest
<1>2. \A p \in Begun : p \in Request /\ op[p].timestamp \in Nat /\ op[p].timestamp <= Cardinality(Begun)
  BY <1>0, StampType DEF Ordered, Stamps
<1>3. \A p \in Request \ {o} : Settled(p)' /\ phase'[p] = phase[p] /\ after'[p] = after[p]
  BY AlikeSettled DEF Others, Alike
<1>4. Stamps'
  BY <1>1, <1>2, CountBegun DEF Ordered, Stamps
<1>5. ActiveNewest'
  <2>1. ASSUME NEW p \in Begun', NEW q \in Begun', ~Settled(p)', q # p
        PROVE  op'[q].timestamp < op'[p].timestamp
    <3>1. p = o
      BY <1>1, <1>2, <1>3, <2>1
    <3>. QED
      BY <1>1, <1>2, <2>1, <3>1, CountBegun
  <2>. QED
    BY <2>1 DEF ActiveNewest
<1>6. AfterOver'
  <2>1. o \notin Answered
    BY <1>1 DEF Answered, Begun
  <2>2. \A p \in Answered : p \in Answered' /\ Settled(p)'
    BY <1>3, <2>1 DEF Answered
  <2>. QED
    BY <1>1, <1>2, <1>3, <2>2 DEF Ordered, AfterOver
<1>. QED
  BY <1>4, <1>5, <1>6 DEF Ordered

LEMMA OrderedWorks ==
    ASSUME Wellformed, Ordered, NEW o \in Request, Works(o), Others(o), ~Settled(o),
           after'[o] = after[o]
    PROVE  Ordered'
<1>1. /\ Begun' = Begun /\ o \in Begun /\ UNCHANGED op
      /\ \A p \in Request : after'[p] = after[p]
  BY WorksKeepsBegun
<1>2. \A p \in Request \ {o} : Settled(p)' /\ phase'[p] = phase[p]
  BY AlikeSettled DEF Others, Alike
<1>3. Begun \subseteq Request
  BY DEF Begun
<1>4. Stamps'
  BY <1>1 DEF Ordered, Stamps
<1>5. ActiveNewest'
  BY <1>1, <1>2, <1>3 DEF Ordered, ActiveNewest
<1>6. AfterOver'
  BY <1>1, <1>2, <1>3 DEF Ordered, AfterOver, Answered
<1>. QED
  BY <1>4, <1>5, <1>6 DEF Ordered

LEMMA OrderedNext ==
    Wellformed /\ SyncedClocks /\ Calm /\ Ordered /\ [PatientStep]_historyVars => Ordered'
<1>. SUFFICES ASSUME Wellformed, SyncedClocks, Calm, Ordered, [PatientStep]_historyVars
              PROVE  Ordered'
  OBVIOUS
<1>1. ASSUME UNCHANGED vars, \A p \in Request : after'[p] = after[p] PROVE Ordered'
  BY <1>1 DEF vars, Ordered, Stamps, ActiveNewest, AfterOver, Settled, Begun, Answered
<1>. QED
  BY <1>1, PatientSteps, OrderedStarts, OrderedWorks DEF Calm

-----------------------------------------------------------------------------
(***************************************************************************)
(* Nodes keep the ADDs they have answered                                  *)
(***************************************************************************)
\* Putting an entry into a store leaves the others.
LEMMA PutEntry ==
    ASSUME store \in [Node -> Store], NEW n \in Node, NEW l \in Key, NEW e,
           store' = [store EXCEPT ![n] = [store[n] EXCEPT ![l] = e]]
    PROVE  /\ store'[n][l] = e
           /\ \A m \in Node, k \in Key : ~(m = n /\ k = l) => store'[m][k] = store[m][k]
<1>1. store[n] \in [Key -> Entry \cup {None}]
  BY DEF Store
<1>. QED
  BY <1>1

\* A later REMOVE stays.
LEMMA RemovedLaterKept ==
    ASSUME OpsKept, NEW a \in Begun, RemovedLater(a)
    PROVE  RemovedLater(a)'
BY DEF OpsKept, RemovedLater, SameKey, Begun

\* What a node holds survives a step of the one request that is under way.
LEMMA HoldsKept ==
    ASSUME Wellformed, Calm, Ordered, OpsKept, NEW o \in Request, Works(o), Others(o),
           ~Settled(o), NEW a \in Adds \cap Begun, NEW n \in Node, Holds(a, n)
    PROVE  Holds(a, n)'
<1>0. /\ TypeOK /\ op'[a] = op[a] /\ op[a].timestamp \in Nat /\ op[a].key \in Key /\ a \in Request
      /\ phase[o] # "new" /\ o \in Begun /\ op'[o] = op[o] /\ op[o] \in Operation /\ o \in Begun'
      /\ op[o].timestamp \in Nat /\ op[o].key \in Key
  BY StampType, WorksApart DEF Wellformed, OpsKept, Begun
<1>1. CASE RemovedLater(a)
  BY <1>1, RemovedLaterKept DEF Holds
<1>. DEFINE k == op[a].key
<1>2. CASE ~RemovedLater(a)
  <2>1. Live(store[n], k) /\ op[a].timestamp <= store[n][k].timestamp
    BY <1>2 DEF Holds
  <2>2. ASSUME store'[n][k] = store[n][k] PROVE Holds(a, n)'
    BY <1>0, <2>1, <2>2 DEF Holds, Live
  <2>3. ASSUME NEW r \in Responder, StoreAdd(o, r) PROVE Holds(a, n)'
    <3>. DEFINE e == [value |-> op[o].value, timestamp |-> op[o].timestamp, valid |-> TRUE]
    <3>1. /\ Site(o, r) \in Node
          /\ store' = [store EXCEPT ![Site(o, r)] = [store[Site(o, r)] EXCEPT ![op[o].key] = e]]
      BY <1>0, <2>3, SiteType DEF StoreAdd, Add
    <3>2. CASE n = Site(o, r) /\ k = op[o].key
      <4>0. op[o].value \in Value
        BY <1>0, <2>3 DEF StoreAdd, Operation
      <4>1. e \in Entry /\ e.valid /\ e.timestamp = op[o].timestamp
        BY <1>0, <4>0 DEF Entry
      <4>. HIDE DEF e
      <4>2. store'[n][k] = e
        <5>1. store \in [Node -> [Key -> Entry \cup {None}]]
          BY <1>0 DEF TypeOK, Store
        <5>2. store'[Site(o, r)][op[o].key] = e
          BY ONLY <1>0, <3>1, <5>1
        <5>. QED
          BY <3>2, <5>2
      <4>3. op[a].timestamp <= op[o].timestamp
        BY <1>0 DEF Ordered, ActiveNewest
      <4>. QED
        BY <1>0, <4>1, <4>2, <4>3, NoneAssumption DEF Holds, Live
    <3>3. CASE ~(n = Site(o, r) /\ k = op[o].key)
      <4>1. store'[n][k] = store[n][k]
        BY <1>0, <3>1, <3>3, PutEntry DEF TypeOK
      <4>. QED
        BY <2>2, <4>1
    <3>. QED
      BY <3>2, <3>3
  <2>4. ASSUME NEW r \in Responder, StoreRemoveUpdate(o, r) PROVE Holds(a, n)'
    <3>1. Site(o, r) \in Node /\ \E e :
              store' = [store EXCEPT ![Site(o, r)] = [store[Site(o, r)] EXCEPT ![op[o].key] = e]]
      BY <1>0, <2>4, SiteType DEF StoreRemoveUpdate, Bury
    <3>2. CASE k = op[o].key
      <4>1. op[o].name = "REMOVE"
        BY <2>4 DEF StoreRemoveUpdate, Wellformed, CheckedHasValue
      <4>2. o \in Removes /\ o # a
        BY <1>0, <4>1, RequestAssumption DEF Wellformed, NamesMatch, NameOf
      <4>3. op[a].timestamp < op[o].timestamp
        BY <1>0, <4>2 DEF Ordered, ActiveNewest
      <4>4. RemovedLater(a)'
        BY <1>0, <3>2, <4>2, <4>3 DEF RemovedLater, SameKey
      <4>. QED
        BY <4>4 DEF Holds
    <3>3. CASE k # op[o].key
      <4>1. store'[n][k] = store[n][k]
        BY <1>0, <3>1, <3>3, PutEntry DEF TypeOK
      <4>. QED
        BY <2>2, <4>1
    <3>. QED
      BY <3>2, <3>3
  <2>5. ASSUME NEW r \in Responder, ApplyRepair(o, r) PROVE Holds(a, n)'
    <3>. DEFINE e == [value |-> latest[o].value, timestamp |-> latest[o].timestamp, valid |-> TRUE]
    <3>1. repair[o][r] \in {"sent", "ready"} /\ Site(o, r) \in Node
      BY <1>0, <2>5, SiteType DEF ApplyRepair
    <3>2. /\ o \in Gets /\ latest[o].value \in Value /\ latest[o].timestamp \in Nat
      BY <3>1 DEF Wellformed, RepairsAreWrites
    <3>3. store' = [store EXCEPT ![Site(o, r)] = [store[Site(o, r)] EXCEPT ![op[o].key] = e]]
      <4>1. /\ RepairOperation(o).name = "ADD" /\ RepairOperation(o).key = op[o].key
            /\ RepairOperation(o).value = latest[o].value
            /\ RepairOperation(o).timestamp = latest[o].timestamp
        BY <3>1, RepairIsAdd
      <4>2. RepairedStore(o, Site(o, r)) = [store[Site(o, r)] EXCEPT ![op[o].key] = e]
        BY <4>1 DEF RepairedStore, Add
      <4>. QED
        BY <2>5, <4>2 DEF ApplyRepair
    <3>4. CASE n = Site(o, r) /\ k = op[o].key
      <4>1. e \in Entry /\ e.valid /\ e.timestamp = latest[o].timestamp
        BY <3>2 DEF Entry
      <4>. HIDE DEF e
      <4>2. store'[n][k] = e
        <5>1. store \in [Node -> [Key -> Entry \cup {None}]]
          BY <1>0 DEF TypeOK, Store
        <5>2. store'[Site(o, r)][op[o].key] = e
          BY ONLY <1>0, <3>1, <3>3, <5>1
        <5>. QED
          BY <3>4, <5>2
      <4>3. store[n][k].timestamp <= latest[o].timestamp
        BY <2>1, <3>1, <3>2, <3>4 DEF Calm, RepairsNewer
      <4>4. store[n][k].timestamp \in Nat
        BY <1>0, <2>1 DEF TypeOK, Store, Entry, Live
      <4>. QED
        BY <1>0, <2>1, <3>2, <4>1, <4>2, <4>3, <4>4, NoneAssumption DEF Holds, Live
    <3>5. CASE ~(n = Site(o, r) /\ k = op[o].key)
      <4>1. store'[n][k] = store[n][k]
        BY <1>0, <3>1, <3>3, <3>5, PutEntry DEF TypeOK
      <4>. QED
        BY <2>2, <4>1
    <3>. QED
      BY <3>4, <3>5
  <2>6. ASSUME UNCHANGED store PROVE Holds(a, n)'
    BY <2>2, <2>6
  <2>. QED
    BY <2>3, <2>4, <2>5, <2>6
       DEF Works, FanOut, FinishAdd, FinishRemove, FinishGet, StoreRemoveCheck,
           ReceiveWrite, ServeGet, LoseCall, JoinNext, ReceiveRepair, LoseRepair
<1>. QED
  BY <1>1, <1>2


\* Only the store of the responder makes it answer an ADD.
LEMMA AnswersAdd ==
    ASSUME Wellformed, NEW o \in Adds, Works(o), NEW r \in Responder,
           call'[o][r] \in Answers, call[o][r] \notin Answers
    PROVE  StoreAdd(o, r)
<1>0. o \in Request /\ TypeOK /\ phase[o] # "new"
  BY WorksApart DEF Request, Wellformed
<1>1. op[o].name = "ADD"
  BY <1>0 DEF Wellformed, NamesMatch, NameOf
<1>2. ASSUME FanOut(o) PROVE FALSE
  BY <1>0, <1>2 DEF FanOut, TypeOK, Answers
<1>3. ASSUME NEW s \in Responder, StoreAdd(o, s) PROVE s = r
  BY <1>0, <1>3 DEF StoreAdd, TypeOK
<1>4. ASSUME NEW s \in Responder, StoreRemoveCheck(o, s) \/ StoreRemoveUpdate(o, s) PROVE FALSE
  BY <1>0, <1>1, <1>4 DEF StoreRemoveCheck, StoreRemoveUpdate, Wellformed, CheckedHasValue
<1>5. ASSUME NEW n \in Node, ReceiveWrite(o, n) \/ LoseCall(o, n) \/ ServeGet(o, n) \/ JoinNext(o, n)
      PROVE  FALSE
  <2>1. ~ServeGet(o, n)
    BY <1>1 DEF ServeGet
  <2>2. PICK c : call' = [call EXCEPT ![o][n] = c] /\ (c \in Answers => call[o][n] \in Answers)
    BY <1>5, <2>1 DEF ReceiveWrite, LoseCall, JoinNext, Answers
  <2>. QED
    BY <1>0, <2>2 DEF TypeOK
<1>6. call # call'
  OBVIOUS
<1>. QED
  BY <1>2, <1>3, <1>4, <1>5, <1>6
     DEF Works, FinishAdd, FinishRemove, FinishGet, ApplyRepair, ReceiveRepair, LoseRepair

LEMMA AddsHeldStarts ==
    ASSUME Wellformed, SyncedClocks, OpsKept, AddsHeld, NEW o \in Request, Starts(o), Others(o)
    PROVE  AddsHeld'
<1>. SUFFICES ASSUME NEW a \in Adds, NEW r \in Responder, call'[a][r] \in Answers
              PROVE  Holds(a, Site(a, r))'
  BY DEF AddsHeld
<1>0. TypeOK /\ UNCHANGED store /\ a \in Request /\ a \notin Gets
  BY StartsNewest, RequestAssumption DEF Wellformed, Request
<1>1. a # o
  <2>1. \A s \in Responder : call[o][s] = "idle"
    BY <1>0, StartsApart DEF Wellformed, NewUntouched
  <2>. QED
    BY <1>0, <2>1, StartsNewest DEF Answers
<1>2. Alike(a)
  BY <1>0, <1>1 DEF Others
<1>3. call[a][r] \in Answers /\ op'[a] = op[a] /\ Site(a, r)' = Site(a, r)
  BY <1>2 DEF Alike, Site
<1>4. a \in Begun
  BY <1>0, <1>3 DEF Wellformed, NewUntouched, Begun, Answers
<1>5. Holds(a, Site(a, r))
  BY <1>3 DEF AddsHeld
<1>. QED
  BY <1>0, <1>3, <1>4, <1>5, RemovedLaterKept DEF Holds, Live

LEMMA AddsHeldWorks ==
    ASSUME Wellformed, Calm, Ordered, OpsKept, AddsHeld, NEW o \in Request, Works(o), Others(o),
           ~Settled(o), after'[o] = after[o]
    PROVE  AddsHeld'
<1>. SUFFICES ASSUME NEW a \in Adds, NEW r \in Responder, call'[a][r] \in Answers
              PROVE  Holds(a, Site(a, r))'
  BY DEF AddsHeld
<1>0. /\ TypeOK /\ a \in Request /\ UNCHANGED <<op, coord>> /\ o \in Begun /\ Begun' = Begun
      /\ Site(a, r)' = Site(a, r)
  BY WorksKeepsBegun DEF Wellformed, Request, Site
<1>1. CASE call[a][r] \in Answers
  <2>1. a \in Begun /\ Holds(a, Site(a, r))
    BY <1>0, <1>1 DEF Wellformed, NewUntouched, Begun, Answers, AddsHeld
  <2>2. Site(a, r) \in Node
    BY <1>0, <2>1, SiteType DEF Begun
  <2>. QED
    BY <1>0, <2>1, <2>2, HoldsKept
<1>2. CASE call[a][r] \notin Answers
  <2>1. a = o
    BY <1>0, <1>2 DEF Others, Alike
  <2>2. StoreAdd(o, r)
    BY <1>2, <2>1, AnswersAdd
  <2>. DEFINE e == [value |-> op[o].value, timestamp |-> op[o].timestamp, valid |-> TRUE]
  <2>3. /\ Site(o, r) \in Node /\ op[o].key \in Key /\ op[o].timestamp \in Nat
        /\ op[o].value \in Value
    BY <1>0, <2>2, StampType, SiteType DEF Begun, StoreAdd, Operation
  <2>4. store' = [store EXCEPT ![Site(o, r)] = [store[Site(o, r)] EXCEPT ![op[o].key] = e]]
    BY <2>2 DEF StoreAdd, Add
  <2>5. e \in Entry /\ e.valid /\ e.timestamp = op[o].timestamp
    BY <2>3 DEF Entry
  <2>. HIDE DEF e
  <2>6. store \in [Node -> [Key -> Entry \cup {None}]]
    BY <1>0 DEF TypeOK, Store
  <2>7. store'[Site(o, r)][op[o].key] = e
    BY ONLY <2>3, <2>4, <2>6
  <2>. QED
    BY <1>0, <2>1, <2>3, <2>5, <2>7, NoneAssumption DEF Holds, Live
<1>. QED
  BY <1>1, <1>2

-----------------------------------------------------------------------------
(***************************************************************************)
(* Read repair                                                             *)
(***************************************************************************)
\* Two answers with the same timestamp are the same answer.
LEMMA SameAnswer ==
    ASSUME Wellformed, Ordered, NEW g \in Request, NEW r \in Responder, NEW s \in Responder,
           resp[g][r].timestamp # None, resp[g][r].timestamp = resp[g][s].timestamp
    PROVE  resp[g][r] = resp[g][s]
<1>1. PICK o \in Begun : op[o] = [name |-> "ADD", key |-> op[g].key, value |-> resp[g][r].value,
                                  timestamp |-> resp[g][r].timestamp]
  BY DEF Wellformed, AnswersAreWrites, Written
<1>2. PICK p \in Begun : op[p] = [name |-> "ADD", key |-> op[g].key, value |-> resp[g][s].value,
                                  timestamp |-> resp[g][s].timestamp]
  BY DEF Wellformed, AnswersAreWrites, Written
<1>3. op[o].timestamp = op[p].timestamp
  BY <1>1, <1>2
<1>4. o = p
  BY <1>3 DEF Ordered, Stamps
<1>5. resp[g][r].value = op[o].value /\ resp[g][s].value = op[p].value
  BY <1>1, <1>2
<1>6. resp[g][r] \in Response /\ resp[g][s] \in Response
  BY DEF Wellformed, TypeOK
<1>. QED
  BY <1>4, <1>5, <1>6 DEF Response

\* A GET is answered: all that answered it report what it found, or are sent a repair.
LEMMA FinishRepairs ==
    ASSUME Wellformed, Calm, Ordered, NEW g \in Gets, FinishGet(g), NEW r \in Responders(g)
    PROVE  \/ repair'[g][r] = "sent"
           \/ Get(store[Site(g, r)], op[g].key) = latest'[g]
<1>0. /\ g \in Request /\ TypeOK /\ r \in Responder /\ phase[g] = "collect"
      /\ op[g] \in Operation /\ op[g].key \in Key /\ Site(g, r) \in Node
  BY SiteType DEF Request, Wellformed, TypeOK, Responders, Votes, Responder, FinishGet, LoopOver,
                  Operation
<1>1. resp[g][r] = Get(store[Site(g, r)], op[g].key)
  BY <1>0 DEF Calm, OwnAnswers, ReadsCurrent, Responders, Votes, Answers
<1>2. CASE Stamped(g) = {} /\ UNCHANGED repairVars
  <2>1. resp[g][r].timestamp = None
    BY <1>2 DEF Stamped
  <2>2. store[Site(g, r)] \in Store
    BY <1>0 DEF TypeOK
  <2>3. resp[g][r] = NotFound
    BY <1>0, <1>1, <2>1, <2>2, NoneAssumption DEF Get, Store, Entry, Live
  <2>4. latest'[g] = NotFound
    BY <1>0, <1>2 DEF Calm, LatestLast, repairVars
  <2>. QED
    BY <1>1, <2>3, <2>4
<1>3. ASSUME NEW f \in FirstFound(g), latest' = [latest EXCEPT ![g] = resp[g][f]],
             repair' = [repair EXCEPT ![g] = [s \in Responder |->
                            IF s \in Stale(g) THEN "sent" ELSE @[s]]]
      PROVE  \/ repair'[g][r] = "sent"
             \/ Get(store[Site(g, r)], op[g].key) = latest'[g]
  <2>1. latest'[g] = resp[g][f]
    BY <1>0, <1>3 DEF TypeOK
  <2>2. CASE r \in Stale(g)
    BY <1>0, <1>3, <2>2 DEF TypeOK
  <2>3. CASE r \in Freshest(g)
    <3>1. f \in Freshest(g) /\ f \in Responder
      BY FreshestAnswer, <1>0 DEF FirstFound
    <3>2. resp[g][f].timestamp \in Nat /\ resp[g][r].timestamp \in Nat
      BY <1>0, <2>3, <3>1 DEF Freshest, Stamped, TypeOK, Response
    <3>3. resp[g][f].timestamp <= resp[g][r].timestamp /\ resp[g][r].timestamp <= resp[g][f].timestamp
      BY <2>3, <3>1 DEF Freshest
    <3>4. resp[g][r].timestamp = resp[g][f].timestamp /\ resp[g][r].timestamp # None
      BY <3>2, <3>3, NoneAssumption
    <3>5. resp[g][r] = resp[g][f]
      BY <1>0, <3>1, <3>4, SameAnswer
    <3>. QED
      BY <1>1, <2>1, <3>5
  <2>. QED
    BY <2>2, <2>3 DEF Stale
<1>. QED
  BY <1>2, <1>3 DEF FinishGet

\* A repair is applied: its responder reports what the GET found.
LEMMA ApplyRepairs ==
    ASSUME Wellformed, NEW g \in Gets, NEW s \in Responder, ApplyRepair(g, s),
           NEW r \in Responder,
           \/ repair[g][r] \in {"sent", "ready", "lost"}
           \/ Get(store[Site(g, r)], op[g].key) = latest[g]
    PROVE  \/ repair'[g][r] \in {"sent", "ready", "lost"}
           \/ Get(store'[Site(g, r)], op[g].key) = latest[g]
<1>. DEFINE k == op[g].key
            n == Site(g, s)
            e == [value |-> latest[g].value, timestamp |-> latest[g].timestamp, valid |-> TRUE]
<1>0. /\ g \in Request /\ TypeOK /\ repair[g][s] \in {"sent", "ready"} /\ phase[g] # "new"
      /\ latest[g].value \in Value /\ latest[g].timestamp \in Nat
  BY DEF Request, Wellformed, RepairsAreWrites, ApplyRepair
<1>1. n \in Node /\ Site(g, r) \in Node /\ k \in Key /\ op[g] \in Operation
  BY <1>0, SiteType DEF Operation
<1>2. store' = [store EXCEPT ![n] = [store[n] EXCEPT ![k] = e]]
  <2>1. /\ RepairOperation(g).name = "ADD" /\ RepairOperation(g).key = k
        /\ RepairOperation(g).value = latest[g].value
        /\ RepairOperation(g).timestamp = latest[g].timestamp
    BY <1>0, RepairIsAdd
  <2>2. RepairedStore(g, n) = [store[n] EXCEPT ![k] = e]
    BY <2>1 DEF RepairedStore, Add
  <2>. QED
    BY <2>2 DEF ApplyRepair
<1>3. store \in [Node -> [Key -> Entry \cup {None}]]
  BY <1>0 DEF TypeOK, Store
<1>4. e \in Entry /\ e.valid /\ e.value = latest[g].value /\ e.timestamp = latest[g].timestamp
  BY <1>0 DEF Entry
<1>5. latest[g] = [value |-> latest[g].value, timestamp |-> latest[g].timestamp]
  BY <1>0 DEF TypeOK, Response
<1>. HIDE DEF e, n, k
<1>6. CASE Site(g, r) = n
  <2>1. store'[n][k] = e
    BY ONLY <1>1, <1>2, <1>3
  <2>2. Live(store'[n], k)
    BY <1>4, <2>1, NoneAssumption DEF Live
  <2>3. Get(store'[n], k) = latest[g]
    BY <1>4, <1>5, <2>1, <2>2 DEF Get
  <2>. QED
    BY <1>6, <2>3 DEF k
<1>7. CASE Site(g, r) # n
  <2>1. r # s
    BY <1>7 DEF n
  <2>2. repair'[g][r] = repair[g][r]
    BY <1>0, <2>1 DEF TypeOK, ApplyRepair
  <2>3. store'[Site(g, r)] = store[Site(g, r)]
    BY ONLY <1>1, <1>2, <1>3, <1>7
  <2>. QED
    BY <2>2, <2>3
<1>. QED
  BY <1>6, <1>7

LEMMA RepairingStarts ==
    ASSUME Wellformed, SyncedClocks, Ordered, NEW o \in Request, Starts(o), Others(o)
    PROVE  Repairing'
<1>. SUFFICES ASSUME NEW g \in Gets, phase'[g] = "done", Begun' = after'[g] \cup {g}
              PROVE  FALSE
  BY DEF Repairing
<1>1. /\ phase[o] = "new" /\ phase'[o] = "local" /\ o \in Begun' /\ g \in Request /\ g # o
  BY StartsApart DEF Wellformed, Begun, Request
<1>2. o \in after[g] /\ g \in Begun
  BY <1>1 DEF Others, Alike, Begun
<1>. QED
  BY <1>1, <1>2 DEF Ordered, AfterOver, Answered

LEMMA RepairingWorks ==
    ASSUME Wellformed, Calm, Ordered, Repairing, NEW o \in Request, Works(o), Others(o),
           ~Settled(o), after'[o] = after[o]
    PROVE  Repairing'
<1>. SUFFICES ASSUME NEW g \in Gets, phase'[g] = "done", Begun' = after'[g] \cup {g},
                     NEW r \in Responders(g)'
              PROVE  \/ repair'[g][r] \in {"sent", "ready", "lost"}
                     \/ Get(store[Site(g, r)], op[g].key)' = latest'[g]
  BY DEF Repairing
<1>0. /\ TypeOK /\ g \in Request /\ UNCHANGED <<op, coord>> /\ Begun' = Begun /\ o \in Begun
      /\ after'[g] = after[g] /\ phase[o] # "new"
      /\ \A s \in Responder : Site(g, s)' = Site(g, s)
      /\ r \in Responder
  BY WorksKeepsBegun, WorksApart
     DEF Wellformed, Request, Site, Responders, Votes, Responder
<1>1. o = g
  <2>1. SUFFICES ASSUME o # g PROVE FALSE
    OBVIOUS
  <2>2. g \in Begun /\ o \in after[g]
    BY <1>0, <2>1 DEF Others, Alike, Begun
  <2>. QED
    BY <2>2 DEF Ordered, AfterOver
<1>2. op[g].name = "GET" /\ g \notin Adds /\ g \notin Removes
  BY <1>0, <1>1, RequestAssumption DEF Wellformed, NamesMatch, NameOf
<1>3. Get(store[Site(g, r)], op[g].key)' = Get(store'[Site(g, r)], op[g].key)
  BY <1>0 DEF Get, Live
<1>4. CASE FinishGet(g)
  <2>1. UNCHANGED <<store, call>>
    BY <1>4 DEF FinishGet
  <2>2. r \in Responders(g)
    BY <2>1 DEF Responders, Votes
  <2>. QED
    BY <1>3, <1>4, <2>1, <2>2, FinishRepairs
<1>5. ASSUME phase[g] = "done", UNCHANGED latest, r \in Responders(g)
      PROVE  \/ repair[g][r] \in {"sent", "ready", "lost"}
             \/ Get(store[Site(g, r)], op[g].key) = latest[g]
  BY <1>0, <1>5 DEF Repairing
<1>6. ASSUME NEW s \in Responder, ApplyRepair(g, s)
      PROVE  \/ repair'[g][r] \in {"sent", "ready", "lost"}
             \/ Get(store[Site(g, r)], op[g].key)' = latest'[g]
  <2>1. UNCHANGED <<phase, call, latest>>
    BY <1>6 DEF ApplyRepair, requestVars
  <2>2. r \in Responders(g)
    BY <2>1 DEF Responders, Votes
  <2>. QED
    BY <1>0, <1>3, <1>5, <1>6, <2>1, <2>2, ApplyRepairs
<1>7. ASSUME NEW n \in Node, ReceiveRepair(g, n) \/ LoseRepair(g, n)
      PROVE  \/ repair'[g][r] \in {"sent", "ready", "lost"}
             \/ Get(store[Site(g, r)], op[g].key)' = latest'[g]
  <2>1. UNCHANGED <<phase, call, latest, store>>
    BY <1>7 DEF ReceiveRepair, LoseRepair, requestVars
  <2>2. r \in Responders(g)
    BY <2>1 DEF Responders, Votes
  <2>3. PICK c \in {"ready", "lost"} : repair' = [repair EXCEPT ![g][n] = c]
    BY <1>7 DEF ReceiveRepair, LoseRepair
  <2>4. repair'[g][r] \in {repair[g][r], "ready", "lost"}
    BY <1>0, <2>3 DEF TypeOK
  <2>. QED
    BY <1>3, <1>5, <2>1, <2>2, <2>4
<1>8. ASSUME NEW n \in Node, ServeGet(g, n) \/ LoseCall(g, n) \/ JoinNext(g, n)
      PROVE  \/ repair'[g][r] \in {"sent", "ready", "lost"}
             \/ Get(store[Site(g, r)], op[g].key)' = latest'[g]
  <2>1. UNCHANGED <<phase, latest, store, repair>>
    BY <1>8 DEF ServeGet, LoseCall, JoinNext, requestVars, repairVars
  <2>2. PICK c : call' = [call EXCEPT ![g][n] = c] /\ c # "voted"
    BY <1>8, <2>1 DEF ServeGet, LoseCall, JoinNext
  <2>3. r \in Responders(g)
    BY <1>0, <2>2 DEF Responders, Votes, TypeOK, Responder
  <2>. QED
    BY <1>3, <1>5, <2>1, <2>3
<1>9. /\ ~FinishAdd(g) /\ ~FinishRemove(g) /\ ~FanOut(g)
      /\ \A s \in Responder : /\ ~StoreAdd(g, s) /\ ~StoreRemoveCheck(g, s)
                              /\ ~StoreRemoveUpdate(g, s)
      /\ \A n \in Node : ~ReceiveWrite(g, n)
  <2>1. ~FanOut(g)
    BY <1>0 DEF FanOut, TypeOK
  <2>. QED
    BY <1>0, <1>2, <2>1
       DEF FinishAdd, FinishRemove, StoreAdd, StoreRemoveCheck, StoreRemoveUpdate, ReceiveWrite,
           Wellformed, CheckedHasValue
<1>. QED
  BY <1>1, <1>4, <1>6, <1>7, <1>8, <1>9 DEF Works

-----------------------------------------------------------------------------
(***************************************************************************)
(* The theorems                                                            *)
(***************************************************************************)
LEMMA TimelyNext ==
    Wellformed /\ SyncedClocks /\ Calm /\ Timely /\ [PatientStep]_historyVars => Timely'
<1>. SUFFICES ASSUME Wellformed, SyncedClocks, Calm, Timely, [PatientStep]_historyVars
              PROVE  Timely'
  OBVIOUS
<1>1. Ordered'
  BY OrderedNext DEF Timely
<1>2. OpsKept
  <2>1. [Next]_vars
    BY DEF PatientStep, RealTimeNext, historyVars
  <2>. QED
    BY <2>1, NextKeepsOps DEF Wellformed
<1>3. CASE UNCHANGED vars /\ \A p \in Request : after'[p] = after[p]
  <2>1. AddsHeld'
    BY <1>3 DEF vars, Timely, AddsHeld, Holds, RemovedLater, SameKey, Live, Site, Begun
  <2>2. Repairing'
    BY <1>3 DEF vars, Timely, Repairing, Responders, Votes, Get, Live, Site, Begun, Request
  <2>. QED
    BY <1>1, <2>1, <2>2 DEF Timely
<1>. QED
  BY <1>1, <1>2, <1>3, PatientSteps, AddsHeldStarts, AddsHeldWorks, RepairingStarts, RepairingWorks
     DEF Timely, Calm

\* The two invariants hold in every run of patient clients with clocks that agree.
THEOREM TimelyAlways ==
    ASSUME SyncedClocks
    PROVE  PatientSpec => [](Wellformed /\ Ledger /\ Calm /\ Timely)
<1>1. RealTimeInit => Timely
  BY DEF RealTimeInit, Init, Timely, Ordered, Stamps, ActiveNewest, AfterOver, AddsHeld, Repairing,
         Begun, Answers, Request
<1>2. Wellformed /\ Calm /\ Timely /\ [PatientStep]_historyVars => Timely'
  BY TimelyNext
<1>. QED
  BY <1>1, <1>2, CalmAlways, PTL DEF PatientSpec, PatientStep

(***************************************************************************)
(* Once the repairs of a GET have ended without a lost call, and before    *)
(* another request begins, all that answered it report the same entry.     *)
(***************************************************************************)
THEOREM ReadRepairConvergesHolds ==
    ASSUME SyncedClocks
    PROVE  PatientSpec => []ReadRepairConverges
<1>1. Timely => ReadRepairConverges
  BY DEF Timely, Repairing, ReadRepairConverges, RepairedBy, Responders, Votes, Responder
<1>. QED
  BY <1>1, TimelyAlways, PTL

\* A quorum of reads meets every quorum of writes.
LEMMA QuorumsMeet ==
    ASSUME Wellformed, Ledger, Intersecting, \A n \in Node : n \notin Pool[n],
           NEW g \in Gets, phase[g] # "new", Cardinality(Votes(g)) = Needed(g),
           NEW a \in Adds, phase[a] # "new", Cardinality(Votes(a)) = Needed(a)
    PROVE  \E n \in Node : /\ n \in Votes(g) \cup {coord[g]}
                           /\ n \in Votes(a) \cup {coord[a]}
<1>0. g \in Request /\ a \in Request /\ op[g].name = "GET" /\ op[a].name = "ADD"
  BY RequestAssumption DEF Request, Wellformed, NamesMatch, NameOf
<1>1. ASSUME NEW o \in Request, phase[o] # "new"
      PROVE  /\ Votes(o) \cup {coord[o]} \subseteq Node
             /\ Cardinality(Votes(o) \cup {coord[o]}) = Cardinality(Votes(o)) + 1
  <2>1. coord[o] \in Node /\ Votes(o) \subseteq Node
    BY <1>1 DEF Wellformed, TypeOK, Votes
  <2>2. coord[o] \notin Votes(o)
    BY <1>1, <2>1 DEF Ledger, CalleesPooled, Votes
  <2>. QED
    BY <2>1, <2>2, <1>1, VotesFinite, FS_AddElement
<1>. DEFINE R == Votes(g) \cup {coord[g]}
            W == Votes(a) \cup {coord[a]}
<1>2. R \subseteq Node /\ W \subseteq Node
  BY <1>0, <1>1
<1>3. Cardinality(R) = Minus1(ReadQuorum) + 1 /\ Cardinality(W) = Minus1(WriteQuorum) + 1
  BY <1>0, <1>1 DEF Needed
<1>4. Cardinality(R) >= ReadQuorum /\ Cardinality(W) >= WriteQuorum
  BY <1>3, QuorumAssumption DEF Minus1
<1>5. Cardinality(R) \in Nat /\ Cardinality(W) \in Nat /\ Cardinality(Node) \in Nat
  BY <1>3, QuorumAssumption, NodeAssumption, FS_CardinalityType DEF Minus1
<1>6. Cardinality(R) + Cardinality(W) > Cardinality(Node)
  <2>. HIDE DEF R, W
  <2>. QED
    BY <1>4, <1>5, QuorumAssumption DEF Intersecting
<1>7. R \cap W # {}
  <2>. HIDE DEF R, W
  <2>. QED
    BY <1>2, <1>6, NodeAssumption, FS_MajoritiesIntersect
<1>. QED
  BY <1>2, <1>7

\* The answer of a GET is at least as new as every ADD that a write quorum holds.
LEMMA FreshAnswer ==
    ASSUME Wellformed, Ledger, Calm, Timely, Intersecting, \A n \in Node : n \notin Pool[n],
           NEW g \in Gets, FinishGet(g), Succeeded(g)',
           NEW a \in after[g] \cap Adds, Succeeded(a), SameKey(g, a), ~RemovedLater(a)
    PROVE  reply'[g].timestamp # None /\ op[a].timestamp <= reply'[g].timestamp
<1>0. /\ TypeOK /\ g \in Request /\ a \in Request /\ phase[g] = "collect" /\ g \in Begun
      /\ op[g].key \in Key /\ op[a].key = op[g].key
  BY StampType DEF Wellformed, Request, FinishGet, LoopOver, Begun, SameKey
<1>1. phase[a] = "done" /\ a \in Begun /\ op[a].timestamp \in Nat
  BY <1>0, StampType DEF Timely, Ordered, AfterOver, Answered, Begun
<1>2. \A v, t : Answer(g, v, t) => reply'[g].status = Status(g) /\ reply'[g].timestamp = t
  BY <1>0 DEF Answer, TypeOK
<1>3. Cardinality(Votes(g)) = Needed(g)
  <2>1. reply'[g].status = "success"
    BY DEF Succeeded
  <2>2. \E v, t : Answer(g, v, t)
    BY DEF FinishGet
  <2>. QED
    BY <1>2, <2>1, <2>2 DEF Status
<1>4. Cardinality(Votes(a)) = Needed(a)
  BY <1>0 DEF Ledger, RepliesCounted, Succeeded
<1>5. PICK n \in Node : n \in Votes(g) \cup {coord[g]} /\ n \in Votes(a) \cup {coord[a]}
  BY <1>0, <1>1, <1>3, <1>4, QuorumsMeet
<1>6. PICK r \in Responders(g) : Site(g, r) = n /\ r \in Responder /\ call[g][r] \in Answers
  <2>1. Local \in Responder /\ call[g][Local] \in Answers
    BY <1>0 DEF Responder, Calm, OwnAnswers, Answers
  <2>. QED
    BY <1>5, <2>1, NodeAssumption DEF Responders, Votes, Site, Answers, Responder
<1>7. PICK q \in Responder : Site(a, q) = n /\ call[a][q] \in Answers
  <2>1. Local \in Responder /\ call[a][Local] \in Answers
    BY <1>0, <1>1 DEF Responder, Calm, OwnAnswers, Answers
  <2>. QED
    BY <1>5, <2>1, NodeAssumption DEF Votes, Site, Answers, Responder
<1>8. resp[g][r] = Get(store[n], op[g].key)
  BY <1>0, <1>6 DEF Calm, ReadsCurrent
<1>9. Live(store[n], op[g].key) /\ op[a].timestamp <= store[n][op[g].key].timestamp
  BY <1>0, <1>7 DEF Timely, AddsHeld, Holds
<1>10. resp[g][r].timestamp \in Nat /\ op[a].timestamp <= resp[g][r].timestamp
  <2>1. store[n] \in Store
    BY <1>0 DEF TypeOK
  <2>. QED
    BY <1>0, <1>8, <1>9, <2>1 DEF Get, Store, Entry, Live
<1>11. r \in Stamped(g)
  BY <1>6, <1>10, NoneAssumption DEF Stamped
<1>12. PICK f \in FirstFound(g) : Answer(g, resp[g][f].value, IF resp[g][f].value = None THEN None
                                                              ELSE resp[g][f].timestamp)
  BY <1>11 DEF FinishGet
<1>13. resp[g][f].value \in Value /\ resp[g][f].timestamp \in Nat
  BY <1>0, <1>12, FreshestAnswer
<1>14. reply'[g].timestamp = resp[g][f].timestamp
  BY <1>2, <1>12, <1>13, NoneAssumption
<1>15. resp[g][r].timestamp <= resp[g][f].timestamp
  BY <1>11 DEF FirstFound, Freshest
<1>. QED
  BY <1>1, <1>10, <1>13, <1>14, <1>15, NoneAssumption

LEMMA FreshnessNext ==
    ASSUME \A n \in Node : n \notin Pool[n], SyncedClocks,
           Wellformed, Wellformed', Ledger, Calm, Timely, QuorumReadFreshness,
           [PatientStep]_historyVars
    PROVE  QuorumReadFreshness'
<1>. SUFFICES ASSUME Intersecting, NEW g \in Gets, NEW a \in after'[g] \cap Adds,
                     Succeeded(g)', Succeeded(a)', SameKey(g, a)', ~RemovedLater(a)'
              PROVE  reply'[g].timestamp # None /\ op'[a].timestamp <= reply'[g].timestamp
  BY DEF QuorumReadFreshness, Intersecting
<1>0. TypeOK /\ g \in Request /\ a \in Request
  BY DEF Wellformed, Request
<1>1. OpsKept
  <2>1. [Next]_vars
    BY DEF PatientStep, RealTimeNext, historyVars
  <2>. QED
    BY <2>1, NextKeepsOps DEF Wellformed
<1>2. ASSUME a \in after[g], UNCHANGED <<op[g], op[a], reply[g], reply[a]>>, a \in Begun
      PROVE  reply'[g].timestamp # None /\ op'[a].timestamp <= reply'[g].timestamp
  <2>1. Succeeded(g) /\ Succeeded(a) /\ SameKey(g, a) /\ ~RemovedLater(a)
    BY <1>1, <1>2, RemovedLaterKept DEF Succeeded, SameKey
  <2>. QED
    BY <1>2, <2>1 DEF QuorumReadFreshness
<1>3. ASSUME UNCHANGED vars, \A p \in Request : after'[p] = after[p]
      PROVE  reply'[g].timestamp # None /\ op'[a].timestamp <= reply'[g].timestamp
  <2>1. a \in Begun
    BY <1>0, <1>3 DEF Succeeded, Wellformed, RepliesAreAnswers, Begun, vars
  <2>. QED
    BY <1>0, <1>2, <1>3, <2>1 DEF vars
<1>4. ASSUME NEW o \in Request, Starts(o), Others(o)
      PROVE  reply'[g].timestamp # None /\ op'[a].timestamp <= reply'[g].timestamp
  <2>1. phase[o] = "new" /\ UNCHANGED reply
    BY <1>0, <1>4, StartsApart, StartsNewest
  <2>2. phase[g] = "done" /\ phase[a] = "done"
    BY <1>0, <2>1 DEF Succeeded, Wellformed, RepliesAreAnswers
  <2>. QED
    BY <1>0, <1>2, <1>4, <2>1, <2>2 DEF Others, Alike, Begun
<1>5. ASSUME NEW o \in Request, Works(o), Others(o), ~Settled(o), after'[o] = after[o]
      PROVE  reply'[g].timestamp # None /\ op'[a].timestamp <= reply'[g].timestamp
  <2>1. /\ UNCHANGED <<op, coord>> /\ Begun' = Begun /\ after'[g] = after[g]
    BY <1>0, <1>5, WorksKeepsBegun
  <2>2. g \in Begun /\ a \in Begun
    BY <1>0, <2>1 DEF Succeeded, Wellformed, RepliesAreAnswers, Begun
  <2>3. a # o
    BY <1>5, <2>1, <2>2 DEF Timely, Ordered, AfterOver
  <2>4. reply'[a] = reply[a]
    BY <1>0, <1>5, <2>3 DEF Others, Alike
  <2>5. CASE reply'[g] = reply[g]
    BY <1>2, <2>1, <2>2, <2>4, <2>5
  <2>6. CASE reply'[g] # reply[g]
    <3>1. g = o
      BY <1>0, <1>5, <2>6 DEF Others, Alike
    <3>2. op[g].name = "GET"
      BY <1>0, <2>2, RequestAssumption DEF Wellformed, NamesMatch, NameOf, Begun
    <3>3. FinishGet(g)
      BY <1>5, <2>6, <3>1, <3>2
         DEF Works, FanOut, FinishAdd, FinishRemove, StoreAdd, StoreRemoveCheck,
             StoreRemoveUpdate, ApplyRepair, ReceiveWrite, ServeGet, LoseCall, JoinNext,
             ReceiveRepair, LoseRepair, requestVars
    <3>4. Succeeded(a) /\ SameKey(g, a) /\ ~RemovedLater(a)
      BY <1>1, <2>1, <2>2, <2>4, RemovedLaterKept DEF Succeeded, SameKey
    <3>. QED
      BY <2>1, <3>3, <3>4, FreshAnswer
  <2>. QED
    BY <2>5, <2>6
<1>. QED
  BY <1>3, <1>4, <1>5, PatientSteps DEF Calm

(***************************************************************************)
(* Quorum reads are fresh, if clients are patient, the clocks agree and no *)
(* node is in its own pool.                                                *)
(***************************************************************************)
THEOREM QuorumReadFreshnessHolds ==
    ASSUME SyncedClocks, \A n \in Node : n \notin Pool[n]
    PROVE  PatientSpec => []QuorumReadFreshness
<1>1. RealTimeInit => QuorumReadFreshness
  BY DEF RealTimeInit, QuorumReadFreshness, Request
<1>2. Wellformed /\ Wellformed' /\ Ledger /\ Calm /\ Timely /\ QuorumReadFreshness
      /\ [PatientStep]_historyVars => QuorumReadFreshness'
  BY FreshnessNext
<1>. QED
  BY <1>1, <1>2, TimelyAlways, PTL DEF PatientSpec, PatientStep

=============================================================================
