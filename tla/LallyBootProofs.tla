---------------------------- MODULE LallyBootProofs ----------------------------
(***************************************************************************)
(* Proofs of the safety properties of LallyBoot, for any keys and values,  *)
(* any requests, any backup, any stores the seed may export, any number of *)
(* starts and any reading of the records.                                  *)
(***************************************************************************)
EXTENDS LallyBoot, LallyReplayProofs

-----------------------------------------------------------------------------
(***************************************************************************)
(* The inductive invariant                                                 *)
(***************************************************************************)
Active(o) == task[o] \in {"ready", "checked"}

\* A write that is under way is known to the hook, or came before the hook.
Tasks ==
    \A o \in Request : Active(o) =>
        /\ op[o] \in Operation
        /\ op[o].name = IF o \in Adds THEN "ADD" ELSE "REMOVE"
        /\ op[o].key \in touched
        /\ o \in early \/ \E i \in 1..Len(log) : log[i] = op[o]
        /\ task[o] = "checked" => o \in Removes /\ cloned[o] \in Value

\* The requests that came early keep their operations.
EarlyBegun == \A o \in early : task[o] # "new"

\* What a stage of main has not done yet.
Staged ==
    /\ stage \in {"http", "ready"} => hooked
    /\ ~Serving => \A o \in Request : ~Active(o)
    /\ stage \in {"down", "config", "replay"} => store = EmptyStore
    /\ stage \in {"down", "config", "replay", "grpc", "join"} => offer = EmptyStore
    /\ stage = "import" => todo \subseteq Exported(offer)

\* The node has the newer of what replay restored and what the seed had.
Newest(k) ==
    /\ store[k] \in {replayed[k], offer[k]}
    /\ NotOlder(store[k], replayed[k])
    /\ NotOlder(store[k], offer[k])

\* How far the import of a key that nobody writes has come.
Imported ==
    /\ stage \in {"grpc", "join"} => \A k \in Key \ touched : store[k] = replayed[k]
    /\ stage = "import" => \A k \in Key \ touched : IF k \in todo THEN store[k] = replayed[k]
                                                                   ELSE Newest(k)
    /\ stage \in {"hook", "http", "ready"} => \A k \in Key \ touched : Newest(k)

Booted == /\ TypeOK
          /\ Tasks
          /\ EarlyBegun
          /\ Staged
          /\ Imported
          /\ UnloggedOnlyFromBoot
-----------------------------------------------------------------------------
(***************************************************************************)
(* The steps                                                               *)
(***************************************************************************)
NameOf(o) == IF o \in Adds THEN "ADD" ELSE "REMOVE"

\* Request o comes with an operation of its kind.
Comes(o) == \E operation \in Operation : operation.name = NameOf(o) /\ Invoke(o, operation)

LEMMA Steps ==
    ASSUME [Next]_vars
    PROVE  \/ \E cli \in Options : Start(cli)
           \/ InitializeLogFile \/ ReplayLog \/ RunGrpc
           \/ \E exported \in Offers : JoinAnswered(exported)
           \/ JoinFails
           \/ \E k \in Key : ImportKey(k)
           \/ ImportOver \/ RegisterHook \/ RunHttp
           \/ \E o \in Request : Comes(o)
           \/ \E o \in Request : StoreAdd(o) \/ StoreRemoveCheck(o) \/ StoreRemoveUpdate(o)
           \/ Save \/ End
           \/ UNCHANGED vars
<1>1. ASSUME NEW o \in Adds, NEW k \in Key, NEW v \in Value, NEW t \in 1..MaxStamp, BeginAdd(o, k, v, t)
      PROVE  Comes(o) /\ o \in Request
  <2>. DEFINE operation == [name |-> "ADD", key |-> k, value |-> v, timestamp |-> t]
  <2>1. operation \in Operation /\ operation.name = NameOf(o)
    BY BootAssumption DEF Operation, NameOf
  <2>. QED
    BY <1>1, <2>1 DEF BeginAdd, Comes, Request
<1>2. ASSUME NEW o \in Removes, NEW k \in Key, NEW t \in 1..MaxStamp, BeginRemove(o, k, t)
      PROVE  Comes(o) /\ o \in Request
  <2>. DEFINE operation == [name |-> "REMOVE", key |-> k, value |-> None, timestamp |-> t]
  <2>1. operation \in Operation /\ operation.name = NameOf(o)
    BY BootAssumption DEF Operation, NameOf
  <2>. QED
    BY <1>2, <2>1 DEF BeginRemove, Comes, Request
<1>3. Writes => \/ \E o \in Request : Comes(o)
                \/ \E o \in Request : StoreAdd(o) \/ StoreRemoveCheck(o) \/ StoreRemoveUpdate(o)
  BY <1>1, <1>2 DEF Writes
<1>. QED
  BY <1>3 DEF Next, Main

\* The file holds a log at every start, and main knows what to do with it.
LEMMA FileTypes ==
    ASSUME TypeOK, InitializeLogFile
    PROVE  /\ stage' \in {"down", "replay"}
           /\ log' \in Seq(Piece) /\ saved' \in 0..Len(log')
<1>1. Len(Backup) \in Nat /\ <<>> \in Seq(Piece) /\ Len(<<>>) = 0
  BY BootAssumption
<1>2. \A i \in 0..Len(Backup) : SubSeq(Backup, 1, i) \in Seq(Piece)
  BY <1>1, BootAssumption, SubSeqProperties
<1>3. \A pieces \in Seq(Piece) : Len(pieces) \in 0..Len(pieces)
  OBVIOUS
<1>4. \/ log' \in Seq(Piece) /\ saved' = Len(log')
      \/ UNCHANGED logVars
  BY <1>1, <1>2, BootAssumption
     DEF InitializeLogFile, Refuse, Wipe, CopyBackup, CopyOntoItself, CopyFails, KeepFile, FileIs
<1>5. stage' \in {"down", "replay"}
  BY DEF InitializeLogFile, Refuse, Wipe, CopyBackup, CopyOntoItself, CopyFails, KeepFile
<1>. QED
  BY <1>3, <1>4, <1>5 DEF TypeOK, logVars

\* The record and its newline come behind what is in the log.
LEMMA LogGrows ==
    ASSUME TypeOK, NEW o, NEW operation \in Operation, Invoke(o, operation)
    PROVE  /\ log' \in Seq(Piece) /\ Len(log) \in 0..Len(log')
           /\ \A i \in 1..Len(log) : i \in 1..Len(log') /\ log'[i] = log[i]
           /\ hooked => \E i \in 1..Len(log') : log'[i] = operation
<1>. DEFINE more == <<operation, NewLine>>
<1>1. log \in Seq(Piece) /\ Len(log) \in Nat
  BY DEF TypeOK
<1>2. more \in Seq(Piece) /\ Len(more) = 2 /\ more[1] = operation
  BY DEF Piece
<1>. HIDE DEF more
<1>3. /\ log \o more \in Seq(Piece) /\ Len(log \o more) = Len(log) + 2
      /\ \A i \in 1..Len(log) : (log \o more)[i] = log[i]
      /\ (log \o more)[Len(log) + 1] = more[1]
  BY <1>1, <1>2, ConcatProperties
<1>4. log' = IF hooked THEN log \o more ELSE log
  BY DEF Invoke, more
<1>5. CASE hooked
  BY <1>1, <1>2, <1>3, <1>4, <1>5
<1>6. CASE ~hooked
  BY <1>1, <1>4, <1>6
<1>. QED
  BY <1>5, <1>6

LEMMA StoreTypes ==
    ASSUME TypeOK, Tasks, Staged
    PROVE  /\ \A o \in Request : StoreAdd(o) => store' \in Store
           /\ \A o \in Request : StoreRemoveUpdate(o) => store' \in Store
           /\ \A k \in Key : ImportKey(k) => store' \in Store
<1>. USE DEF TypeOK
<1>1. ASSUME NEW o \in Request, StoreAdd(o) PROVE store' \in Store
  <2>1. op[o] \in Operation /\ op[o].name = "ADD"
    BY <1>1 DEF StoreAdd, Tasks, Active
  <2>. QED
    BY <1>1, <2>1 DEF StoreAdd, Add, Store, Entry, Operation
<1>2. ASSUME NEW o \in Request, StoreRemoveUpdate(o) PROVE store' \in Store
  <2>1. op[o] \in Operation /\ cloned[o] \in Value
    BY <1>2 DEF StoreRemoveUpdate, Tasks, Active
  <2>. QED
    BY <1>2, <2>1 DEF StoreRemoveUpdate, Bury, Store, Entry, Operation
<1>3. ASSUME NEW k \in Key, ImportKey(k) PROVE store' \in Store
  <2>1. offer[k] \in Entry
    BY <1>3 DEF ImportKey, Staged, Exported, Store
  <2>. QED
    BY <1>3, <2>1 DEF ImportKey, Import, Store
<1>. QED
  BY <1>1, <1>2, <1>3

LEMMA TypeNext ==
    ASSUME TypeOK, Tasks, Staged, [Next]_vars
    PROVE  TypeOK'
<1>. USE BootAssumption DEF TypeOK, Stage, configVars, logVars, taskVars, historyVars
<1>1. ASSUME NEW cli \in Options, Start(cli) PROVE TypeOK'
  <2>1. Merged(yml, cli) \in Options
    BY DEF Merged, Options
  <2>2. starts' \in 0..MaxStarts
    BY <1>1 DEF Start
  <2>. QED
    BY <1>1, <2>1, <2>2 DEF Start
<1>2. ASSUME InitializeLogFile PROVE TypeOK'
  <2>1. /\ stage' \in {"down", "replay"}
        /\ log' \in Seq(Piece) /\ saved' \in 0..Len(log')
    BY <1>2, FileTypes
  <2>. QED
    BY <1>2, <2>1 DEF InitializeLogFile
<1>3. ASSUME ReplayLog PROVE TypeOK'
  <2>1. Replay(log) \in Store
    BY ReplayType
  <2>. QED
    BY <1>3, <2>1 DEF ReplayLog
<1>4. CASE RunGrpc \/ JoinFails \/ ImportOver \/ RunHttp
  <2>1. stage' \in Stage
    BY <1>4 DEF RunGrpc, JoinFails, ImportOver, RunHttp
  <2>. QED
    BY <1>4, <2>1 DEF RunGrpc, JoinFails, ImportOver, RunHttp
<1>5. ASSUME RegisterHook PROVE TypeOK'
  <2>1. hooked' \in BOOLEAN
    BY <1>5 DEF RegisterHook
  <2>. QED
    BY <1>5, <2>1 DEF RegisterHook
<1>6. ASSUME NEW exported \in Offers, JoinAnswered(exported) PROVE TypeOK'
  BY <1>6 DEF JoinAnswered, Exported
<1>7. ASSUME NEW k \in Key, ImportKey(k) PROVE TypeOK'
  BY <1>7, StoreTypes DEF ImportKey
<1>8. ASSUME NEW o \in Request, Comes(o) PROVE TypeOK'
  <2>1. PICK operation \in Operation : Invoke(o, operation)
    BY <1>8 DEF Comes
  <2>2. operation.key \in Key
    BY DEF Operation
  <2>3. log' \in Seq(Piece) /\ Len(log) \in 0..Len(log') /\ saved' = saved
    BY <2>1, LogGrows DEF Invoke
  <2>4. saved' \in 0..Len(log')
    BY <2>3
  <2>. QED
    BY <2>1, <2>2, <2>3, <2>4 DEF Invoke
<1>9. ASSUME NEW o \in Request, StoreAdd(o) PROVE TypeOK'
  BY <1>9, StoreTypes DEF StoreAdd
<1>10. ASSUME NEW o \in Request, StoreRemoveUpdate(o) PROVE TypeOK'
  BY <1>10, StoreTypes DEF StoreRemoveUpdate
<1>11. ASSUME NEW o \in Request, StoreRemoveCheck(o) PROVE TypeOK'
  <2>1. cloned' \in [Request -> Value \cup {None}]
    <3>1. CASE Live(store, op[o].key) /\ cloned' = [cloned EXCEPT ![o] = store[op[o].key].value]
      <4>1. op[o].key \in Key
        BY <1>11 DEF StoreRemoveCheck, Tasks, Active, Operation
      <4>2. store[op[o].key].value \in Value
        BY <3>1, <4>1 DEF Live, Store, Entry
      <4>. QED
        BY <3>1, <4>2
    <3>2. CASE UNCHANGED cloned
      BY <3>2
    <3>. QED
      BY <1>11, <3>1, <3>2 DEF StoreRemoveCheck
  <2>. QED
    BY <1>11, <2>1 DEF StoreRemoveCheck
<1>12. ASSUME Save PROVE TypeOK'
  <2>1. saved' \in 0..Len(log')
    BY <1>12 DEF Save
  <2>. QED
    BY <1>12, <2>1 DEF Save
<1>13. ASSUME End PROVE TypeOK'
  <2>1. log' \in Seq(Piece) /\ Len(log') = saved
    BY <1>13, SubSeqProperties DEF End
  <2>2. saved' \in 0..Len(log')
    BY <1>13, <2>1 DEF End
  <2>3. EmptyStore \in Store
    BY DEF EmptyStore, Store
  <2>4. hooked' \in BOOLEAN
    BY <1>13 DEF End
  <2>. QED
    BY <1>13, <2>1, <2>2, <2>3, <2>4 DEF End
<1>14. CASE UNCHANGED vars
  BY <1>14 DEF vars
<1>. HIDE DEF TypeOK
<1>. QED
  BY <1>1, <1>2, <1>3, <1>4, <1>5, <1>6, <1>7, <1>8, <1>9, <1>10, <1>11, <1>12, <1>13, <1>14, Steps

LEMMA TasksNext ==
    ASSUME TypeOK, Tasks, EarlyBegun, Staged, [Next]_vars
    PROVE  Tasks' /\ EarlyBegun'
<1>. USE DEF Tasks, EarlyBegun, Active, configVars, logVars, taskVars, historyVars
<1>1. ASSUME UNCHANGED <<log, taskVars, early, touched>> PROVE Tasks' /\ EarlyBegun'
  BY <1>1
<1>2. ASSUME InitializeLogFile PROVE Tasks' /\ EarlyBegun'
  <2>1. \A o \in Request : ~Active(o)
    BY <1>2 DEF InitializeLogFile, Staged, Serving
  <2>. QED
    BY <1>2, <2>1 DEF InitializeLogFile
<1>3. ASSUME NEW o \in Request, Comes(o) PROVE Tasks' /\ EarlyBegun'
  <2>. USE DEF TypeOK
  <2>1. PICK operation \in Operation : operation.name = NameOf(o) /\ Invoke(o, operation)
    BY <1>3 DEF Comes
  <2>2. \A i \in 1..Len(log) : i \in 1..Len(log') /\ log'[i] = log[i]
    BY <2>1, LogGrows
  <2>3. o \in early' \/ \E i \in 1..Len(log') : log'[i] = operation
    <3>1. CASE hooked
      BY <2>1, <3>1, LogGrows
    <3>2. CASE ~hooked
      BY <2>1, <3>2 DEF Invoke, Staged, Serving
    <3>. QED
      BY <3>1, <3>2
  <2>4. ASSUME NEW p \in Request, Active(p)'
        PROVE  /\ op'[p] \in Operation
               /\ op'[p].name = IF p \in Adds THEN "ADD" ELSE "REMOVE"
               /\ op'[p].key \in touched'
               /\ p \in early' \/ \E i \in 1..Len(log') : log'[i] = op'[p]
               /\ task'[p] = "checked" => p \in Removes /\ cloned'[p] \in Value
    <3>1. CASE p = o
      BY <2>1, <2>3, <3>1 DEF Invoke, NameOf
    <3>2. CASE p # o
      <4>1. /\ op'[p] = op[p] /\ task'[p] = task[p] /\ cloned' = cloned
            /\ touched \subseteq touched' /\ early \subseteq early'
        BY <2>1, <3>2 DEF Invoke
      <4>. QED
        BY <2>2, <2>4, <4>1
    <3>. QED
      BY <3>1, <3>2
  <2>5. EarlyBegun'
    BY <2>1 DEF Invoke
  <2>. QED
    BY <2>4, <2>5
<1>4. ASSUME NEW o \in Request, StoreAdd(o) PROVE Tasks' /\ EarlyBegun'
  BY <1>4 DEF StoreAdd, TypeOK
<1>5. ASSUME NEW o \in Request, StoreRemoveUpdate(o) PROVE Tasks' /\ EarlyBegun'
  BY <1>5 DEF StoreRemoveUpdate, TypeOK
<1>6. ASSUME NEW o \in Request, StoreRemoveCheck(o) PROVE Tasks' /\ EarlyBegun'
  <2>1. op[o].key \in Key
    BY <1>6 DEF StoreRemoveCheck, Operation
  <2>2. Live(store, op[o].key) => store[op[o].key].value \in Value
    BY <2>1 DEF Live, Store, Entry, TypeOK
  <2>. QED
    BY <1>6, <2>2 DEF StoreRemoveCheck, TypeOK
<1>7. ASSUME End PROVE Tasks' /\ EarlyBegun'
  BY <1>7 DEF End
<1>. HIDE DEF Tasks, EarlyBegun, Active
<1>8. \/ UNCHANGED <<log, taskVars, early, touched>>
      \/ InitializeLogFile \/ End
      \/ \E o \in Request : Comes(o)
      \/ \E o \in Request : StoreAdd(o) \/ StoreRemoveCheck(o) \/ StoreRemoveUpdate(o)
  BY Steps DEF Start, ReplayLog, RunGrpc, JoinAnswered, JoinFails, ImportKey, ImportOver,
               RegisterHook, RunHttp, Save, vars
<1>. QED
  BY <1>1, <1>2, <1>3, <1>4, <1>5, <1>6, <1>7, <1>8

LEMMA StagedNext ==
    ASSUME TypeOK, Staged, [Next]_vars
    PROVE  Staged'
<1>. USE DEF Staged, Serving, Active, configVars, logVars, taskVars, historyVars
<1>1. ASSUME NEW cli \in Options, Start(cli) PROVE Staged'
  BY <1>1 DEF Start
<1>2. ASSUME InitializeLogFile PROVE Staged'
  BY <1>2, FileTypes DEF InitializeLogFile
<1>3. CASE ReplayLog
  BY <1>3 DEF ReplayLog
<1>4. CASE RunGrpc \/ JoinFails
  BY <1>4 DEF RunGrpc, JoinFails
<1>5. CASE ImportOver \/ RegisterHook \/ RunHttp
  BY <1>5 DEF ImportOver, RegisterHook, RunHttp
<1>6. ASSUME NEW exported \in Offers, JoinAnswered(exported) PROVE Staged'
  BY <1>6 DEF JoinAnswered
<1>7. ASSUME NEW k \in Key, ImportKey(k) PROVE Staged'
  BY <1>7 DEF ImportKey
<1>8. ASSUME NEW o \in Request, Comes(o) PROVE Staged'
  BY <1>8 DEF Comes, Invoke
<1>9. ASSUME NEW o \in Request, StoreAdd(o) \/ StoreRemoveCheck(o) \/ StoreRemoveUpdate(o)
      PROVE  Staged'
  <2>1. Serving
    BY <1>9 DEF StoreAdd, StoreRemoveCheck, StoreRemoveUpdate
  <2>2. UNCHANGED <<stage, hooked, offer, todo>>
    BY <1>9 DEF StoreAdd, StoreRemoveCheck, StoreRemoveUpdate
  <2>. QED
    BY <2>1, <2>2
<1>10. CASE Save
  BY <1>10 DEF Save
<1>11. CASE End
  BY <1>11 DEF End
<1>12. CASE UNCHANGED vars
  BY <1>12 DEF vars
<1>. QED
  BY <1>1, <1>2, <1>3, <1>4, <1>5, <1>6, <1>7, <1>8, <1>9, <1>10, <1>11, <1>12, Steps

(***************************************************************************)
(* The import                                                              *)
(***************************************************************************)
LEMMA ImportedNext ==
    ASSUME TypeOK, Tasks, Staged, Imported, [Next]_vars
    PROVE  Imported'
<1>. USE DEF Imported, Newest, NotOlder, configVars, logVars, taskVars, historyVars
<1>1. ASSUME stage' \in {"down", "config", "replay"} PROVE Imported'
  BY <1>1
<1>2. ASSUME UNCHANGED <<stage, store, todo, replayed, offer>>, touched \subseteq touched' PROVE Imported'
  BY <1>2
<1>3. CASE ReplayLog
  BY <1>3 DEF ReplayLog
<1>4. ASSUME \A k \in Key \ touched : store[k] = replayed[k] /\ offer[k] = None,
             UNCHANGED <<store, touched, replayed, offer>>,
             stage' \in {"join", "hook"}
      PROVE  Imported'
  <2>1. \A k \in Key : replayed[k] = None \/ replayed[k].timestamp \in Nat
    BY DEF TypeOK, Store, Entry
  <2>. QED
    BY <1>4, <2>1
<1>5. CASE RunGrpc \/ JoinFails
  <2>1. offer = EmptyStore /\ UNCHANGED <<store, touched, replayed, offer>>
    BY <1>5 DEF RunGrpc, JoinFails, Staged
  <2>2. stage' \in {"join", "hook"} /\ \A k \in Key \ touched : store[k] = replayed[k]
    BY <1>5 DEF RunGrpc, JoinFails
  <2>. QED
    BY <1>4, <2>1, <2>2 DEF EmptyStore
<1>6. ASSUME NEW exported \in Offers, JoinAnswered(exported) PROVE Imported'
  <2>1. \A k \in Key : replayed[k] = None \/ replayed[k].timestamp \in Nat
    BY DEF TypeOK, Store, Entry
  <2>2. /\ stage' = "import" /\ stage = "join" /\ UNCHANGED <<store, touched, replayed>>
        /\ \A k \in Key \ todo' : offer'[k] = None
    BY <1>6 DEF JoinAnswered, Exported
  <2>. QED
    BY <2>1, <2>2
<1>7. ASSUME NEW l \in Key, ImportKey(l) PROVE Imported'
  <2>1. /\ stage = "import" /\ stage' = "import" /\ l \in todo /\ todo' = todo \ {l}
        /\ UNCHANGED <<touched, replayed, offer>>
        /\ store' = Import(store, l, offer[l])
    BY <1>7 DEF ImportKey
  <2>2. \A k \in Key \ {l} : store'[k] = store[k]
    BY <2>1 DEF Import, TypeOK, Store
  <2>3. offer[l] \in Entry
    BY <2>1 DEF Staged, Exported, TypeOK, Store
  <2>4. store[l] = None \/ store[l].timestamp \in Nat
    BY DEF TypeOK, Store, Entry
  <2>5. \/ store'[l] = store[l] /\ store[l] # None /\ store[l].timestamp >= offer[l].timestamp
        \/ /\ store'[l] = offer[l]
           /\ store[l] = None \/ ~(store[l].timestamp >= offer[l].timestamp)
    BY <2>1 DEF Import, TypeOK, Store
  <2>6. offer[l].timestamp \in Nat /\ offer[l] # None
    BY <2>3, NoneAssumption DEF Entry
  <2>7. store[l] = replayed[l] => Newest(l)'
    <3>1. CASE store'[l] = store[l] /\ store[l] # None /\ store[l].timestamp >= offer[l].timestamp
      BY <2>1, <2>4, <3>1
    <3>2. CASE /\ store'[l] = offer[l]
               /\ store[l] = None \/ ~(store[l].timestamp >= offer[l].timestamp)
      BY <2>1, <2>4, <2>6, <3>2
    <3>. QED
      BY <2>5, <3>1, <3>2
  <2>8. \A k \in Key \ touched : IF k \in todo' THEN store'[k] = replayed'[k] ELSE Newest(k)'
    <3>. SUFFICES ASSUME NEW k \in Key \ touched
                  PROVE  IF k \in todo' THEN store'[k] = replayed'[k] ELSE Newest(k)'
      OBVIOUS
    <3>1. CASE k = l
      BY <2>1, <2>7, <3>1
    <3>2. CASE k # l
      BY <2>1, <2>2, <3>2
    <3>. QED
      BY <3>1, <3>2
  <2>. QED
    BY <2>1, <2>8
<1>8. CASE ImportOver
  BY <1>8 DEF ImportOver
<1>9. CASE RegisterHook \/ RunHttp
  <2>1. /\ stage \in {"hook", "http", "ready"} /\ stage' \in {"hook", "http", "ready"}
        /\ UNCHANGED <<store, touched, replayed, offer>>
    BY <1>9 DEF RegisterHook, RunHttp
  <2>. QED
    BY <2>1
<1>10. ASSUME NEW o \in Request, StoreAdd(o) \/ StoreRemoveUpdate(o) PROVE Imported'
  <2>1. op[o].key \in touched /\ UNCHANGED <<stage, todo, replayed, offer, touched>>
    BY <1>10 DEF StoreAdd, StoreRemoveUpdate, Tasks, Active
  <2>2. \A k \in Key \ touched : store'[k] = store[k]
    BY <1>10, <2>1 DEF StoreAdd, StoreRemoveUpdate, Add, Bury, TypeOK, Store
  <2>. QED
    BY <2>1, <2>2
<1>. HIDE DEF Imported
<1>11. \/ stage' \in {"down", "config", "replay"}
       \/ UNCHANGED <<stage, store, todo, replayed, offer>> /\ touched \subseteq touched'
       \/ ReplayLog \/ RunGrpc \/ JoinFails \/ ImportOver \/ RegisterHook \/ RunHttp
       \/ \E exported \in Offers : JoinAnswered(exported)
       \/ \E l \in Key : ImportKey(l)
       \/ \E o \in Request : StoreAdd(o) \/ StoreRemoveUpdate(o)
  BY Steps, FileTypes DEF Start, Comes, Invoke, StoreRemoveCheck, Save, End, vars
<1>. QED
  BY <1>1, <1>2, <1>3, <1>5, <1>6, <1>7, <1>8, <1>9, <1>10, <1>11

(***************************************************************************)
(* What is not in the log                                                  *)
(***************************************************************************)
\* Where the entry of a key may come from.
Accounted(k) == store[k] # None => InLog(k, store[k]) \/ store[k] = offer[k]
                                                      \/ WrittenEarly(k, store[k])

\* The record of a request that is in the log accounts for the entry it makes.
LEMMA RecordAccounts ==
    ASSUME NEW k, NEW e, NEW operation \in Operation, Makes(operation, k, e),
           \E i \in 1..Len(log) : log[i] = operation
    PROVE  InLog(k, e)
BY ReplayAssumption DEF InLog

\* What accounts for an entry stays in the log.
LEMMA StaysInLog ==
    ASSUME TypeOK, NEW k, NEW e, InLog(k, e), Len(log) \in 0..Len(log'),
           \A i \in 1..Len(log) : log'[i] = log[i]
    PROVE  InLog(k, e)'
<1>. DEFINE n == Len(log)
<1>1. n \in Nat /\ 1..n \subseteq 1..Len(log')
  BY DEF TypeOK
<1>2. \A i \in 1..n : \A j \in 1..i : LineFrom(j, i) => LineFrom(j, i)'
  <2>1. \A i \in 1..n : \A j \in 1..i : (j # 1 => j - 1 \in 1..n) /\ \A m \in j..i : m \in 1..n
    BY <1>1
  <2>. QED
    BY <2>1 DEF LineFrom
<1>3. \A i \in 1..n : \A j \in 1..i : j \in 1..n
  BY <1>1
<1>. HIDE DEF n
<1>4. PICK i \in 1..n :
         /\ log[i] # NewLine
         /\ \/ Makes(log[i], k, e)
            \/ \E j \in 1..i :
                  LET said == Parse(Glue(log[j], log[i]))
                  IN  LineFrom(j, i) /\ said # None /\ Makes(said, k, e)
  BY DEF InLog, n
<1>5. i \in 1..Len(log') /\ log'[i] = log[i]
  BY <1>1 DEF n
<1>6. CASE Makes(log[i], k, e)
  BY <1>4, <1>5, <1>6 DEF InLog
<1>7. ASSUME NEW j \in 1..i, LineFrom(j, i), Parse(Glue(log[j], log[i])) # None,
             Makes(Parse(Glue(log[j], log[i])), k, e)
      PROVE  InLog(k, e)'
  <2>1. log'[j] = log[j] /\ LineFrom(j, i)'
    BY <1>2, <1>3, <1>7 DEF n
  <2>. QED
    BY <1>4, <1>5, <1>7, <2>1 DEF InLog
<1>. QED
  BY <1>4, <1>6, <1>7

\* So does what replay makes of a line.
LEMMA LineAccounts ==
    ASSUME TypeOK, NEW k \in Key, Replay(log)[k] # None
    PROVE  InLog(k, Replay(log)[k])
<1>. DEFINE e == Replay(log)[k]
<1>1. MadeBy(log, k, e)
  BY ReplaySourced DEF TypeOK
<1>. HIDE DEF e
<1>2. PICK i \in 1..Len(log) : \E j \in 1..i :
         LET said == Parse(Glue(log[j], log[i]))
         IN  /\ LineOf(log, j, i)
             /\ said # None /\ said.name = "ADD" /\ said.key = k
             /\ e = MadeOf(said)
  BY <1>1 DEF MadeBy
<1>3. PICK j \in 1..i :
         LET said == Parse(Glue(log[j], log[i]))
         IN  /\ LineOf(log, j, i)
             /\ said # None /\ said.name = "ADD" /\ said.key = k
             /\ e = MadeOf(said)
  BY <1>2
<1>. DEFINE said == Parse(Glue(log[j], log[i]))
<1>4. Makes(said, k, e)
  BY <1>3 DEF Makes, MadeOf
<1>5. LineFrom(j, i)
  BY <1>3 DEF LineOf, LineFrom
<1>6. i \in j..i
  OBVIOUS
<1>7. log[i] # NewLine
  BY <1>5, <1>6 DEF LineFrom
<1>8. InLog(k, e)
  BY <1>3, <1>4, <1>5, <1>7 DEF InLog
<1>. QED
  BY <1>8 DEF e

LEMMA UnloggedNext ==
    ASSUME TypeOK, Tasks, EarlyBegun, Staged, UnloggedOnlyFromBoot, [Next]_vars
    PROVE  UnloggedOnlyFromBoot'
<1>. USE DEF configVars, logVars, taskVars, historyVars
<1>. SUFFICES ASSUME NEW k \in Key PROVE Accounted(k)'
  BY DEF UnloggedOnlyFromBoot, Accounted
<1>0. Accounted(k)
  BY DEF UnloggedOnlyFromBoot, Accounted
<1>1. ASSUME store' = EmptyStore PROVE Accounted(k)'
  BY <1>1 DEF EmptyStore, Accounted
<1>2. ASSUME store'[k] = store[k], UNCHANGED <<log, op, early, offer>> PROVE Accounted(k)'
  BY <1>0, <1>2 DEF Accounted, InLog, LineFrom, WrittenEarly
<1>3. ASSUME InitializeLogFile PROVE Accounted(k)'
  BY <1>1, <1>3 DEF InitializeLogFile, Staged
<1>4. ASSUME NEW cli \in Options, Start(cli) PROVE Accounted(k)'
  BY <1>1, <1>4 DEF Start, Staged
<1>5. ASSUME ReplayLog PROVE Accounted(k)'
  <2>1. store' = Replay(log) /\ log' = log
    BY <1>5 DEF ReplayLog
  <2>2. Replay(log)[k] # None => InLog(k, Replay(log)[k])
    BY LineAccounts
  <2>3. ASSUME store'[k] # None PROVE InLog(k, store[k])'
    BY <2>1, <2>2, <2>3 DEF InLog, LineFrom
  <2>. QED
    BY <2>3 DEF Accounted
<1>6. ASSUME NEW exported \in Offers, JoinAnswered(exported) PROVE Accounted(k)'
  <2>1. offer[k] = None /\ UNCHANGED <<store, log, op, early>>
    BY <1>6 DEF JoinAnswered, Staged, EmptyStore
  <2>. QED
    BY <1>0, <2>1 DEF Accounted, InLog, LineFrom, WrittenEarly
<1>7. ASSUME NEW l \in Key, ImportKey(l) PROVE Accounted(k)'
  <2>1. store'[k] \in {store[k], offer[k]} /\ UNCHANGED <<log, op, early, offer>>
    BY <1>7 DEF ImportKey, Import, TypeOK, Store
  <2>. QED
    BY <1>2, <2>1 DEF Accounted
<1>8. ASSUME NEW o \in Request, Comes(o) PROVE Accounted(k)'
  <2>1. PICK operation \in Operation : Invoke(o, operation)
    BY <1>8 DEF Comes
  <2>2. InLog(k, store[k]) => InLog(k, store[k])'
    <3>1. store' = store
      BY <2>1 DEF Invoke
    <3>2. \A e : InLog(k, e) => InLog(k, e)'
      BY <2>1, LogGrows, StaysInLog
    <3>. QED
      BY <3>1, <3>2 DEF InLog, LineFrom
  <2>3. \A p \in early : p \in early' /\ op'[p] = op[p]
    BY <2>1 DEF Invoke, TypeOK, EarlyBegun
  <2>4. UNCHANGED <<store, offer>>
    BY <2>1 DEF Invoke
  <2>. QED
    BY <1>0, <2>2, <2>3, <2>4 DEF Accounted, WrittenEarly
<1>9. ASSUME NEW o \in Request, StoreAdd(o) PROVE Accounted(k)'
  <2>1. /\ op[o] \in Operation /\ op[o].name = "ADD" /\ UNCHANGED <<log, op, early, offer>>
        /\ o \in early \/ \E i \in 1..Len(log) : log[i] = op[o]
    BY <1>9 DEF StoreAdd, Tasks, Active
  <2>2. CASE op[o].key # k
    BY <1>2, <1>9, <2>1, <2>2 DEF StoreAdd, Add, TypeOK, Store
  <2>3. CASE op[o].key = k
    <3>1. /\ store'[k].value = op[o].value /\ store'[k].timestamp = op[o].timestamp
          /\ store'[k].valid
      BY <1>9, <2>3 DEF StoreAdd, Add, TypeOK, Store
    <3>2. Makes(op[o], k, store'[k])
      BY <2>1, <2>3, <3>1 DEF Makes
    <3>3. InLog(k, store'[k]) \/ WrittenEarly(k, store'[k])
      BY <2>1, <2>3, <3>1, <3>2, RecordAccounts DEF WrittenEarly
    <3>. QED
      BY <2>1, <3>3 DEF Accounted, InLog, LineFrom, WrittenEarly
  <2>. QED
    BY <2>2, <2>3
<1>10. ASSUME NEW o \in Request, StoreRemoveUpdate(o) PROVE Accounted(k)'
  <2>1. /\ op[o] \in Operation /\ UNCHANGED <<log, op, early, offer>>
        /\ o \in Removes /\ op[o].name = IF o \in Adds THEN "ADD" ELSE "REMOVE"
        /\ o \in early \/ \E i \in 1..Len(log) : log[i] = op[o]
    BY <1>10 DEF StoreRemoveUpdate, Tasks, Active
  <2>2. op[o].name = "REMOVE"
    BY <2>1, BootAssumption
  <2>3. CASE op[o].key # k
    BY <1>2, <1>10, <2>1, <2>3 DEF StoreRemoveUpdate, Bury, TypeOK, Store
  <2>4. CASE op[o].key = k
    <3>1. store'[k].timestamp = op[o].timestamp /\ ~store'[k].valid
      BY <1>10, <2>4 DEF StoreRemoveUpdate, Bury, TypeOK, Store
    <3>2. Makes(op[o], k, store'[k])
      BY <2>2, <2>4, <3>1 DEF Makes
    <3>3. InLog(k, store'[k]) \/ WrittenEarly(k, store'[k])
      BY <2>1, <2>4, <3>1, <3>2, RecordAccounts DEF WrittenEarly
    <3>. QED
      BY <2>1, <3>3 DEF Accounted, InLog, LineFrom, WrittenEarly
  <2>. QED
    BY <2>3, <2>4
<1>11. \/ store' = EmptyStore
       \/ UNCHANGED <<store, log, op, early, offer>>
       \/ \E cli \in Options : Start(cli)
       \/ InitializeLogFile \/ ReplayLog
       \/ \E exported \in Offers : JoinAnswered(exported)
       \/ \E l \in Key : ImportKey(l)
       \/ \E o \in Request : Comes(o) \/ StoreAdd(o) \/ StoreRemoveUpdate(o)
  BY Steps DEF RunGrpc, JoinFails, ImportOver, RegisterHook, RunHttp, StoreRemoveCheck, Save, End, vars
<1>. QED
  BY <1>1, <1>2, <1>3, <1>4, <1>5, <1>6, <1>7, <1>8, <1>9, <1>10, <1>11

-----------------------------------------------------------------------------
(***************************************************************************)
(* The theorems                                                            *)
(***************************************************************************)
LEMMA BootedInit == Init => Booted
<1>. SUFFICES ASSUME Init PROVE Booted
  OBVIOUS
<1>1. /\ <<>> \in Seq(Piece) /\ Len(<<>>) = 0
      /\ EmptyStore \in Store /\ \A k \in Key : EmptyStore[k] = None
  BY DEF EmptyStore, Store
<1>2. TypeOK
  <2>1. hooked \in BOOLEAN
    BY DEF Init
  <2>2. saved \in 0..Len(log)
    BY <1>1 DEF Init
  <2>3. starts \in 0..MaxStarts
    BY BootAssumption DEF Init
  <2>. QED
    BY <1>1, <2>1, <2>2, <2>3 DEF Init, TypeOK, Stage
<1>3. Tasks /\ EarlyBegun
  BY DEF Init, Tasks, EarlyBegun, Active
<1>4. Staged
  BY DEF Init, Staged, Active
<1>5. Imported
  BY DEF Init, Imported
<1>6. UnloggedOnlyFromBoot
  BY <1>1 DEF Init, UnloggedOnlyFromBoot
<1>. QED
  BY <1>2, <1>3, <1>4, <1>5, <1>6 DEF Booted

\* The inductive invariant holds in every run.
THEOREM BootedAlways == Spec => []Booted
<1>1. Booted /\ [Next]_vars => Booted'
  BY TypeNext, TasksNext, StagedNext, ImportedNext, UnloggedNext DEF Booted
<1>. QED
  BY <1>1, BootedInit, PTL DEF Spec

\* Every variable keeps its type, whatever the log, the backup and the seed hold.
THEOREM TypeCorrect == Spec => []TypeOK
<1>1. Booted => TypeOK
  BY DEF Booted
<1>. QED
  BY <1>1, BootedAlways, PTL

(***************************************************************************)
(* Everything in the store is in the log, as a record or as what a line    *)
(* of it says, but what the seed sent and what other nodes wrote before    *)
(* the log hook was registered: for any number of starts.                  *)
(***************************************************************************)
THEOREM UnloggedOnlyFromBootHolds == Spec => []UnloggedOnlyFromBoot
<1>1. Booted => UnloggedOnlyFromBoot
  BY DEF Booted
<1>. QED
  BY <1>1, BootedAlways, PTL

(***************************************************************************)
(* After the join, a key nobody wrote meanwhile has the newer of what      *)
(* replay restored and what the seed had.                                  *)
(***************************************************************************)
THEOREM JoinTakesNewestHolds == Spec => []JoinTakesNewest
<1>1. Booted => JoinTakesNewest
  BY DEF Booted, Imported, Newest, JoinTakesNewest
<1>. QED
  BY <1>1, BootedAlways, PTL

\* What is saved is the beginning of a longer log.
LEMMA SavedIsPrefix ==
    ASSUME TypeOK
    PROVE  /\ IsPrefix(SubSeq(log, 1, saved), log)
           /\ IsPrefix(SubSeq(log, 1, saved), SubSeq(log, 1, saved))
           /\ \A more \in Seq(Piece) : IsPrefix(SubSeq(log, 1, saved), log \o more)
<1>. DEFINE s == SubSeq(log, 1, saved)
<1>1. log \in Seq(Piece) /\ saved \in 0..Len(log) /\ Len(log) \in Nat
  BY DEF TypeOK
<1>2. s \in Seq(Piece) /\ Len(s) = saved /\ \A i \in 1..saved : s[i] = log[i]
  BY <1>1, SubSeqProperties
<1>3. SubSeq(s, 1, saved) = s
  BY <1>1, <1>2
<1>4. ASSUME NEW more \in Seq(Piece)
      PROVE  SubSeq(log \o more, 1, saved) = s /\ saved <= Len(log \o more)
  BY <1>1
<1>. HIDE DEF s
<1>5. IsPrefix(s, log) /\ IsPrefix(s, s)
  BY <1>1, <1>2, <1>3 DEF IsPrefix, s
<1>6. \A more \in Seq(Piece) : IsPrefix(s, log \o more)
  BY <1>2, <1>4 DEF IsPrefix
<1>. QED
  BY <1>5, <1>6 DEF s

(***************************************************************************)
(* A saved piece stays through every start, unless the operator asked for      *)
(* exactly one of --fresh and --replay-log.                                *)
(***************************************************************************)
THEOREM SavedSurvivesHolds == Spec => SavedSurvives
<1>1. ASSUME TypeOK, [Next]_vars PROVE AsksForAnotherLog \/ IsPrefix(SubSeq(log, 1, saved), log')
  <2>1. CASE UNCHANGED log
    BY <1>1, <2>1, SavedIsPrefix
  <2>2. ASSUME NEW o \in Request, Comes(o) PROVE IsPrefix(SubSeq(log, 1, saved), log')
    <3>1. PICK operation \in Operation : Invoke(o, operation)
      BY <2>2 DEF Comes
    <3>2. <<operation, NewLine>> \in Seq(Piece)
      BY DEF Piece
    <3>3. log' = log \/ log' = log \o <<operation, NewLine>>
      BY <3>1 DEF Invoke
    <3>. QED
      BY <1>1, <3>2, <3>3, SavedIsPrefix
  <2>3. ASSUME End PROVE IsPrefix(SubSeq(log, 1, saved), log')
    BY <1>1, <2>3, SavedIsPrefix DEF End
  <2>4. ASSUME InitializeLogFile PROVE UNCHANGED log \/ AsksForAnotherLog
    BY <1>1, <2>4 DEF InitializeLogFile, Refuse, Wipe, CopyBackup, CopyOntoItself, CopyFails,
                      KeepFile, logVars, AsksForAnotherLog, TypeOK, Options
  <2>5. UNCHANGED log \/ InitializeLogFile \/ End \/ \E o \in Request : Comes(o)
    BY <1>1, Steps
       DEF Start, ReplayLog, RunGrpc, JoinAnswered, JoinFails, ImportKey, ImportOver, RegisterHook,
           RunHttp, StoreAdd, StoreRemoveCheck, StoreRemoveUpdate, Save, logVars, vars
  <2>. QED
    BY <2>1, <2>2, <2>3, <2>4, <2>5
<1>. QED
  BY <1>1, TypeCorrect, PTL DEF Spec, SavedSurvives

=============================================================================
