------------------------------- MODULE LallyBoot -------------------------------
(***************************************************************************)
(* One node from its command line to its HTTP server and back to a         *)
(* restart: the configuration prepares the log file (src/config.rs), the   *)
(* store replays it, the gRPC server runs, the node joins through its seed *)
(* and imports the seed's store, the log hook is registered and the HTTP   *)
(* server runs (src/main.rs), while other nodes already write to this one  *)
(* (src/cluster.rs).                                                       *)
(*                                                                         *)
(* The log is what LallyAof makes of it while the disk does not fail:      *)
(* records and newlines in the order of the hook calls, of which a growing *)
(* prefix survives the process.  A process that ends between a record and  *)
(* its newline leaves a line to which the next one appends.                *)
(***************************************************************************)
EXTENDS LallyReplay

CONSTANTS Adds,      \* the ADDs this node gets
          Removes,   \* the REMOVEs this node gets
          Backup,    \* the pieces of the file --replay-log names
          Offers,    \* the stores the seed may export
          MaxStamp,  \* bound on timestamps
          MaxStarts  \* bound on how often the node is started

Request == Adds \cup Removes

ASSUME BootAssumption ==
    /\ Adds \cap Removes = {}
    /\ Backup \in Seq(Piece)
    /\ Offers \subseteq Store
    /\ MaxStamp \in Nat
    /\ MaxStarts \in Nat

\* What lally.yml or the command line asks for.
Options == [fresh : BOOLEAN, replay : BOOLEAN, seed : BOOLEAN]

VARIABLES
    yml,      \* what lally.yml asks for
    options,  \* the configuration of the process
    stage,    \* where main is
    store,    \* the store of the node
    log,      \* the pieces of the log
    saved,    \* how many of them are in the file
    hooked,   \* the log hook is registered
    todo,     \* the keys import_store has still to look at
    task,     \* task[o]: how far request o has come
    op,       \* op[o]: the operation of request o
    cloned,   \* cloned[o]: the value Store::remove has cloned
    starts,   \* how often the node was started
    replayed, \* history: the store after replay
    offer,    \* history: the store the seed has exported, or nothing
    early,    \* history: the requests that came before the log hook
    touched   \* history: the keys that were written since the start

configVars  == <<yml, options, starts>>
logVars     == <<log, saved>>
taskVars    == <<task, op, cloned>>
historyVars == <<replayed, offer, early, touched>>
vars == <<configVars, stage, store, logVars, hooked, todo, taskVars, historyVars>>

Stage == {"down", "config", "replay", "grpc", "join", "import", "hook", "http", "ready"}

\* The gRPC server answers other nodes.
Serving == stage \in {"join", "import", "hook", "http", "ready"}

\* The type invariant.
TypeOK ==
    /\ {yml, options} \subseteq Options
    /\ stage    \in Stage
    /\ store    \in Store
    /\ log      \in Seq(Piece)
    /\ saved    \in 0..Len(log)
    /\ hooked   \in BOOLEAN
    /\ todo     \in SUBSET Key
    /\ task     \in [Request -> {"new", "ready", "checked", "ended"}]
    /\ op       \in [Request -> Operation \cup {None}]
    /\ cloned   \in [Request -> Value \cup {None}]
    /\ starts   \in 0..MaxStarts
    /\ replayed \in Store
    /\ offer    \in Store
    /\ early    \in SUBSET Request
    /\ touched  \in SUBSET Key

Init ==
    /\ yml      \in Options
    /\ options  = yml
    /\ stage    = "down"
    /\ store    = EmptyStore
    /\ log      = <<>>
    /\ saved    = 0
    /\ hooked   = FALSE
    /\ todo     = {}
    /\ task     = [o \in Request |-> "new"]
    /\ op       = [o \in Request |-> None]
    /\ cloned   = [o \in Request |-> None]
    /\ starts   = 0
    /\ replayed = EmptyStore
    /\ offer    = EmptyStore
    /\ early    = {}
    /\ touched  = {}

-----------------------------------------------------------------------------
(***************************************************************************)
(* Config::new: the command line can only add to lally.yml.                *)
(***************************************************************************)
Merged(file, cli) == [f \in DOMAIN file |-> file[f] \/ cli[f]]

Start(cli) ==
    /\ stage = "down"
    /\ starts < MaxStarts
    /\ starts' = starts + 1
    /\ options' = Merged(yml, cli)
    /\ stage' = "config"
    /\ UNCHANGED <<yml, store, logVars, hooked, todo, taskVars, historyVars>>

FileIs(pieces) ==
    /\ log' = pieces
    /\ saved' = Len(pieces)

(***************************************************************************)
(* initialize_log_file: it refuses contradicting options, wipes the file,  *)
(* copies the backup over it, or leaves it alone.                          *)
(***************************************************************************)
Refuse ==
    /\ options.fresh /\ options.replay
    /\ stage' = "down"
    /\ UNCHANGED logVars

Wipe ==
    /\ options.fresh /\ ~options.replay
    /\ FileIs(<<>>)
    /\ stage' = "replay"

CopyBackup ==
    /\ options.replay /\ ~options.fresh
    /\ FileIs(Backup)
    /\ stage' = "replay"

\* --replay-log names the log itself: copy opens it for writing, and reads nothing.
CopyOntoItself ==
    /\ options.replay /\ ~options.fresh
    /\ FileIs(<<>>)
    /\ stage' = "replay"

\* There is no such backup, or copying it stops half-way with the process.
CopyFails ==
    /\ options.replay /\ ~options.fresh
    /\ stage' = "down"
    /\ \/ UNCHANGED logVars
       \/ \E i \in 0..Len(Backup) : FileIs(SubSeq(Backup, 1, i))

KeepFile ==
    /\ ~options.fresh /\ ~options.replay
    /\ stage' = "replay"
    /\ UNCHANGED logVars

\* Mutant of InitializeLogFile: the file is wiped before the options are compared.
InitializeWipingFirst ==
    /\ stage = "config"
    /\ \/ options.fresh /\ FileIs(<<>>) /\ stage' = IF options.replay THEN "down" ELSE "replay"
       \/ ~options.fresh /\ (CopyBackup \/ CopyOntoItself \/ CopyFails \/ KeepFile)
    /\ UNCHANGED <<configVars, store, hooked, todo, taskVars, historyVars>>

InitializeLogFile ==
    /\ stage = "config"
    /\ Refuse \/ Wipe \/ CopyBackup \/ CopyOntoItself \/ CopyFails \/ KeepFile
    /\ UNCHANGED <<configVars, store, hooked, todo, taskVars, historyVars>>

\* Lally::new: the store is what replay makes of the file.
ReplayLog ==
    /\ stage = "replay"
    /\ store' = Replay(log)
    /\ replayed' = store'
    /\ stage' = "grpc"
    /\ UNCHANGED <<configVars, logVars, hooked, todo, taskVars, offer, early, touched>>

\* GrpcServer::run spawns the server; without a seed there is nothing to join.
RunGrpc ==
    /\ stage = "grpc"
    /\ stage' = IF options.seed THEN "join" ELSE "hook"
    /\ UNCHANGED <<configVars, store, logVars, hooked, todo, taskVars, historyVars>>

-----------------------------------------------------------------------------
(***************************************************************************)
(* Joining: what the seed exported arrives once all connections stand, and *)
(* is imported key by key while other nodes write.                         *)
(***************************************************************************)
JoinAnswered(exported) ==
    /\ stage = "join"
    /\ offer' = exported
    /\ todo' = Exported(exported)
    /\ stage' = "import"
    /\ UNCHANGED <<configVars, store, logVars, hooked, taskVars, replayed, early, touched>>

\* main goes on without a cluster.
JoinFails ==
    /\ stage = "join"
    /\ stage' = "hook"
    /\ UNCHANGED <<configVars, store, logVars, hooked, todo, taskVars, historyVars>>

ImportKey(k) ==
    /\ stage = "import"
    /\ k \in todo
    /\ store' = Import(store, k, offer[k])
    /\ todo' = todo \ {k}
    /\ UNCHANGED <<configVars, stage, logVars, hooked, taskVars, historyVars>>

ImportOver ==
    /\ stage = "import"
    /\ todo = {}
    /\ stage' = "hook"
    /\ UNCHANGED <<configVars, store, logVars, hooked, todo, taskVars, historyVars>>

\* Mutant of RegisterHook: the log is initialised and not registered.
InitHookOnly ==
    /\ stage = "hook"
    /\ stage' = "http"
    /\ UNCHANGED <<configVars, store, logVars, hooked, todo, taskVars, historyVars>>

\* AppendOnlyLog::init and Hooks::register.
RegisterHook ==
    /\ stage = "hook"
    /\ hooked' = TRUE
    /\ stage' = "http"
    /\ UNCHANGED <<configVars, store, logVars, todo, taskVars, historyVars>>

RunHttp ==
    /\ stage = "http"
    /\ stage' = "ready"
    /\ UNCHANGED <<configVars, store, logVars, hooked, todo, taskVars, historyVars>>

-----------------------------------------------------------------------------
(***************************************************************************)
(* Writes of other nodes, and of clients once HTTP runs: the hooks that    *)
(* are registered, then the store.  The clock of the coordinator may show  *)
(* anything.                                                               *)
(***************************************************************************)
Invoke(o, operation) ==
    /\ Serving
    /\ task[o] = "new"
    /\ task' = [task EXCEPT ![o] = "ready"]
    /\ op' = [op EXCEPT ![o] = operation]
    /\ log' = IF hooked THEN log \o <<operation, NewLine>> ELSE log
    /\ early' = IF stage \in {"join", "import", "hook"} THEN early \cup {o} ELSE early
    /\ touched' = touched \cup {operation.key}
    /\ UNCHANGED <<configVars, stage, store, saved, hooked, todo, cloned, replayed, offer>>

BeginAdd(o, k, v, t) ==
    Invoke(o, [name |-> "ADD", key |-> k, value |-> v, timestamp |-> t])

BeginRemove(o, k, t) ==
    Invoke(o, [name |-> "REMOVE", key |-> k, value |-> None, timestamp |-> t])

StoreAdd(o) ==
    /\ task[o] = "ready"
    /\ o \in Adds
    /\ store' = Add(store, op[o])
    /\ task' = [task EXCEPT ![o] = "ended"]
    /\ UNCHANGED <<configVars, stage, logVars, hooked, todo, op, cloned, historyVars>>

StoreRemoveCheck(o) ==
    LET k == op[o].key
    IN  /\ task[o] = "ready"
        /\ o \in Removes
        /\ \/ /\ Live(store, k)
              /\ cloned' = [cloned EXCEPT ![o] = store[k].value]
              /\ task' = [task EXCEPT ![o] = "checked"]
           \/ /\ ~Live(store, k)
              /\ task' = [task EXCEPT ![o] = "ended"]
              /\ UNCHANGED cloned
        /\ UNCHANGED <<configVars, stage, store, logVars, hooked, todo, op, historyVars>>

StoreRemoveUpdate(o) ==
    /\ task[o] = "checked"
    /\ store' = Bury(store, op[o], cloned[o])
    /\ cloned' = [cloned EXCEPT ![o] = None]
    /\ task' = [task EXCEPT ![o] = "ended"]
    /\ UNCHANGED <<configVars, stage, logVars, hooked, todo, op, historyVars>>

\* The flusher brings more of the log into the file.
Save ==
    /\ \E i \in saved + 1..Len(log) : saved' = i
    /\ UNCHANGED <<configVars, stage, store, log, hooked, todo, taskVars, historyVars>>

\* The process is killed or shut down, or a step of main fails: what was not saved is gone.
End ==
    /\ stage # "down"
    /\ stage' = "down"
    /\ store' = EmptyStore
    /\ log' = SubSeq(log, 1, saved)
    /\ hooked' = FALSE
    /\ todo' = {}
    /\ task' = [o \in Request |-> IF task[o] = "new" THEN "new" ELSE "ended"]
    /\ cloned' = [o \in Request |-> None]
    /\ replayed' = EmptyStore
    /\ offer' = EmptyStore
    /\ early' = {}
    /\ touched' = {}
    /\ UNCHANGED <<configVars, saved, op>>

-----------------------------------------------------------------------------
Main ==
    \/ InitializeLogFile
    \/ ReplayLog
    \/ RunGrpc
    \/ \E exported \in Offers : JoinAnswered(exported)
    \/ JoinFails
    \/ \E k \in Key : ImportKey(k)
    \/ ImportOver
    \/ RegisterHook
    \/ RunHttp

Writes ==
    \/ \E o \in Adds, k \in Key, v \in Value, t \in 1..MaxStamp : BeginAdd(o, k, v, t)
    \/ \E o \in Removes, k \in Key, t \in 1..MaxStamp : BeginRemove(o, k, t)
    \/ \E o \in Request : StoreAdd(o) \/ StoreRemoveCheck(o) \/ StoreRemoveUpdate(o)

Next ==
    \/ \E cli \in Options : Start(cli)
    \/ Main
    \/ Writes
    \/ Save
    \/ End
    \/ stage = "down" /\ starts = MaxStarts /\ UNCHANGED vars

Spec == Init /\ [][Next]_vars

-----------------------------------------------------------------------------
(***************************************************************************)
(* Properties                                                              *)
(***************************************************************************)
AsksForAnotherLog == stage = "config" /\ options.fresh # options.replay

(***************************************************************************)
(* A piece that is in the file stays there, with its place, through every  *)
(* start, unless the operator asked for exactly one of --fresh and         *)
(* --replay-log (Config::initialize_log_file, Store::replay_aof opens the  *)
(* file for writing).                                                      *)
(***************************************************************************)
SavedSurvives ==
    [][AsksForAnotherLog \/ IsPrefix(SubSeq(log, 1, saved), log')]_vars

\* Entry e of key k is what the operation leaves in a store.
Makes(operation, k, e) ==
    /\ operation.key = k /\ operation.timestamp = e.timestamp
    /\ operation.name = IF e.valid THEN "ADD" ELSE "REMOVE"
    /\ e.valid => e.value = operation.value

\* A line begins with piece j and goes on to piece i.
LineFrom(j, i) ==
    /\ j = 1 \/ log[j - 1] = NewLine
    /\ \A n \in j..i : log[n] # NewLine

(***************************************************************************)
(* Entry e of key k is in the log: as the record that made it, or as what  *)
(* a record reads as, which has the timestamp of the first record of its   *)
(* line.                                                                   *)
(***************************************************************************)
InLog(k, e) ==
    \E i \in 1..Len(log) :
       /\ log[i] # NewLine
       /\ \/ Makes(log[i], k, e)
          \/ \E j \in 1..i :
                LET said == Parse(Glue(log[j], log[i]))
                IN  LineFrom(j, i) /\ said # None /\ Makes(said, k, e)

WrittenEarly(k, e) == \E o \in early : op[o].key = k /\ op[o].timestamp = e.timestamp

(***************************************************************************)
(* Everything in the store is in the log, but what the seed sent and what  *)
(* other nodes wrote between the start of the gRPC server and the          *)
(* registration of the log hook (main): these two are lost with the        *)
(* process.                                                                *)
(***************************************************************************)
UnloggedOnlyFromBoot ==
    \A k \in Key : store[k] # None =>
       InLog(k, store[k]) \/ store[k] = offer[k] \/ WrittenEarly(k, store[k])

NotOlder(e, other) == other = None \/ (e # None /\ e.timestamp >= other.timestamp)

(***************************************************************************)
(* After the join the node has, of every key that nobody wrote meanwhile,  *)
(* the newer of what replay restored and what the seed had, tombstones     *)
(* included, in whatever order the keys are imported (import_store).       *)
(***************************************************************************)
JoinTakesNewest ==
    stage \in {"hook", "http", "ready"} =>
       \A k \in Key \ touched :
          /\ store[k] \in {replayed[k], offer[k]}
          /\ NotOlder(store[k], replayed[k]) /\ NotOlder(store[k], offer[k])

=============================================================================
