------------------------------ MODULE LallyAof ------------------------------
(***************************************************************************)
(* The append-only log of one node: writes hand a record to the log hook   *)
(* and then change the store (src/http_server.rs, src/cluster.rs), a       *)
(* flusher task moves the records through a BufWriter to the file          *)
(* (src/hooks/aof.rs), the process ends and starts again, and replay       *)
(* rebuilds the store from the file (src/lally/store.rs, src/utils.rs).    *)
(*                                                                         *)
(* A record and the newline after it are two write_all calls; a write      *)
(* failure loses whole pieces.                                             *)
(*                                                                         *)
(* tokio's BufWriter holds pieces back until the next one does not fit,    *)
(* then hands them to the file as one block; a piece as large as the       *)
(* buffer goes to the file directly.  The file writes in the background:   *)
(* a failure is reported by the next operation that reaches the file.      *)
(***************************************************************************)
EXTENDS LallyReplay

CONSTANTS Adds,         \* the ADD requests this node receives
          Removes,      \* the REMOVE requests this node receives
          MaxFailures,  \* bound on failures of the disk
          MaxRestarts   \* bound on restarts

Request == Adds \cup Removes

ASSUME AofAssumption ==
    /\ Adds \cap Removes = {}
    /\ MaxFailures \in Nat
    /\ MaxRestarts \in Nat

VARIABLES
    store,      \* the store of the node
    task,       \* task[o]: how far request o has come
    op,         \* op[o]: the operation of request o
    cloned,     \* cloned[o]: the value Store::remove has cloned
    queue,      \* the SegQueue: records the flusher has not popped
    flusher,    \* where the flusher task is
    written,    \* written_data: something was written since the last tick
    writer,     \* the pieces in the BufWriter
    lastError,  \* a failed write of the file has not been reported yet
    file,       \* the pieces in the file
    overlapped, \* history: keys that two requests wrote at the same time
    failures,   \* how often the disk has failed
    restarts    \* how often the process was started again

storeVars == <<store, task, op, cloned, overlapped>>
diskVars  == <<writer, lastError, file, failures>>
vars      == <<storeVars, queue, flusher, written, diskVars, restarts>>

\* The type invariant.
TypeOK ==
    /\ store      \in Store
    /\ task       \in [Request -> {"new", "ready", "checked", "ended"}]
    /\ op         \in [Request -> Operation \cup {None}]
    /\ cloned     \in [Request -> Value \cup {None}]
    /\ queue      \in Seq(Operation)
    /\ flusher    \in {"sleep", "drain", "newline", "flush"}
    /\ written    \in BOOLEAN
    /\ writer     \in Seq(Piece)
    /\ lastError  \in BOOLEAN
    /\ file       \in Seq(Piece)
    /\ overlapped \in SUBSET Key
    /\ failures   \in 0..MaxFailures
    /\ restarts   \in 0..MaxRestarts

Init ==
    /\ store      = EmptyStore
    /\ task       = [o \in Request |-> "new"]
    /\ op         = [o \in Request |-> None]
    /\ cloned     = [o \in Request |-> None]
    /\ queue      = <<>>
    /\ flusher    = "sleep"
    /\ written    = FALSE
    /\ writer     = <<>>
    /\ lastError  = FALSE
    /\ file       = <<>>
    /\ overlapped = {}
    /\ failures   = 0
    /\ restarts   = 0

-----------------------------------------------------------------------------
(***************************************************************************)
(* Writes.  The hook runs before the store.  Nothing here compares two     *)
(* timestamps; they differ so that a property can tell two writes apart.   *)
(***************************************************************************)
InFlight == {o \in Request : task[o] \in {"ready", "checked"}}

Stamp == Cardinality({o \in Request : task[o] # "new"}) + 1

\* AppendOnlyLog::invoke pushes the record; the caller goes on to its store.
Invoke(o, operation) ==
    /\ task[o] = "new"
    /\ queue' = Append(queue, operation)
    /\ op' = [op EXCEPT ![o] = operation]
    /\ task' = [task EXCEPT ![o] = "ready"]
    /\ overlapped' = overlapped \cup {k \in {operation.key} : \E p \in InFlight : op[p].key = k}
    /\ UNCHANGED <<store, cloned, flusher, written, diskVars, restarts>>

BeginAdd(o, k, v) ==
    Invoke(o, [name |-> "ADD", key |-> k, value |-> v, timestamp |-> Stamp])

BeginRemove(o, k) ==
    Invoke(o, [name |-> "REMOVE", key |-> k, value |-> None, timestamp |-> Stamp])

StoreAdd(o) ==
    /\ task[o] = "ready"
    /\ o \in Adds
    /\ store' = Add(store, op[o])
    /\ task' = [task EXCEPT ![o] = "ended"]
    /\ UNCHANGED <<op, cloned, overlapped, queue, flusher, written, diskVars, restarts>>

StoreRemoveCheck(o) ==
    LET k == op[o].key
    IN  /\ task[o] = "ready"
        /\ o \in Removes
        /\ \/ /\ Live(store, k)
              /\ cloned' = [cloned EXCEPT ![o] = store[k].value]
              /\ task' = [task EXCEPT ![o] = "checked"]
           \/ /\ ~Live(store, k)
              /\ task' = [task EXCEPT ![o] = "ended"]
              /\ UNCHANGED cloned
        /\ UNCHANGED <<store, op, overlapped, queue, flusher, written, diskVars, restarts>>

StoreRemoveUpdate(o) ==
    /\ task[o] = "checked"
    /\ store' = Bury(store, op[o], cloned[o])
    /\ cloned' = [cloned EXCEPT ![o] = None]
    /\ task' = [task EXCEPT ![o] = "ended"]
    /\ UNCHANGED <<op, overlapped, queue, flusher, written, diskVars, restarts>>

-----------------------------------------------------------------------------
(***************************************************************************)
(* write_all of one piece to the BufWriter                                 *)
(***************************************************************************)
Buffered(p) ==
    /\ writer' = Append(writer, p)
    /\ written' = TRUE
    /\ UNCHANGED <<lastError, file, failures>>

\* The piece does not fit: the buffer becomes a block of the file.
BlockWritten(p) ==
    /\ ~lastError /\ writer # <<>>
    /\ file' = file \o writer
    /\ writer' = <<p>>
    /\ written' = TRUE
    /\ UNCHANGED <<lastError, failures>>

\* A record as large as the buffer goes to the file behind what was buffered.
WrittenDirectly(p) ==
    /\ ~lastError /\ p # NewLine
    /\ file' = file \o writer \o <<p>>
    /\ writer' = <<>>
    /\ written' = TRUE
    /\ UNCHANGED <<lastError, failures>>

\* Such a record is lost in the background, or refused because the block before it was.
DirectLost(p) ==
    /\ ~lastError /\ p # NewLine
    /\ failures < MaxFailures
    /\ failures' = failures + 1
    /\ writer' = <<>>
    /\ \/ file' = file \o writer /\ lastError' = TRUE /\ written' = TRUE
       \/ writer # <<>> /\ UNCHANGED <<file, lastError, written>>

\* The block is lost in the background; write_all knows nothing of it.
BlockLost(p) ==
    /\ ~lastError /\ writer # <<>>
    /\ failures < MaxFailures
    /\ writer' = <<p>>
    /\ lastError' = TRUE
    /\ failures' = failures + 1
    /\ written' = TRUE
    /\ UNCHANGED file

\* The piece needs the file, which reports the earlier failure: Err, p is dropped.
Refused(p) ==
    /\ lastError
    /\ lastError' = FALSE
    /\ UNCHANGED <<written, writer, file, failures>>

WriteAll(p) ==
    \/ Buffered(p)
    \/ BlockWritten(p)
    \/ WrittenDirectly(p)
    \/ DirectLost(p)
    \/ BlockLost(p)
    \/ Refused(p)

-----------------------------------------------------------------------------
(***************************************************************************)
(* The flusher task (flush_logs)                                           *)
(***************************************************************************)
Tick ==
    /\ flusher = "sleep"
    /\ flusher' = "drain"
    /\ written' = FALSE
    /\ UNCHANGED <<storeVars, queue, diskVars, restarts>>

\* Mutant of PopRecord: the queue is popped like a stack.
PopNewest ==
    /\ flusher = "drain"
    /\ queue # <<>>
    /\ queue' = Front(queue)
    /\ WriteAll(Last(queue))
    /\ flusher' = "newline"
    /\ UNCHANGED <<storeVars, restarts>>

PopRecord ==
    /\ flusher = "drain"
    /\ queue # <<>>
    /\ queue' = Tail(queue)
    /\ WriteAll(Head(queue))
    /\ flusher' = "newline"
    /\ UNCHANGED <<storeVars, restarts>>

EndRecord ==
    /\ flusher = "newline"
    /\ WriteAll(NewLine)
    /\ flusher' = "drain"
    /\ UNCHANGED <<storeVars, queue, restarts>>

\* Mutant of QueueEmpty: the end of a drain does not flush.
QueueEmptyNoFlush ==
    /\ flusher = "drain"
    /\ queue = <<>>
    /\ flusher' = "sleep"
    /\ UNCHANGED <<storeVars, queue, written, diskVars, restarts>>

QueueEmpty ==
    /\ flusher = "drain"
    /\ queue = <<>>
    /\ flusher' = IF written THEN "flush" ELSE "sleep"
    /\ UNCHANGED <<storeVars, queue, written, diskVars, restarts>>

Flush ==
    /\ flusher = "flush"
    /\ flusher' = "sleep"
    /\ written' = FALSE
    /\ \/ /\ ~lastError                                     \* all is written
          /\ file' = file \o writer
          /\ writer' = <<>>
          /\ UNCHANGED <<lastError, failures>>
       \/ /\ ~lastError /\ failures < MaxFailures           \* the block is lost
          /\ writer' = <<>>
          /\ failures' = failures + 1
          /\ UNCHANGED <<lastError, file>>
       \/ /\ lastError                                      \* an earlier failure
          /\ lastError' = FALSE
          /\ UNCHANGED <<writer, file, failures>>
    /\ UNCHANGED <<storeVars, queue, restarts>>

-----------------------------------------------------------------------------
(***************************************************************************)
(* The process is killed, or shut down: `shutdown' leaves the cluster and  *)
(* calls exit(0), which flushes nothing.  Then it is started again, with   *)
(* neither --fresh nor --replay-log, and finds the file it left.           *)
(***************************************************************************)
Restart ==
    /\ restarts < MaxRestarts
    /\ restarts' = restarts + 1
    /\ store' = Replay(file)
    /\ task' = [o \in Request |-> IF task[o] = "new" THEN "new" ELSE "ended"]
    /\ queue' = <<>>
    /\ flusher' = "sleep"
    /\ written' = FALSE
    /\ writer' = <<>>
    /\ lastError' = FALSE
    /\ cloned' = [o \in Request |-> None]
    /\ overlapped' = {}
    /\ UNCHANGED <<op, file, failures>>

-----------------------------------------------------------------------------
Client ==
    \/ \E o \in Adds, k \in Key, v \in Value : BeginAdd(o, k, v)
    \/ \E o \in Removes, k \in Key : BeginRemove(o, k)

StoreStep(o) == StoreAdd(o) \/ StoreRemoveCheck(o) \/ StoreRemoveUpdate(o)

Flusher == Tick \/ PopRecord \/ EndRecord \/ QueueEmpty \/ Flush

Next ==
    \/ Client
    \/ \E o \in Request : StoreStep(o)
    \/ Flusher
    \/ Restart

Spec == Init /\ [][Next]_vars

(***************************************************************************)
(* Tokio polls the flusher, whose interval keeps ticking; every operation  *)
(* on the file ends.  Clients and restarts owe nothing.                    *)
(***************************************************************************)
FairSpec == Spec /\ WF_vars(Flusher)

-----------------------------------------------------------------------------
(***************************************************************************)
(* Properties                                                              *)
(***************************************************************************)
IsRecord(p) == p # NewLine

Records(pieces) ==
    LET upTo[i \in 0..Len(pieces)] ==
            IF i = 0 THEN <<>>
            ELSE IF IsRecord(pieces[i]) THEN Append(upTo[i - 1], pieces[i])
            ELSE upTo[i - 1]
    IN  upTo[Len(pieces)]

(***************************************************************************)
(* The log, wherever its records are, keeps the order of the hook calls; a *)
(* crash or a shutdown loses exactly the records that had not reached the  *)
(* file, and without a failure of the disk no record is dropped            *)
(* (src/hooks/aof.rs).                                                     *)
(***************************************************************************)
Log == INSTANCE DurableLog WITH
           Record  <- Operation,
           log     <- Records(file) \o Records(writer) \o queue,
           saved   <- Len(Records(file)),
           healthy <- failures = 0

ImplementsDurableLog == Log!Spec

\* Everything that was logged is in the file, and in the store.
AllFlushed ==
    /\ InFlight = {} /\ queue = <<>> /\ writer = <<>>
    /\ failures = 0

\* Piece i of the file has a line of its own.
Alone(i) == /\ i = 1 \/ file[i - 1] = NewLine
            /\ i = Len(file) \/ file[i + 1] = NewLine

Plain(operation) == Parse(operation) = operation

\* The record is about key k, or reads as if it were.
Concerns(k, operation) ==
    operation.key = k \/ (Parse(operation) # None /\ Parse(operation).key = k)

\* Whatever the file says of key k, it says plainly and on lines of its own.
Legible(k) ==
    \A i \in 1..Len(file) :
       IsRecord(file[i]) /\ Concerns(k, file[i]) => Plain(file[i]) /\ Alone(i)

\* Replaying the file now gives what a reader of the key sees.
Restorable(k) == Get(Replay(file), k) = Get(store, k)

(***************************************************************************)
(* The log describes the store: once everything is flushed, replaying the  *)
(* file restores every key whose writes did not overlap and whose records  *)
(* are legible, also after earlier restarts, refused removals included,    *)
(* and whatever the records of other keys look like (src/lally/store.rs    *)
(* replay_aof against add and remove).                                     *)
(***************************************************************************)
ReplayRestoresSerialKeys ==
    AllFlushed => \A k \in Key \ overlapped : Legible(k) => Restorable(k)

(***************************************************************************)
(* What the README says of the log, which is for "robust crash recovery,   *)
(* easy backup, replay, and data restoration": once everything is flushed, *)
(* a key whose writes never overlapped is restored with its value,         *)
(* whatever the value is (parse_aof_log), and wherever a restart has       *)
(* interrupted flush_logs.                                                 *)
(***************************************************************************)
SerialValuesRestored ==
    AllFlushed => \A k \in Key \ overlapped :
                     Get(Replay(file), k).value = Get(store, k).value

InMemory(o) == op[o] \in ToSet(queue) \cup ToSet(writer)

(***************************************************************************)
(* Liveness: a record given to the hook does not stay in memory, unless    *)
(* the disk fails (flush_logs).  With ImplementsDurableLog: it reaches the *)
(* file, unless the process ends or the disk fails first.  The requests    *)
(* are finitely many: if again and again no record is in memory, none      *)
(* stays there.                                                            *)
(***************************************************************************)
RecordsLeaveMemory == []<>((\A o \in Request : ~InMemory(o)) \/ failures > 0)

=============================================================================
