# A TLA+ model of Lally

Lally is a replicated in-memory key-value store: every node has an HTTP server
for clients, a gRPC server for the other nodes, a pool of connections to them,
and an append-only log (AOF). This directory holds TLA+ modules of its core,
TLC configurations, and proofs checked by TLAPS. Paths below are relative to the
repository (`src/http_server.rs` is the crate's own `src/`).

## 1. The system

| part | state | operations | interacts with |
|---|---|---|---|
| store (`src/lally/store.rs`) | map key -> (value, timestamp, valid) | `add`, `remove` (check, then update), `get`, `replay_aof`, `export_store`, `import_store` | called by both servers |
| HTTP handlers (`src/http_server.rs`) | none of their own; the locals of a running request | `add_kv`, `get_kv` with read repair, `remove_kv`, `get_nodes_addrs` | hooks, then local store, then pool |
| pool (`src/lally/pool.rs`) | map address -> channel | fan-out of `add_kv`, `get_kv`, `remove_kv`; `solo_*`; `join`, `gossip`, `leave`, `conn_make`, `bulk_conn_make` | gRPC calls, one spawned task each |
| gRPC services (`src/cluster.rs`) | none | `add_kv`, `remove_kv`, `get_kv`, `join`, `add_node`, `remove_node` | hooks, store, pool |
| hooks (`src/lally/hook.rs`) | list of hooks | `register`, `invoke_all` | AOF |
| append-only log (`src/hooks/aof.rs`) | queue, BufWriter, file | `invoke`, `flush_logs` | file system |
| record codec (`src/utils.rs`) | none | `parse_aof_log` | replay |
| start-up, shutdown (`src/main.rs`, `src/lally.rs`) | none | replay, gRPC, join, import, hook, HTTP; `leave`, `exit(0)` | all |
| configuration (`src/config.rs`) | settings, the log file's content | `--fresh`, `--replay-log` | log file |

What is hard here:

* **Concurrency.** HTTP and gRPC handlers run in parallel on lock-free maps.
  `remove` looks a key up and updates it later. A hook call and the store
  operation after it are two steps. `get_kv` decides on repairs with an answer
  its own store gave before the other nodes were asked.
* **Ordering.** `store.add` overwrites without comparing timestamps, so what
  arrives last wins, not what is newest. The pool returns on the last vote it
  needs and drops the other tasks, whose calls may be served much later. Repairs
  are spawned and not awaited.
* **Failure.** A call may fail before or after its handler ran; nothing is
  retried and nothing has a deadline. The log is lost from the BufWriter on, in
  a shutdown just as in a crash, and write errors drop records.
* **Membership.** There is no agreement on who is in the cluster: each node has a
  pool of its own, filled by joins and emptied by leaves that run beside each
  other. The join handler reads the pool twice and enters the newcomer only at
  the end; `conn_make` looks up, awaits a connection, and stores; `leave` reads
  the pool once and goes on answering; a node that crashes is never removed.
* **Start-up.** The gRPC server runs before the node has joined, and both come
  before the log hook. Configuration acts on the log file before anything reads
  it.
* **Boundaries.** `quorum - 1` in `usize`, compared with `==`.

What makes the parts correct: no mixing of two writes in stores and answers; the
status tells whether the quorum was met; what is stored was logged; a successful
write is logged by a quorum; intersecting quorums read the latest write; repairs
converge and bring nothing older back; removals stay; requests and repairs end; the
log keeps its order and loses only its tail; replay restores the store; whoever
joins knows the nodes and the data from before, joins and leaves end; nothing but
an operator's request replaces a saved log; a join never brings older data back.

`PROJECT.json` lists every component (`components`), every hazard at its line
with the properties that are about it (`hazards`), and the code each definition
stands for (`map`).

## 2. The modules

| module | models | uses |
|---|---|---|
| `LallyStore` | the store's map and its operations, as pure operators | |
| `LallyReplication` | HTTP handlers, fan-out, gRPC handlers, read repair on all nodes | `LallyStore` |
| `LallyRealTime` | `LallyReplication` plus a history of which requests were over when another began, and two disciplines for clients | `LallyReplication` |
| `DurableLog` | abstract: a log with a saved prefix | |
| `LallyReplay` | what replay makes of a file, line by line, for any reading of a line | `LallyStore` |
| `LallyAof` | one node's writes, its AOF queue, flusher and file, restart and replay | `LallyReplay`, instance of `DurableLog` |
| `LallyMembership` | all nodes: joins, gossip, leaves, crashes, and the writes and repairs that use the pools | |
| `LallyBoot` | one node from its command line to a restart: configuration, replay, join and import, hook, HTTP | `LallyReplay` |
| `MCReplication`, `MCRealTime`, `MCAof`, `MCMembership`, `MCBoot` | TLC instances | |
| `LallyReplicationProofs` | proofs: types, integrity, status and quorum | `LallyReplication`, TLAPS |
| `LallyReplicationLogProofs` | proofs: what the hooks got | `LallyReplicationProofs` |
| `LallyRealTimeProofs` | proofs: patient clients | `LallyRealTime`, `LallyReplicationLogProofs` |
| `LallyMembershipProofs` | proofs: types, own addresses, serial changes | `LallyMembership`, TLAPS |
| `LallyMembershipJoinProofs` | proofs: what a join brings | `LallyMembershipProofs` |
| `LallyReplayProofs` | lemmas: what replay leaves in the store, and which line an entry comes from | `LallyReplay`, TLAPS |
| `LallyAofProofs` | proofs: types, refinement of `DurableLog`, replay | `LallyAof`, `LallyReplayProofs` |
| `LallyBootProofs` | proofs: types, log and store, join, saved records | `LallyBoot`, `LallyReplayProofs` |

Definitions whose comment begins with "Mutant of" are not part of the model.
Each is a plausible bug in one definition, with which the property named in
`PROJECT.json` ("mutants") must fail: they show that the property can fail.

### LallyReplication

A request `o` goes through `phase[o]`: `new`, `local` (the coordinator runs it on
its own store), `collect` (tasks are out), `done` (answered). `call[o][r]` is the
execution of `o` at responder `r`, a node or `Local`, the label the code gives the
coordinator's own answer.

| code | actions |
|---|---|
| `build_operation`, `invoke_all`, before the local store | `BeginAdd`, `BeginRemove` |
| `get_kv` up to the local `store.get` | `BeginGet` |
| `Store::add`; `Store::remove` in its two halves | `StoreAdd`; `StoreRemoveCheck`, `StoreRemoveUpdate` (also at peers) |
| spawning one task per connection | `FanOut` |
| gRPC `add_kv`, `remove_kv`: hooks; `get_kv` | `ReceiveWrite`; `ServeGet` |
| a call that fails, is aborted, or whose answer is lost | `LoseCall` |
| `join_next` returning `Ok(Ok(..))` | `JoinNext` |
| the end of the loop and the response | `FinishAdd`, `FinishRemove`, `FinishGet` |
| `solo_add_kv`/`solo_remove_kv` at the peer | `ReceiveRepair`, then `ApplyRepair`; or `LoseRepair` |
| the direct store call of a coordinator repairing itself | `ApplyRepair` with `Local` |

Abstractions: timestamps are numbers, since only their order is observable;
`SyncedClocks` chooses between clocks that agree and always advance, and readings
anywhere in `1..MaxStamp`. The pool is a constant (`LallyMembership` has what
changes it), so `solo_*` find their connection. Each request has one identity and runs at most
once. `logged[n]` is a set: the order of the log is `LallyAof`'s subject. Nodes do
not restart here. A failed call leaves no trace in the loop but a log line, so it
just leaves the set of outstanding tasks. The second half of a `remove` at a
peer, and the end of a handler whose caller is gone, still happen: a handler
without an await is not cut in the middle. A client that disconnects before its
answer is not modelled.

### LallyAof

The file is a sequence of pieces, each a record or a newline, because
`flush_logs` writes them with two `write_all` calls. `Buffered`, `BlockWritten`,
`WrittenDirectly`, `DirectLost`, `BlockLost` and `Refused` are what tokio's
`BufWriter` over a tokio `File` does with a piece (external code; they keep all
choices of when the buffer is full, and of a record that is larger than the buffer).
The `File` writes in the background, so a block, or a record written directly, may be
lost after `write_all` has returned `Ok`; the next operation reports it. `Restart` is
a kill or a shutdown (`exit(0)` flushes nothing) followed by a start from the same
file.

`Replay` (in `LallyReplay`) folds `Read` over the pieces: what lies between two
newlines is one line. A line is split at white space and collected into a `HashMap`,
and nothing is escaped, so a record may read as something else: a value loses all
words but the first; words such as `key=..` or `timestamp=..` in it override the
fields of the record; an unreadable line is ignored. `Reread` is any such reading, a
function of what the client put into the record. Two records on one line are read as
the second with the timestamp of the first (`Glue`): the timestamp is the first field
of a record, so that of the second is glued to the last word of the first, and every
other field of the second comes last.

`ReplayRestoresSerialKeys` says of which keys replay is exact. A record is `Plain` if
it reads as it was written, `Alone` if it has a line of its own, and it `Concerns` the
key it has and the key it reads as. A key is `Legible` if every record of the file that
concerns it is plain and alone. What a record of another key looks like does not matter,
except where it reads as this key. The two ways to be illegible without a failure of
the disk are findings (`aof_values`, `aof_run_together`).

Not modelled: torn pieces (a block is written or lost as a whole), a newline inside a
key or a value (one record would be several lines), and other fields that the first
record of a line might leave to the second.

### LallyMembership

A node and its address are one thing: the code takes the address a call comes from
and puts its own gRPC port to it. `stage[n]` is where the main task of `n` is,
`handler[n]` where the seed is with the join call of `n`, `dial[m][n]` where `m` is
with a `conn_make` of `n`; `leaving` and `goodbye` are the shutdown task, which runs
beside all of them. A process that ends takes its pool, its calls and the calls it
was serving with it; it may start again, with any part of the writes it held (what
replay finds).

| code | actions |
|---|---|
| `main` up to the join | `Start` |
| `Pool::join`: connection to the seed, the call, its answer or failure | `ReachSeed`, `MissSeed`; `JoinAnswered`, `JoinFails`, `LoseJoin` |
| `GrpcServer::join` at the seed: `get_addrs` and `export_store`; `gossip`; the end of `join_all` and the seed's own `conn_make` | `ReadPoolAndStore`; `Gossip`; `GossipOver` |
| `conn_make` in `add_node` and `join`: a hit; the connection; storing it; no answer | `AlreadyPooled`; `Connect`; `StoreChannel`; `Unreachable`, `LoseDial` |
| `bulk_conn_make`: one connection; all of them into the pool, then `import_store` | `Link`, `LoseLink`; `Joined` |
| `leave`; `remove_node` at the others; `exit(0)` | `Leave`; `RemoveNode`, `LoseGoodbye`; `Exit` |
| a kill, or `main` returning before `leave` has ended | `Crash` |
| an ADD and its fan-out over the pool of that moment | `BeginWrite`, `FanOut`, `ServeWrite`, `MissWrite` |
| `solo_add_kv` of a read repair, with its `conn_make` | `BeginRepair`, `RepairDial`, `RepairStoresChannel`, `RepairServed` |

Each write has a key of its own, so stores are sets of writes and `import_store` is
a union; how entries of one key compete is the subject of the other modules.
`get_addrs` and `export_store` are one step: nothing is awaited between them and no
property tells a change between them from one before. A join handler whose
caller ends is dropped, while the `add_node` calls it has made go on; the same
node's next join waits for those. Channels reconnect by themselves, so a pool is a
set of addresses. The history variables record what the properties are relative
to: `reliable` (nobody crashed, no call of a join or leave failed, nobody started a
cluster of their own beside another), `serial` (no join, leave or repair overlapped
another), who was `ready` when a node started, which writes were over by then, and
who ended while still known to others.

### LallyBoot

`stage` follows `main`: `config` (the log file is wiped, replaced or kept), `replay`,
`grpc`, `join`, `import` (key by key), `hook`, `http`, `ready`. `yml` is any lally.yml, and
every start has any command line, which can only add to it. From `join` on, an ADD
and a REMOVE may come from other nodes at any point (`Invoke`, then the store, in
two halves for a REMOVE, as in `LallyAof`). The seed exports any store of `Offers`.
The process may end at every step. The log is what
`LallyAof` makes of it without failures of the disk: records and newlines in the order
of the hook calls (`log`), of which a growing prefix is in the file (`saved`). That
prefix may end between a record and its newline; the next process then appends its
first record to that line, and the start after it replays the line as one
record. `CopyOntoItself` is what `copy` does when `--replay-log` names
the log: it truncates what it is about to read.

Not modelled: servers that fail to bind their port (the gRPC task would end
unnoticed), a missing or unreadable lally.yml, a log file that cannot be read.

## 3. What TLC checks

The instances of `LallyReplication` have one key: operations on different keys share
nothing but the pool. Those of the log have two, since the records of one key may change
another. One ADD, one REMOVE and one GET, or two ADDs and one GET, are the smallest
sets in which a removal, a delayed write or a repair can meet another write.

| run | instance | shows |
|---|---|---|
| `two_nodes` | 2 nodes, quorums 2, ADD + REMOVE + GET, clocks free in 1..2, fairness | `TypeOK`, `Integrity`, `QuorumLogged`, `LoggedUnlessRepaired` hold in every interleaving, including ties of timestamps; `EveryRequestAnswered`, `RepairsEnd` |
| `patient_clients` | 3 nodes, quorums 2, 2 ADDs + GET, clocks agree, a request begins when nothing is under way | `StatusReflectsQuorum`, `QuorumReadFreshness`, `ReadRepairConverges` |
| `aof` | 2 keys, 2 ADDs + REMOVE, 1 disk failure, 1 restart, fairness of the flusher | `TypeOK`, `ImplementsDurableLog`, `ReplayRestoresSerialKeys`, `RecordsLeaveMemory` |
| `membership` | 3 nodes, two of which have the third as seed, 1 write, 1 repair, 1 leave or crash or lost call (`MaxEvents`), fairness | `TypeOK`, `SerialChangesAgree`, `KnowsThoseBefore`, `JoinBringsSettledWrites`, `OwnPeerOnlyIfRecalled`, `ChangesEnd` |
| `boot` | 2 keys, 1 ADD + 1 REMOVE, clocks free in 1..2, 3 starts, a backup of one record, a seed with nothing, an old or a newer entry, or a tombstone | `TypeOK`, `UnloggedOnlyFromBoot`, `JoinTakesNewest`, `SavedSurvives` |

What the membership properties say together: if changes never overlap, every pool
is complete and exact; if they do, a node still knows, and is known by, everybody
who was ready before it started, and has every write that was over then. What a
node may miss is exactly what goes on while it joins: other nodes that join, and
writes. A node becomes its own peer, which breaks the counting of votes
(`QuorumLogged` below), only if it ended while others had its address.
`JoinBringsSettledWrites` is about clusters with one seed for all: a chain of seeds
does not have it, since a seed may itself have missed a write while it joined.

Two joiners and the seed are the smallest cluster in which joins overlap at the
seed and a third node is gossiped to; one leave or crash lets a node come back to
pools that remember it, and with the repair put an address back after its removal.
Three starts are what a run-together line takes: the first saves a record without its
newline, the second appends to it, the third replays the line. The second key is one
the seed does not have.

Three nodes are what it takes for a quorum of two to be reached while a call is
still under way. One restart is enough for records of two processes to meet in
one file and on one line, one failure for an error that is reported late. In `aof` every
record reads as it was written; `aof_values` has one that does not, and the theorem any.
Symmetry is used for nodes, values, ADDs and GETs in runs without liveness only.

Seven runs are expected to fail; each is a place where the code does not do what
the repository says of it ("findings" in `PROJECT.json`).

| run | property | what happens |
|---|---|---|
| `quorum_of_one` | `StatusReflectsQuorum` | with the default quorum of 1, an ADD that a peer answers is `partial`, 2 votes of 1 |
| `removal_undone` | `RemovalNotUndone` | a GET that finds a node the REMOVE missed spreads the removed value again, since `get` hides tombstones |
| `sequential_clients` | `QuorumReadFreshness` | a call of an older ADD is served late and overwrites a newer successful ADD |
| `repair_overwrites` | `RepairNeverOverwritesNewer` | a repair of an answered GET is applied after a newer ADD and replaces it |
| `aof_values` | `SerialValuesRestored` | a value of two words is restored as the first |
| `aof_run_together` | `SerialValuesRestored` | a restart between a record and its newline: the next replay loses the record, though no write failed |
| `concurrent_joins` | `NodesListsTheOthers` | two nodes that join at the same time never learn of each other, and `GET /nodes` misses one |

`sequential_clients` and `repair_overwrites` differ from `patient_clients` only in the
clients: waiting for the answer of a request is not enough, since its calls and its
repairs go on. `RepairNeverOverwritesNewer` is not a property of patient clients, who
rule out by themselves the write between the read of a GET and its repair.

The other limits are in the properties themselves, which say what holds short of them:
a coordinator's repair of its own store is in no log (`LoggedUnlessRepaired`);
overlapping writes of a key may be logged in one order and stored in the other
(`overlapped` in `ReplayRestoresSerialKeys`); two writes with one timestamp are equal to
read repair (`SyncedClocks` for `ReadRepairConverges`); a node that leaves while others
connect to it stays in their pools (`serial` in `SerialChangesAgree`); and replay forgets
removals, so that a join may bring back what was removed before (`replayed` in
`JoinTakesNewest`).

### Fairness

`LallyReplication`: weak fairness of "some request takes a step" (tokio polls what can go
on, and a request has finitely many steps), which includes the end of each gRPC call, by
an answer or an error. The latter is an assumption: the code sets no deadline, so a peer
that accepts a connection and never answers would block a request whose quorum
is not reached without it. No fairness for clients or for the success of a call.
`LallyAof`: weak fairness of the flusher task only (its interval keeps ticking
and its file operations end).
`LallyMembership`: weak fairness of "some task of a join or a leave takes a step":
every connection attempt and every call ends, as above by assumption, and tokio
polls what can go on. Operators, clients, crashes and lost calls owe nothing.
Requests, joins and leaves are finitely many, so the liveness properties say "again and
again nothing is waiting", which is the same as "whoever waits is answered" and much
cheaper to check. `LallyBoot` has no liveness property: a start is a straight line, whose
one wait, for the answer to the join, has no deadline.

## 4. What TLAPS proves

Every invariant and every action property that a passing run checks is also a
theorem, for any number of nodes, keys, values and requests, any pools and seeds,
any quorums and any readings of the clocks, under the assumptions on constants that
the modules name (`NoneAssumption`, `NodeAssumption`, `RequestAssumption`,
`QuorumAssumption`, `ClockAssumption`, `ReplayAssumption`, `AofAssumption`,
`MembershipAssumption`, `BootAssumption`; TLC evaluates all of them). The refinement
of `DurableLog` is proved as well. The bounds of the runs are parameters there: a
theorem holds for every value of `MaxStamp`, `MaxFailures`, `MaxRestarts`, `MaxEvents`,
`MaxRepairs` and `MaxStarts`.

| module | theorem | property | if |
|---|---|---|---|
| `LallyReplicationProofs` | `TypeCorrect` | `TypeOK` | |
| | `IntegrityHolds` | `Integrity` | |
| | `StatusReflectsQuorumHolds` | `StatusReflectsQuorum` | both quorums are at least 2 |
| `LallyReplicationLogProofs` | `LoggedUnlessRepairedHolds` | `LoggedUnlessRepaired` | |
| | `QuorumLoggedHolds` | `QuorumLogged` | no node is in its own pool |
| `LallyRealTimeProofs` | `ReadRepairConvergesHolds` | `ReadRepairConverges` | clocks agree |
| | `QuorumReadFreshnessHolds` | `QuorumReadFreshness` | clocks agree, no node is in its own pool |
| `LallyMembershipProofs` | `TypeCorrect` | `TypeOK` | |
| | `OwnPeerOnlyIfRecalledHolds` | `OwnPeerOnlyIfRecalled` | chains of seeds end |
| | `SerialChangesAgreeHolds` | `SerialChangesAgree` | |
| `LallyMembershipJoinProofs` | `KnowsThoseBeforeHolds` | `KnowsThoseBefore` | one seed for all |
| | `JoinBringsSettledWritesHolds` | `JoinBringsSettledWrites` | one seed for all |
| `LallyAofProofs` | `TypeCorrect` | `TypeOK` | |
| | `DurableLogImplemented` | `ImplementsDurableLog` | |
| | `ReplayRestoresSerialKeysHolds` | `ReplayRestoresSerialKeys` | |
| `LallyBootProofs` | `TypeCorrect` | `TypeOK` | |
| | `UnloggedOnlyFromBootHolds` | `UnloggedOnlyFromBoot` | |
| | `JoinTakesNewestHolds` | `JoinTakesNewest` | |
| | `SavedSurvivesHolds` | `SavedSurvives` | |

The theorems of `LallyRealTimeProofs` are about `PatientSpec`, all others about `Spec`.
The hypotheses of the last column are those under which the runs check the property,
or weaker ones, and they are needed:

* With a quorum of 1, `StatusReflectsQuorum` is false: `quorum_of_one` is the
  counterexample, since `get_kv` and the like compare votes with `quorum - 1` by `==`.
* A node in its own pool votes twice. The code does not exclude that after a crash
  and a rejoin; `OwnPeerOnlyIfRecalled` says that it is the only way.
* Without clocks that agree, the newest write may have an old timestamp, or two writes
  the same one.
* Two nodes that are each other's seeds, or a ring of them, may learn their own
  addresses from each other. `rank` is any numbering that decreases from a node to its
  seed, which exists exactly if no chain of seeds returns to where it was.
* In a chain of seeds, a node may join through one that has itself missed a write or
  a node while it joined (section 3).

### The arguments

**`LallyReplication`.** `Integrity` is not inductive: an entry may come from a repair,
which took it from an answer, which was read from a store. `Wellformed` follows that
circle: besides `TypeOK` it says that the operation of a request is of the request's
kind, that a request that has not begun has left no trace, that every answer read so
far, and every answer a repair spreads, is a write some client issued, and that a
`remove` that has found its key has a value. `Ledger` builds on it for the hooks: a
call that is past its first step is in the callee's log, only nodes of the pool are
called, a repair that is past its hook is logged, and an answered request was
answered with the votes it still has. `StatusReflectsQuorum` needs a bound on the
votes a request may collect before the loop ends.

**`LallyRealTime`.** `Calm` is what patience gives, whatever the clocks: at most one
request has anything under way (`OneActive`), so what a GET has read is what it would
read now (`ReadsCurrent`), and a repair under way is at least as new as what it will
replace (`RepairsNewer`). `Timely` adds the clocks: the request under way has the
newest timestamp (`Ordered`); a node that has answered an ADD keeps it or a newer
entry, unless a later REMOVE began (`AddsHeld`); and once a GET is answered, whoever
answered it reports the newest answer or has a repair coming or lost (`Repairing`).
Freshness is then an intersection of two quorums.

**`LallyMembership`.** For `OwnPeerOnlyIfRecalled` the invariant `AddressesDescend`
says where the address of a node can be that nobody remembered when it ended:
before its seed has called anybody on its behalf, only its descendants in the tree
of seeds may know it, and never itself. For `SerialChangesAgree`, `Orderly` describes a
cluster in which one change goes on at a time: how far a newcomer has come with the
others (`Newcomer`), which connections are being made for it (`DialsWanted`), and whom a
leaving node has taken leave of (`TakenLeave`). For overlapping joins, `Dependable` says
what the root has for everybody: `RootKnows` and `RootKnown` the nodes, `RootHolds` the
writes; `MetAcquainted` how far a node and those it must come to know have come with
each other, handler step by handler step; `Carried` where the writes that were over
when a node started are on their way to it.

**`LallyBoot`.** `Booted` says, stage by stage, what `main` has not done yet (`Staged`);
that a write under way is in the log or came before the hook (`Tasks`); and how far the
import of each key nobody writes has come (`Imported`). That replay puts nothing into
the store that is not in the log is `ReplaySourced`, a lemma about the fold: every entry
it leaves is made by a record, as its line reads, with the timestamp of the first record
of that line. The log only grows at its end between starts, so the line an entry came from
may grow too, but what the entry was read from stays where it was (`StaysInLog`).

**`LallyAof`.** `Sound` are the types, with what `Stamp` needs to be a number. The
refinement shows for every step that the records of the file, of the buffer and of
the queue, one after another, make a step of `DurableLog` or none: popping and writing
move records along, a full buffer saves them, `Restart` cuts off what was not in the
file, and only a failed disk cuts out anything else. For `ReplayRestoresSerialKeys`,
`Described` ties that log to the store, key by key and while the disk has not failed:
for a key that is `Clear` (its writes did not overlap, what the file says of it is
legible, and its records in the buffer and in the queue are plain), replaying all of the
log record by record gives what the store has of it; while a request for the key is under
way, it gives what the store is going to have. That holds before anything is flushed and
is what makes it inductive, since the property itself speaks only of a flushed file. What
is left to show is that a file in which a key is legible is read, as far as that key is
concerned, record by record (`LegibleRead`), whatever the lines of other keys are.

Folds and recursive functions need induction over data. The induction theorems of
the library take an operator as a parameter, which the provers cannot instantiate;
`LallyReplayProofs` states induction over a set of numbers and over a set of sequences
instead (`Induction`, `SequenceInduction`), and gets from them what holds for a file of any length: one more piece is one more step
of replay (`ReadOneMore`), one more record one more step of the fold over records
(`ReplayOneMore`), and every entry replay leaves comes from a line of the file
(`ReplaySourced`).

### Only model-checked

The liveness properties, which are out of the prover's reach (fairness, ENABLED):
`EveryRequestAnswered`, `RepairsEnd`, `RecordsLeaveMemory` and `ChangesEnd`.
What the seven runs that are expected to fail show is a counterexample each, and
nothing to prove.

## 5. Plan

1. Done: all modules above, their runs, and the proof of every invariant and action
   property the passing runs check.
2. An abstract specification of a replicated write (a set of nodes that have
   logged it, growing; an acknowledgement when a quorum has) that
   `LallyReplication` refines, by proof.

## 6. Not modelled

The RFC 3339 conversions of timestamps; the characters of the log records (what a line
reads as is a constant, any function of the record's content; newlines inside a key or a
value are left out); parsing of lally.yml and the command line;
servers that cannot bind their ports; HTTP clients that disconnect; build,
packaging and CI. The growth of the unbounded log queue under writes that outrun
the disk is a hazard no bounded instance shows. Quorums of 0 have no documented
meaning and no run, though `Minus1` has their arithmetic.
