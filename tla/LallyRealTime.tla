---------------------------- MODULE LallyRealTime ----------------------------
(***************************************************************************)
(* What a client can rely on across requests: LallyReplication with a      *)
(* history variable that relates the requests in real time, and two ways   *)
(* of restricting the clients.                                             *)
(*                                                                         *)
(* Sequential clients wait for the answer of a request before they begin   *)
(* the next one.  The coordinator of an answered request may still have    *)
(* calls and repairs under way: the pool returns on the last vote it needs *)
(* (src/lally/pool.rs) and get_kv spawns its repairs without awaiting them *)
(* (src/http_server.rs).  Patient clients wait until these are over, too.  *)
(***************************************************************************)
EXTENDS LallyReplication

VARIABLE after   \* after[o]: the requests that were answered when o began

historyVars == <<vars, after>>

Answered == {o \in Request : phase[o] = "done"}

Begins(o) == phase[o] = "new" /\ phase'[o] # "new"

RealTimeInit == Init /\ after = [o \in Request |-> {}]

RealTimeNext ==
    /\ Next
    /\ after' = [o \in Request |-> IF Begins(o) THEN Answered ELSE after[o]]

AllAnswered == Answered = Begun

AllSettled == \A o \in Request : Settled(o)

SequentialSpec ==
    RealTimeInit
    /\ [][RealTimeNext /\ ((\E o \in Request : Begins(o)) => AllAnswered)]_historyVars

PatientSpec ==
    RealTimeInit
    /\ [][RealTimeNext /\ ((\E o \in Request : Begins(o)) => AllSettled)]_historyVars

-----------------------------------------------------------------------------
Succeeded(o) == reply[o] # None /\ reply[o].status = "success"

SameKey(o, p) == op[o].key = op[p].key

Intersecting == ReadQuorum + WriteQuorum > Cardinality(Node)

RemovedLater(a) ==
    \E d \in Removes \cap Begun : SameKey(d, a) /\ op[a].timestamp < op[d].timestamp

(***************************************************************************)
(* Quorum reads (README.md: GET fetches the latest value).  When the two   *)
(* quorums intersect, a GET answered with `success' finds an entry at      *)
(* least as new as every ADD of its key that was answered with `success'   *)
(* before the GET began, unless a later REMOVE of the key was begun.       *)
(***************************************************************************)
QuorumReadFreshness ==
    Intersecting =>
        \A g \in Gets : \A a \in after[g] \cap Adds :
            /\ Succeeded(g) /\ Succeeded(a)
            /\ SameKey(g, a) /\ ~RemovedLater(a)
            => /\ reply[g].timestamp # None
               /\ op[a].timestamp <= reply[g].timestamp

(***************************************************************************)
(* Read repair brings the responders of a GET together: once its repairs   *)
(* have ended without a lost call and before anything else begins, the     *)
(* coordinator and every node that answered it report the same entry       *)
(* (src/http_server.rs get_kv).                                            *)
(***************************************************************************)
RepairedBy(g) ==
    /\ phase[g] = "done"
    /\ Begun = after[g] \cup {g}
    /\ \A r \in Responder : repair[g][r] \in {"none", "done"}

ReadRepairConverges ==
    \A g \in Gets : RepairedBy(g) /\ AllSettled =>
        \A r, s \in Responders(g) :
            Get(store[Site(g, r)], op[g].key) = Get(store[Site(g, s)], op[g].key)

(***************************************************************************)
(* What the README says of read repair, which "resolves stale or outdated  *)
(* data": no repair is about to replace a live entry by an older one.      *)
(* get_kv spawns the repairs and answers; store.add, which they all end    *)
(* in, compares no timestamps.                                             *)
(***************************************************************************)
RepairNeverOverwritesNewer ==
    \A g \in Gets, r \in Responder :
        LET entry == store[Site(g, r)][op[g].key]
        IN  /\ repair[g][r] = IF r = Local THEN "sent" ELSE "ready"
            /\ entry # None /\ entry.valid
            => entry.timestamp <= latest[g].timestamp

(***************************************************************************)
(* A removal stays removed: a GET that begins after a REMOVE was answered  *)
(* with `success' does not find an entry older than the removal.  The      *)
(* repair of get_kv means to ensure that: an answer without a value is to  *)
(* say that the latest operation was a REMOVE, to be spread like an ADD.   *)
(***************************************************************************)
RemovalNotUndone ==
    Intersecting =>
        \A g \in Gets : \A d \in after[g] \cap Removes :
            /\ Succeeded(g) /\ Succeeded(d)
            /\ SameKey(g, d) /\ IsRemoved(d)
            /\ reply[g].value # None
            => op[d].timestamp < reply[g].timestamp

=============================================================================
