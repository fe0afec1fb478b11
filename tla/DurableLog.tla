----------------------------- MODULE DurableLog -----------------------------
(***************************************************************************)
(* What the append-only file of a Lally node promises: a log that keeps    *)
(* the order in which records were appended, of which a growing prefix is  *)
(* saved.  A crash cuts the log back to what is saved.  Records that are   *)
(* not saved can be lost otherwise only if the disk has failed.            *)
(***************************************************************************)
EXTENDS Naturals, Sequences

CONSTANT Record

VARIABLES log,     \* the records, oldest first
          saved,   \* how many of them are saved
          healthy  \* the disk has never failed

vars == <<log, saved, healthy>>

Init == log = <<>> /\ saved = 0 /\ healthy = TRUE

AppendRecord ==
    /\ log' # <<>> /\ log'[Len(log')] \in Record
    /\ log' = Append(log, log'[Len(log')])
    /\ UNCHANGED <<saved, healthy>>

Save == saved' \in (saved + 1)..Len(log) /\ UNCHANGED <<log, healthy>>

Crash == log' = SubSeq(log, 1, saved) /\ UNCHANGED <<saved, healthy>>

(***************************************************************************)
(* The disk has failed: consecutive records that were not saved, if any,   *)
(* are gone.  What was before them may have been saved by the same step.   *)
(***************************************************************************)
Lose ==
    /\ healthy' = FALSE
    /\ \E i \in (saved + 1)..(Len(log) + 1) : \E j \in (i - 1)..Len(log) :
           /\ log' = SubSeq(log, 1, i - 1) \o SubSeq(log, j + 1, Len(log))
           /\ saved' \in saved..(i - 1)

Next == AppendRecord \/ Save \/ Crash \/ Lose

Spec == Init /\ [][Next]_vars

=============================================================================
