------------------------------- MODULE MCBoot -------------------------------
(***************************************************************************)
(* TLC instances of LallyBoot: a seed with nothing, with an old entry, a   *)
(* newer one or a tombstone, and a backup of one record.                   *)
(***************************************************************************)
EXTENDS LallyBoot

CONSTANTS Shared,  \* the key the backup and the seed have
          Common   \* its value there

OneRecord == <<[name |-> "ADD", key |-> Shared, value |-> Common, timestamp |-> 1], NewLine>>

With(timestamp, valid) ==
    [EmptyStore EXCEPT ![Shared] =
        [value |-> Common, timestamp |-> timestamp, valid |-> valid]]

SeedStores == {EmptyStore, With(1, TRUE), With(2, TRUE), With(2, FALSE)}

\* Every record reads as it was written.
PlainRecords ==
    [c \in Content |->
        IF c.name = "GET" \/ (c.name = "ADD") # (c.value \in Value) THEN None
        ELSE [name |-> c.name, key |-> c.key, value |-> c.value, timestamp |-> None]]

=============================================================================
