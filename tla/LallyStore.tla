----------------------------- MODULE LallyStore -----------------------------
(***************************************************************************)
(* The in-memory store of one Lally node, as pure operators on its map     *)
(* (src/lally/store.rs).  A store maps every key to None (the map has no   *)
(* such key) or to the tuple (value, timestamp, valid) the code keeps; an  *)
(* entry whose `valid' flag is FALSE is a tombstone left by REMOVE.        *)
(*                                                                         *)
(* A timestamp is a natural number: the code only ever compares two of     *)
(* them (compare_timestamps), so nothing but their order is observable.    *)
(***************************************************************************)
EXTENDS Naturals

CONSTANTS Key,    \* the keys
          Value,  \* the values clients store
          None    \* Rust's None: no entry, no value, no timestamp

Entry == [value : Value, timestamp : Nat, valid : BOOLEAN]

Store == [Key -> Entry \cup {None}]

EmptyStore == [k \in Key |-> None]

(***************************************************************************)
(* utils::Operation without its constant `level' field.  Only an ADD has a *)
(* value: the optional value of a REMOVE or GET payload is carried along   *)
(* by the code but read by nothing.                                        *)
(***************************************************************************)
Operation == [name : {"ADD"}, key : Key, value : Value, timestamp : Nat]
             \cup [name : {"REMOVE", "GET"}, key : Key, value : {None}, timestamp : Nat]

ASSUME NoneAssumption == /\ None \notin Value
                         /\ None \notin Nat
                         /\ None \notin Entry
                         /\ None \notin Operation

\* What `get' reports: the value and the timestamp of a live entry, or neither.
Response == [value : Value \cup {None}, timestamp : Nat \cup {None}]

NotFound == [value |-> None, timestamp |-> None]

-----------------------------------------------------------------------------
\* The key is present and is not a tombstone.
Live(s, k) == s[k] # None /\ s[k].valid

\* Store::add overwrites the entry whatever its timestamp is.
Add(s, operation) ==
    [s EXCEPT ![operation.key] = [value     |-> operation.value,
                                  timestamp |-> operation.timestamp,
                                  valid     |-> TRUE]]

\* Mutant of Bury: the tombstone takes the value of the REMOVE's own payload.
BuryPayload(s, operation, clonedValue) ==
    [s EXCEPT ![operation.key] = [value     |-> operation.value,
                                  timestamp |-> operation.timestamp,
                                  valid     |-> FALSE]]

(***************************************************************************)
(* The second half of Store::remove.  The first half has found the key     *)
(* live and cloned its value; this half writes the tombstone over whatever *)
(* entry is there by now.                                                  *)
(***************************************************************************)
Bury(s, operation, clonedValue) ==
    [s EXCEPT ![operation.key] = [value     |-> clonedValue,
                                  timestamp |-> operation.timestamp,
                                  valid     |-> FALSE]]

\* The keys Store::export_store sends, each with its entry, tombstones included.
Exported(s) == {k \in Key : s[k] # None}

\* Mutant of Import: the data of the seed replaces what replay has restored.
ImportBlindly(s, k, data) == [s EXCEPT ![k] = data]

(***************************************************************************)
(* One key of Store::import_store: the entry the seed has exported, value, *)
(* timestamp and flag, replaces an older one.                              *)
(***************************************************************************)
Import(s, k, data) ==
    IF s[k] # None /\ s[k].timestamp >= data.timestamp THEN s
                                                       ELSE [s EXCEPT ![k] = data]

\* Store::get: a tombstone is reported exactly like an absent key.
Get(s, k) ==
    IF Live(s, k) THEN [value |-> s[k].value, timestamp |-> s[k].timestamp]
                  ELSE NotFound

=============================================================================
