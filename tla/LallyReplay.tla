----------------------------- MODULE LallyReplay -----------------------------
(***************************************************************************)
(* What replaying the append-only file does to the store                   *)
(* (Store::replay_aof in src/lally/store.rs, parse_aof_log in              *)
(* src/utils.rs).                                                          *)
(*                                                                         *)
(* A record and the newline after it are two writes (src/hooks/aof.rs), so *)
(* the file is a sequence of pieces, each an Operation or NewLine.  Lines  *)
(* are split at white space and escape nothing: a key or a value may read  *)
(* back as another one, hold a field of its own that overrides one of the  *)
(* record (` key=', ` operation=', ` timestamp='), or make the line        *)
(* unreadable.  The constant Reread is any such reading.  What it cannot   *)
(* say is that one record reads as several: of a key or value with a       *)
(* newline in it, only one line counts.                                    *)
(***************************************************************************)
EXTENDS LallyStore, SequencesExt

CONSTANTS NewLine,  \* the piece that ends a record
          Reread    \* Reread[c]: what the line of a record with content c says

Piece == Operation \cup {NewLine}

\* What a client puts into a record; the timestamp is the server's.
Content == [name : {"ADD", "REMOVE", "GET"}, key : Key, value : Value \cup {None}]

\* What a line may say; without a timestamp of its own, it has the record's.
Said == [name : {"ADD"}, key : Key, value : Value, timestamp : Nat \cup {None}]
        \cup [name : {"REMOVE"}, key : Key, value : {None}, timestamp : Nat \cup {None}]

\* None is a line that replay ignores.
ASSUME ReplayAssumption == /\ NewLine \notin Operation
                           /\ Reread \in [Content -> Said \cup {None}]

ContentOf(operation) ==
    [name |-> operation.name, key |-> operation.key, value |-> operation.value]

-----------------------------------------------------------------------------
\* parse_aof_log, and the match on the name of the operation.
Parse(operation) ==
    LET said == Reread[ContentOf(operation)]
    IN  IF said = None \/ said.timestamp # None THEN said
        ELSE [said EXCEPT !.timestamp = operation.timestamp]

\* Mutant of Replayed: a replayed REMOVE leaves a tombstone, but has no value.
ReplayedAsTombstone(s, operation) ==
    LET said == Parse(operation)
    IN  IF said = None THEN s
        ELSE IF said.name = "ADD" THEN Add(s, said)
        ELSE Bury(s, said, said.value)

\* Mutant of Replayed: replay inserts an entry only if the key has none.
ReplayedFirst(s, operation) ==
    LET said == Parse(operation)
    IN  IF said = None \/ (said.name = "ADD" /\ s[said.key] # None) THEN s
        ELSE IF said.name = "ADD" THEN Add(s, said)
        ELSE [s EXCEPT ![said.key] = None]

\* One line: an ADD overwrites the entry, a REMOVE deletes it for good.
Replayed(s, operation) ==
    LET said == Parse(operation)
    IN  IF said = None THEN s
        ELSE IF said.name = "ADD" THEN Add(s, said)
        ELSE [s EXCEPT ![said.key] = None]

(***************************************************************************)
(* parse_aof_log keeps the last value of every field of a line.  When the  *)
(* newline between two records is missing, the timestamp of the second is  *)
(* glued to the last field of the first and is lost.  What else the fields *)
(* of the first leave to such a line, if it holds any, is left out.        *)
(***************************************************************************)
Glue(line, operation) ==
    IF line = None THEN operation
                   ELSE [operation EXCEPT !.timestamp = line.timestamp]

\* Replay has read a line up to piece p; a newline ends the line.
Read(acc, p) ==
    IF p # NewLine THEN [acc EXCEPT !.line = Glue(@, p)]
    ELSE IF acc.line = None THEN acc
    ELSE [line |-> None, store |-> Replayed(acc.store, acc.line)]

Replay(pieces) ==
    LET end == FoldLeft(Read, [line |-> None, store |-> EmptyStore], pieces)
    IN  IF end.line = None THEN end.store ELSE Replayed(end.store, end.line)

=============================================================================
