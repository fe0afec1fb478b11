------------------------------- MODULE MCAof -------------------------------
(***************************************************************************)
(* TLC instances of LallyAof: what the line of a record reads as.          *)
(***************************************************************************)
EXTENDS LallyAof

CONSTANTS Word,  \* a value of one word
          Words  \* a value of several words, which begins with that word

\* A record of one-word values is read as it was written.
Plainly(c) ==
    IF c.name = "GET" \/ (c.name = "ADD") # (c.value \in Value) THEN None
    ELSE [name |-> c.name, key |-> c.key, value |-> c.value, timestamp |-> None]

PlainRecords == [c \in Content |-> Plainly(c)]

\* Of several words only the first is read.
FirstWord == [c \in Content |-> Plainly([c EXCEPT !.value = IF @ = Words THEN Word ELSE @])]

=============================================================================
