--------------------------- MODULE LallyAofProofs ---------------------------
(***************************************************************************)
(* Proofs about LallyAof, for any requests, keys and values and any number *)
(* of failures and restarts: its types, that it implements DurableLog, and *)
(* that replaying a flushed log restores every key that is written         *)
(* serially and legible.                                                   *)
(***************************************************************************)
EXTENDS LallyAof, LallyReplayProofs, FiniteSetTheorems

-----------------------------------------------------------------------------
(***************************************************************************)
(* The records among pieces                                                *)
(***************************************************************************)
\* f collects the records of the first n pieces.
Collects(pieces, n, f) ==
    f = [i \in 0..n |-> IF i = 0 THEN <<>>
                        ELSE IF IsRecord(pieces[i]) THEN Append(f[i - 1], pieces[i])
                        ELSE f[i - 1]]

Collectable(pieces, n) == \E f : Collects(pieces, n, f)

LEMMA CollectExists ==
    ASSUME NEW pieces, NEW n \in Nat
    PROVE  Collectable(pieces, n)
<1>. DEFINE S == {m \in Nat : Collectable(pieces, m)}
<1>1. 0 \in S
  <2>1. Collects(pieces, 0, [i \in 0..0 |-> <<>>])
    BY DEF Collects
  <2>. QED
    BY <2>1 DEF Collectable
<1>2. ASSUME NEW m \in Nat, m \in S PROVE m + 1 \in S
  <2>1. PICK f : Collects(pieces, m, f)
    BY <1>2 DEF Collectable
  <2>. DEFINE g == [i \in 0..m + 1 |->
                       IF i # m + 1 THEN f[i]
                       ELSE IF IsRecord(pieces[i]) THEN Append(f[m], pieces[i]) ELSE f[m]]
  <2>2. \A i \in 0..m : g[i] = f[i]
    OBVIOUS
  <2>3. ASSUME NEW i \in 0..m + 1
        PROVE  g[i] = IF i = 0 THEN <<>>
                      ELSE IF IsRecord(pieces[i]) THEN Append(g[i - 1], pieces[i])
                      ELSE g[i - 1]
    <3>1. CASE i \in 0..m
      <4>1. f[i] = IF i = 0 THEN <<>>
                   ELSE IF IsRecord(pieces[i]) THEN Append(f[i - 1], pieces[i]) ELSE f[i - 1]
        BY <2>1, <3>1 DEF Collects
      <4>2. i # 0 => g[i - 1] = f[i - 1]
        BY <2>2, <3>1
      <4>. QED
        BY <2>2, <3>1, <4>1, <4>2
    <3>2. CASE i = m + 1
      <4>1. i # 0 /\ i - 1 = m /\ g[m] = f[m]
        BY <2>2, <3>2
      <4>. QED
        BY <3>2, <4>1
    <3>. QED
      BY <3>1, <3>2
  <2>4. g = [i \in 0..m + 1 |-> g[i]]
    OBVIOUS
  <2>. HIDE DEF g
  <2>5. Collects(pieces, m + 1, g)
    BY <2>3, <2>4 DEF Collects
  <2>. QED
    BY <2>5 DEF Collectable
<1>. HIDE DEF S
<1>3. Nat \subseteq S
  BY <1>1, <1>2, Induction
<1>. QED
  BY <1>3 DEF S

LEMMA RecordsCollected ==
    ASSUME NEW pieces \in Seq(Piece)
    PROVE  \E f : Collects(pieces, Len(pieces), f) /\ Records(pieces) = f[Len(pieces)]
<1>1. \E f : Collects(pieces, Len(pieces), f)
  BY CollectExists DEF Collectable
<1>. QED
  BY <1>1 DEF Records, Collects

LEMMA RecordsNothing == Records(<<>>) = <<>>
<1>1. <<>> \in Seq(Piece) /\ Len(<<>>) = 0 /\ 0 \in 0..0
  OBVIOUS
<1>2. PICK f : Collects(<<>>, 0, f) /\ Records(<<>>) = f[0]
  BY <1>1, RecordsCollected
<1>. QED
  BY <1>1, <1>2 DEF Collects

LEMMA RecordsOneMore ==
    ASSUME NEW pieces \in Seq(Piece), NEW p \in Piece
    PROVE  Records(Append(pieces, p)) = IF IsRecord(p) THEN Append(Records(pieces), p)
                                                       ELSE Records(pieces)
<1>. DEFINE n    == Len(pieces)
            more == Append(pieces, p)
<1>1. /\ more \in Seq(Piece) /\ Len(more) = n + 1 /\ n \in Nat /\ more[n + 1] = p
      /\ \A i \in 1..n : more[i] = pieces[i]
  OBVIOUS
<1>. HIDE DEF n, more
<1>2. PICK f : Collects(pieces, n, f) /\ Records(pieces) = f[n]
  BY RecordsCollected DEF n
<1>3. PICK g : Collects(more, n + 1, g) /\ Records(more) = g[n + 1]
  BY <1>1, RecordsCollected
<1>. DEFINE S == {i \in Nat : i <= n => f[i] = g[i]}
<1>4. 0 \in S
  <2>1. 0 \in 0..n /\ 0 \in 0..n + 1
    BY <1>1
  <2>. QED
    BY <1>2, <1>3, <2>1 DEF Collects
<1>5. ASSUME NEW i \in Nat, i \in S PROVE i + 1 \in S
  <2>. SUFFICES ASSUME i + 1 <= n PROVE f[i + 1] = g[i + 1]
    OBVIOUS
  <2>1. i + 1 \in 0..n /\ i + 1 \in 0..n + 1 /\ i + 1 # 0 /\ (i + 1) - 1 = i /\ i + 1 \in 1..n
    BY <1>1
  <2>2. f[i] = g[i]
    BY <1>1, <1>5
  <2>3. f[i + 1] = IF IsRecord(pieces[i + 1]) THEN Append(f[i], pieces[i + 1]) ELSE f[i]
    BY <1>2, <2>1 DEF Collects
  <2>4. g[i + 1] = IF IsRecord(more[i + 1]) THEN Append(g[i], more[i + 1]) ELSE g[i]
    BY <1>3, <2>1 DEF Collects
  <2>. QED
    BY <1>1, <2>1, <2>2, <2>3, <2>4
<1>. HIDE DEF S
<1>6. Nat \subseteq S
  BY <1>4, <1>5, Induction
<1>7. f[n] = g[n]
  BY <1>1, <1>6 DEF S
<1>8. n + 1 \in 0..n + 1 /\ n + 1 # 0 /\ (n + 1) - 1 = n
  BY <1>1
<1>9. g[n + 1] = IF IsRecord(more[n + 1]) THEN Append(g[n], more[n + 1]) ELSE g[n]
  BY <1>3, <1>8 DEF Collects
<1>. QED
  BY <1>1, <1>2, <1>3, <1>7, <1>9 DEF more

LEMMA RecordsType ==
    ASSUME NEW pieces \in Seq(Piece)
    PROVE  Records(pieces) \in Seq(Operation)
<1>. DEFINE S == {s \in Seq(Piece) : Records(s) \in Seq(Operation)}
<1>1. <<>> \in S
  BY RecordsNothing, EmptySeq
<1>2. ASSUME NEW s \in Seq(Piece), NEW p \in Piece, s \in S PROVE Append(s, p) \in S
  <2>1. IsRecord(p) => p \in Operation
    BY DEF IsRecord, Piece
  <2>2. Records(Append(s, p)) = IF IsRecord(p) THEN Append(Records(s), p) ELSE Records(s)
    BY RecordsOneMore
  <2>3. IsRecord(p) => Append(Records(s), p) \in Seq(Operation)
    BY <1>2, <2>1, AppendProperties
  <2>4. Append(s, p) \in Seq(Piece)
    BY AppendProperties
  <2>. QED
    BY <1>2, <2>2, <2>3, <2>4
<1>. HIDE DEF S
<1>3. Seq(Piece) \subseteq S
  BY <1>1, <1>2, SequenceInduction
<1>. QED
  BY <1>3 DEF S

\* To append to the second of two sequences is to append to both.
AppendShifts(u, v, e) == Append(u \o v, e) = u \o Append(v, e)

LEMMA AppendLemma ==
    \A u, v \in Seq(Operation) : \A e \in Operation : AppendShifts(u, v, e)
<1>1. ASSUME NEW u \in Seq(Operation), NEW v \in Seq(Operation), NEW e \in Operation
      PROVE  Append(u \o v, e) = u \o Append(v, e)
  OBVIOUS
<1>. QED
  BY <1>1 DEF AppendShifts

LEMMA RecordsConcat ==
    ASSUME NEW r \in Seq(Piece), NEW t \in Seq(Piece)
    PROVE  Records(r \o t) = Records(r) \o Records(t)
<1>. DEFINE S == {s \in Seq(Piece) : Records(r \o s) = Records(r) \o Records(s)}
<1>1. <<>> \in S
  BY RecordsNothing, EmptySeq, RecordsType, ConcatEmptySeq
<1>2. ASSUME NEW s \in Seq(Piece), NEW p \in Piece, s \in S PROVE Append(s, p) \in S
  <2>1. r \o Append(s, p) = Append(r \o s, p) /\ Append(s, p) \in Seq(Piece) /\ r \o s \in Seq(Piece)
    OBVIOUS
  <2>2. Records(r \o Append(s, p)) = IF IsRecord(p) THEN Append(Records(r \o s), p)
                                                    ELSE Records(r \o s)
    BY <2>1, RecordsOneMore
  <2>3. Records(Append(s, p)) = IF IsRecord(p) THEN Append(Records(s), p) ELSE Records(s)
    BY RecordsOneMore
  <2>4. /\ Records(r) \in Seq(Operation) /\ Records(s) \in Seq(Operation)
        /\ IsRecord(p) => p \in Operation
    BY RecordsType DEF IsRecord, Piece
  <2>5. ASSUME IsRecord(p)
        PROVE  Append(Records(r) \o Records(s), p) = Records(r) \o Append(Records(s), p)
    <3>1. p \in Operation
      BY <2>4, <2>5
    <3>2. AppendShifts(Records(r), Records(s), p)
      BY <2>4, <3>1, AppendLemma
    <3>. QED
      BY <3>2 DEF AppendShifts
  <2>. QED
    BY <1>2, <2>1, <2>2, <2>3, <2>5
<1>. HIDE DEF S
<1>3. Seq(Piece) \subseteq S
  BY <1>1, <1>2, SequenceInduction
<1>. QED
  BY <1>3 DEF S

\* Every record among the pieces is a piece.
LEMMA RecordsFrom ==
    ASSUME NEW pieces \in Seq(Piece)
    PROVE  \A i \in 1..Len(Records(pieces)) :
              \E j \in 1..Len(pieces) : IsRecord(pieces[j]) /\ pieces[j] = Records(pieces)[i]
<1>. DEFINE From(s) == \A i \in 1..Len(Records(s)) :
                          \E j \in 1..Len(s) : IsRecord(s[j]) /\ s[j] = Records(s)[i]
            S       == {s \in Seq(Piece) : From(s)}
<1>1. <<>> \in S
  BY RecordsNothing, EmptySeq
<1>2. ASSUME NEW s \in Seq(Piece), NEW p \in Piece, s \in S PROVE Append(s, p) \in S
  <2>. DEFINE t == Append(s, p)
  <2>1. /\ t \in Seq(Piece) /\ Len(t) = Len(s) + 1 /\ Len(s) \in Nat /\ t[Len(s) + 1] = p
        /\ \A j \in 1..Len(s) : j \in 1..Len(s) + 1 /\ t[j] = s[j]
    OBVIOUS
  <2>2. Records(t) = IF IsRecord(p) THEN Append(Records(s), p) ELSE Records(s)
    BY RecordsOneMore
  <2>3. Records(s) \in Seq(Operation)
    BY RecordsType
  <2>4. From(s)
    BY <1>2
  <2>. HIDE DEF t
  <2>5. From(t)
    <3>. SUFFICES ASSUME NEW i \in 1..Len(Records(t))
                  PROVE  \E j \in 1..Len(t) : IsRecord(t[j]) /\ t[j] = Records(t)[i]
      OBVIOUS
    <3>1. CASE i \in 1..Len(Records(s))
      <4>1. Records(t)[i] = Records(s)[i]
        BY <2>2, <2>3, <3>1
      <4>. QED
        BY <2>1, <2>4, <3>1, <4>1
    <3>2. CASE i \notin 1..Len(Records(s))
      <4>1. IsRecord(p) /\ Records(t)[i] = p
        BY <2>2, <2>3, <3>2
      <4>. QED
        BY <2>1, <4>1
    <3>. QED
      BY <3>1, <3>2
  <2>. QED
    BY <2>1, <2>5 DEF t
<1>. HIDE DEF S
<1>3. Seq(Piece) \subseteq S
  BY <1>1, <1>2, SequenceInduction
<1>. QED
  BY <1>3 DEF S

-----------------------------------------------------------------------------
(***************************************************************************)
(* A key that is legible in a file is read record by record.               *)
(***************************************************************************)
AloneIn(pieces, i) ==
    /\ i = 1 \/ pieces[i - 1] = NewLine
    /\ i = Len(pieces) \/ pieces[i + 1] = NewLine

LegibleIn(pieces, k) ==
    \A i \in 1..Len(pieces) :
       IsRecord(pieces[i]) /\ Concerns(k, pieces[i]) => Plain(pieces[i]) /\ AloneIn(pieces, i)

LEMMA LegiblePrefix ==
    ASSUME NEW s \in Seq(Piece), NEW p \in Piece, NEW k, LegibleIn(Append(s, p), k)
    PROVE  LegibleIn(s, k)
<1>. DEFINE t == Append(s, p)
<1>1. /\ Len(t) = Len(s) + 1 /\ Len(s) \in Nat
      /\ \A i \in 1..Len(s) : i \in 1..Len(t) /\ i # Len(t) /\ t[i] = s[i]
  OBVIOUS
<1>. HIDE DEF t
<1>2. LegibleIn(t, k)
  BY DEF t
<1>. SUFFICES ASSUME NEW i \in 1..Len(s), IsRecord(s[i]), Concerns(k, s[i])
              PROVE  Plain(s[i]) /\ AloneIn(s, i)
  BY DEF LegibleIn
<1>3. Plain(s[i]) /\ AloneIn(t, i)
  BY <1>1, <1>2 DEF LegibleIn
<1>4. (i # 1 => i - 1 \in 1..Len(s)) /\ (i # Len(s) => i + 1 \in 1..Len(s))
  BY <1>1
<1>. QED
  BY <1>1, <1>3, <1>4 DEF AloneIn

LEMMA LegibleBeginning ==
    ASSUME NEW s \in Seq(Piece), NEW t \in Seq(Piece), NEW k, LegibleIn(s \o t, k)
    PROVE  LegibleIn(s, k)
<1>. DEFINE S == {u \in Seq(Piece) : LegibleIn(s \o u, k) => LegibleIn(s, k)}
<1>1. <<>> \in S
  BY ConcatEmptySeq, EmptySeq
<1>2. ASSUME NEW u \in Seq(Piece), NEW p \in Piece, u \in S PROVE Append(u, p) \in S
  <2>1. s \o Append(u, p) = Append(s \o u, p) /\ Append(u, p) \in Seq(Piece) /\ s \o u \in Seq(Piece)
    OBVIOUS
  <2>2. LegibleIn(Append(s \o u, p), k) => LegibleIn(s \o u, k)
    BY <2>1, LegiblePrefix
  <2>. QED
    BY <1>2, <2>1, <2>2
<1>. HIDE DEF S
<1>3. Seq(Piece) \subseteq S
  BY <1>1, <1>2, SequenceInduction
<1>. QED
  BY <1>3 DEF S

\* A record that does not concern a key leaves it alone.
LEMMA NoConcern ==
    ASSUME NEW s \in Store, NEW operation \in Operation, NEW k \in Key, ~Concerns(k, operation)
    PROVE  Replayed(s, operation)[k] = s[k]
BY ReplayedEffect DEF Concerns

\* Whether it does is a matter of what the client sent.
LEMMA SameConcern ==
    ASSUME NEW a \in Operation, NEW b \in Operation, ContentOf(a) = ContentOf(b), NEW k
    PROVE  Concerns(k, a) <=> Concerns(k, b)
<1>1. a.key = b.key
  BY DEF ContentOf
<1>. QED
  BY <1>1, ParseType DEF Concerns

\* What a line does to a key depends on what is there, and on nothing else.
LEMMA SameEffect ==
    ASSUME NEW s \in Store, NEW t \in Store, NEW operation \in Operation, NEW k \in Key, s[k] = t[k]
    PROVE  Replayed(s, operation)[k] = Replayed(t, operation)[k]
<1>. DEFINE said == Parse(operation)
<1>1. CASE said = None \/ said.key # k
  BY <1>1, ReplayedEffect
<1>2. CASE said # None /\ said.key = k
  BY <1>2, ReplayedEffect
<1>. QED
  BY <1>1, <1>2

\* How far replay has come: a line that is not over yet has the content of its last record.
ReadAsRecords(pieces, k) ==
    LET acc == ReadUpTo(pieces)
        n   == Len(pieces)
    IN  /\ Finished(acc)[k] = ReplayRecords(Records(pieces))[k]
        /\ IF acc.line = None THEN n = 0 \/ ~IsRecord(pieces[n])
           ELSE /\ n # 0 /\ IsRecord(pieces[n])
                /\ ContentOf(acc.line) = ContentOf(pieces[n])

LEMMA LegibleRead ==
    ASSUME NEW pieces \in Seq(Piece), NEW k \in Key, LegibleIn(pieces, k)
    PROVE  Replay(pieces)[k] = ReplayRecords(Records(pieces))[k]
<1>. DEFINE S == {s \in Seq(Piece) : LegibleIn(s, k) => ReadAsRecords(s, k)}
<1>1. <<>> \in S
  <2>1. Unread.line = None /\ Unread.store = EmptyStore
    BY DEF Unread
  <2>. QED
    BY <2>1, RecordsNothing, ReplayNothing, ReadNothing, EmptySeq DEF ReadAsRecords, Finished
<1>2. ASSUME NEW s \in Seq(Piece), NEW p \in Piece, s \in S PROVE Append(s, p) \in S
  <2>. DEFINE t   == Append(s, p)
              n   == Len(s)
              acc == ReadUpTo(s)
              old == ReplayRecords(Records(s))
  <2>1. /\ t \in Seq(Piece) /\ Len(t) = n + 1 /\ n \in Nat /\ t[n + 1] = p
        /\ \A i \in 1..n : t[i] = s[i] /\ s[i] \in Piece
    OBVIOUS
  <2>2. /\ ReadUpTo(t) = Read(acc, p)
        /\ Records(t) = IF IsRecord(p) THEN Append(Records(s), p) ELSE Records(s)
    BY ReadOneMore, RecordsOneMore
  <2>3. /\ acc \in Reading /\ acc.line \in Operation \cup {None} /\ acc.store \in Store
        /\ Records(s) \in Seq(Operation) /\ old \in Store
    BY ReadUpToType, RecordsType, ReplayRecordsType DEF Reading
  <2>. SUFFICES ASSUME LegibleIn(t, k) PROVE ReadAsRecords(t, k)
    BY <2>1
  <2>4. ReadAsRecords(s, k)
    BY <1>2, LegiblePrefix
  <2>. HIDE DEF t, acc, n, old
  <2>5. /\ Finished(acc)[k] = old[k]
        /\ IF acc.line = None THEN n = 0 \/ ~IsRecord(s[n])
           ELSE n # 0 /\ IsRecord(s[n]) /\ ContentOf(acc.line) = ContentOf(s[n])
    BY <2>4 DEF ReadAsRecords, acc, n, old
  <2>6. CASE ~IsRecord(p)
    <3>1. ReadUpTo(t).line = None /\ ReadUpTo(t).store = Finished(acc)
      BY <2>2, <2>3, <2>6 DEF Read, IsRecord, Finished, Reading
    <3>. QED
      BY <2>1, <2>2, <2>5, <2>6, <3>1 DEF ReadAsRecords, Finished, old
  <2>7. CASE IsRecord(p)
    <3>1. p \in Operation /\ p # None
      BY <2>7, NoneAssumption DEF IsRecord, Piece
    <3>2. /\ ReadUpTo(t).line = Glue(acc.line, p) /\ ReadUpTo(t).store = acc.store
      BY <2>2, <2>3, <2>7 DEF Read, IsRecord, Reading
    <3>3. ReplayRecords(Records(t)) = Replayed(old, p)
      BY <2>2, <2>3, <2>7, <3>1, ReplayOneMore DEF old
    <3>4. Glue(acc.line, p) \in Operation /\ ContentOf(Glue(acc.line, p)) = ContentOf(p)
      <4>1. CASE acc.line = None
        BY <3>1, <4>1 DEF Glue
      <4>2. CASE acc.line # None
        <5>1. acc.line.timestamp \in Nat
          BY <2>3, <4>2 DEF Operation
        <5>2. [p EXCEPT !.timestamp = acc.line.timestamp] \in Operation
          BY <3>1, <5>1 DEF Operation
        <5>3. ContentOf([p EXCEPT !.timestamp = acc.line.timestamp]) = ContentOf(p)
          BY <3>1 DEF ContentOf, Operation
        <5>. QED
          BY <4>2, <5>2, <5>3 DEF Glue
      <4>. QED
        BY <4>1, <4>2
    <3>5. Replayed(acc.store, Glue(acc.line, p))[k] = Replayed(old, p)[k]
      <4>1. CASE acc.line = None
        <5>1. Glue(acc.line, p) = p /\ acc.store[k] = old[k]
          BY <2>5, <4>1 DEF Glue, Finished
        <5>. QED
          BY <2>3, <3>1, <5>1, SameEffect
      <4>2. CASE acc.line # None
        <5>1. n \in 1..n + 1 /\ n + 1 \in 1..n + 1 /\ n \in 1..n /\ n + 1 # 1 /\ (n + 1) - 1 = n
          BY <2>1, <2>5, <4>2
        <5>2. IsRecord(s[n]) /\ ContentOf(acc.line) = ContentOf(s[n]) /\ t[n] = s[n]
          BY <2>1, <2>5, <4>2, <5>1
        <5>3. ~AloneIn(t, n) /\ ~AloneIn(t, n + 1)
          BY <2>1, <2>7, <5>1, <5>2 DEF AloneIn, IsRecord
        <5>4. ~Concerns(k, s[n]) /\ ~Concerns(k, p)
          BY <2>1, <2>7, <5>1, <5>2, <5>3 DEF LegibleIn
        <5>5. s[n] \in Operation /\ acc.line \in Operation
          BY <2>1, <2>3, <4>2, <5>1, <5>2 DEF Piece, IsRecord
        <5>6. ~Concerns(k, acc.line) /\ ~Concerns(k, Glue(acc.line, p))
          BY <3>1, <3>4, <5>2, <5>4, <5>5, SameConcern
        <5>7. Replayed(acc.store, acc.line)[k] = old[k]
          BY <2>5, <4>2 DEF Finished
        <5>. QED
          BY <2>3, <3>1, <3>4, <5>4, <5>5, <5>6, <5>7, NoConcern
      <4>. QED
        BY <4>1, <4>2
    <3>6. Glue(acc.line, p) # None
      BY <3>4, NoneAssumption
    <3>. QED
      BY <2>1, <2>7, <3>2, <3>3, <3>4, <3>5, <3>6 DEF ReadAsRecords, Finished
  <2>. QED
    BY <2>6, <2>7
<1>. HIDE DEF S
<1>3. Seq(Piece) \subseteq S
  BY <1>1, <1>2, SequenceInduction
<1>. QED
  BY <1>3, ReplayFinishes DEF S, ReadAsRecords

-----------------------------------------------------------------------------
(***************************************************************************)
(* Types                                                                   *)
(***************************************************************************)
NameOf(o) == IF o \in Adds THEN "ADD" ELSE "REMOVE"

\* Finitely many requests have come, so that Stamp is a number.
FinitelyMany == IsFiniteSet({o \in Request : task[o] # "new"})

\* A request under way has an operation of its kind.
Tasks ==
    \A o \in InFlight : /\ op[o] \in Operation
                        /\ op[o].name = NameOf(o)
                        /\ task[o] = "checked" => o \in Removes /\ cloned[o] \in Value

\* An error waits to be reported only after a failure of the disk.
Reported == lastError => failures > 0

Sound == TypeOK /\ FinitelyMany /\ Tasks /\ Reported

\* Request o comes with an operation of its kind.
Comes(o) == \E operation \in Operation : operation.name = NameOf(o) /\ Invoke(o, operation)

LEMMA Steps ==
    ASSUME FinitelyMany, [Next]_vars
    PROVE  \/ \E o \in Request : \/ Comes(o) \/ StoreAdd(o)
                                 \/ StoreRemoveCheck(o) \/ StoreRemoveUpdate(o)
           \/ Tick \/ PopRecord \/ EndRecord \/ QueueEmpty \/ Flush
           \/ Restart
           \/ UNCHANGED vars
<1>0. Stamp \in Nat
  BY FS_CardinalityType DEF Stamp, FinitelyMany
<1>1. ASSUME NEW o \in Adds, NEW k \in Key, NEW v \in Value, BeginAdd(o, k, v) PROVE Comes(o)
  <2>. DEFINE e == [name |-> "ADD", key |-> k, value |-> v, timestamp |-> Stamp]
  <2>1. e \in Operation /\ e.name = NameOf(o)
    BY <1>0 DEF Operation, NameOf
  <2>. QED
    BY <1>1, <2>1 DEF BeginAdd, Comes
<1>2. ASSUME NEW o \in Removes, NEW k \in Key, BeginRemove(o, k) PROVE Comes(o)
  <2>. DEFINE e == [name |-> "REMOVE", key |-> k, value |-> None, timestamp |-> Stamp]
  <2>1. e \in Operation /\ e.name = NameOf(o)
    BY <1>0, AofAssumption DEF Operation, NameOf
  <2>. QED
    BY <1>2, <2>1 DEF BeginRemove, Comes
<1>. QED
  BY <1>1, <1>2 DEF Next, Client, Request, StoreStep, Flusher

\* What is in the buffer and in the file are pieces, whatever becomes of one more.
LEMMA DiskTypes ==
    ASSUME TypeOK, Reported, NEW p \in Piece, WriteAll(p)
    PROVE  /\ writer' \in Seq(Piece) /\ file' \in Seq(Piece)
           /\ failures' \in 0..MaxFailures /\ Reported'
<1>1. <<p>> \in Seq(Piece) /\ Append(writer, p) \in Seq(Piece) /\ <<>> \in Seq(Piece)
  BY DEF TypeOK
<1>2. file \o writer \in Seq(Piece) /\ (file \o writer) \o <<p>> \in Seq(Piece)
  BY <1>1, ConcatProperties DEF TypeOK
<1>3. failures \in 0..MaxFailures /\ MaxFailures \in Nat
  BY AofAssumption DEF TypeOK
<1>4. CASE Buffered(p) \/ BlockWritten(p) \/ WrittenDirectly(p)
  <2>1. /\ writer' \in {Append(writer, p), <<p>>, <<>>}
        /\ file' \in {file, file \o writer, (file \o writer) \o <<p>>}
    BY <1>4 DEF Buffered, BlockWritten, WrittenDirectly
  <2>2. failures' = failures /\ lastError' = lastError
    BY <1>4 DEF Buffered, BlockWritten, WrittenDirectly
  <2>. QED
    BY <1>1, <1>2, <1>3, <2>1, <2>2 DEF TypeOK, Reported
<1>5. CASE BlockLost(p)
  BY <1>1, <1>3, <1>5 DEF BlockLost, TypeOK, Reported
<1>6. CASE Refused(p)
  BY <1>6 DEF Refused, TypeOK, Reported
<1>7. CASE DirectLost(p)
  <2>1. /\ writer' = <<>> /\ file' \in {file, file \o writer}
        /\ failures' = failures + 1 /\ failures < MaxFailures
    BY <1>7 DEF DirectLost
  <2>2. failures' \in 0..MaxFailures /\ failures' > 0
    BY <1>3, <2>1
  <2>3. Reported'
    BY <2>2 DEF Reported
  <2>4. file \in Seq(Piece)
    BY DEF TypeOK
  <2>. QED
    BY <1>1, <1>2, <2>1, <2>2, <2>3, <2>4
<1>. QED
  BY <1>4, <1>5, <1>6, <1>7 DEF WriteAll

LEMMA DiskFlags ==
    ASSUME TypeOK, NEW p, WriteAll(p)
    PROVE  lastError' \in BOOLEAN /\ written' \in BOOLEAN
BY DEF TypeOK, WriteAll, Buffered, BlockWritten, WrittenDirectly, DirectLost, BlockLost, Refused

LEMMA SoundInit == Init => Sound
<1>. SUFFICES ASSUME Init PROVE Sound
  OBVIOUS
<1>1. <<>> \in Seq(Operation) /\ <<>> \in Seq(Piece) /\ EmptyStore \in Store
  BY DEF EmptyStore, Store
<1>2. written \in BOOLEAN /\ lastError \in BOOLEAN
  BY DEF Init
<1>3. failures \in 0..MaxFailures /\ restarts \in 0..MaxRestarts
  BY AofAssumption DEF Init
<1>4. TypeOK
  BY <1>1, <1>2, <1>3 DEF Init, TypeOK
<1>5. FinitelyMany
  <2>1. {o \in Request : task[o] # "new"} = {}
    BY DEF Init
  <2>. QED
    BY <2>1, FS_EmptySet DEF FinitelyMany
<1>6. Tasks /\ Reported
  BY DEF Init, Tasks, Reported, InFlight
<1>. QED
  BY <1>4, <1>5, <1>6 DEF Sound

\* A request comes.
LEMMA SoundComes ==
    ASSUME Sound, NEW o \in Request, Comes(o)
    PROVE  Sound'
<1>. USE DEF storeVars, diskVars
<1>1. PICK e \in Operation : e.name = NameOf(o) /\ Invoke(o, e)
  BY DEF Comes
<1>2. TypeOK'
  <2>1. written' \in BOOLEAN /\ lastError' \in BOOLEAN
    BY <1>1 DEF Invoke, Sound, TypeOK
  <2>2. queue' \in Seq(Operation) /\ overlapped' \in SUBSET Key /\ op' \in [Request -> Operation \cup {None}]
    <3>1. e.key \in Key
      BY DEF Operation
    <3>. QED
      BY <1>1, <3>1, AppendProperties DEF Invoke, Sound, TypeOK
  <2>. QED
    BY <1>1, <2>1, <2>2 DEF Invoke, Sound, TypeOK
<1>3. FinitelyMany'
  <2>1. {p \in Request : task'[p] # "new"} = {p \in Request : task[p] # "new"} \cup {o}
    BY <1>1 DEF Invoke, Sound, TypeOK
  <2>. QED
    BY <2>1, FS_AddElement DEF Sound, FinitelyMany
<1>4. Tasks'
  <2>. SUFFICES ASSUME NEW p \in InFlight'
                PROVE  /\ op'[p] \in Operation /\ op'[p].name = NameOf(p)
                       /\ task'[p] = "checked" => p \in Removes /\ cloned'[p] \in Value
    BY DEF Tasks
  <2>1. CASE p = o
    <3>1. task'[p] = "ready" /\ op'[p] = e
      BY <1>1, <2>1 DEF Invoke, Sound, TypeOK
    <3>. QED
      BY <1>1, <2>1, <3>1
  <2>2. CASE p # o
    <3>1. p \in InFlight /\ task'[p] = task[p] /\ op'[p] = op[p] /\ cloned' = cloned
      BY <1>1, <2>2 DEF Invoke, Sound, TypeOK, InFlight
    <3>. QED
      BY <3>1 DEF Sound, Tasks
  <2>. QED
    BY <2>1, <2>2
<1>5. Reported'
  BY <1>1 DEF Invoke, Sound, Reported
<1>. QED
  BY <1>2, <1>3, <1>4, <1>5 DEF Sound

\* A request changes the store.
LEMMA SoundStore ==
    ASSUME Sound, NEW o \in Request, StoreStep(o)
    PROVE  Sound'
<1>. USE DEF storeVars, diskVars
<1>0. o \in InFlight /\ task[o] # "new" /\ op[o] \in Operation /\ op[o].name = NameOf(o)
  BY DEF StoreStep, StoreAdd, StoreRemoveCheck, StoreRemoveUpdate, InFlight, Sound, Tasks
<1>1. op[o].key \in Key /\ op[o].timestamp \in Nat
  BY <1>0 DEF Operation
<1>2. written' \in BOOLEAN /\ lastError' \in BOOLEAN /\ Reported'
  BY DEF StoreStep, StoreAdd, StoreRemoveCheck, StoreRemoveUpdate, Sound, TypeOK, Reported
<1>3. ASSUME task' = [task EXCEPT ![o] = "ended"] \/ task' = [task EXCEPT ![o] = "checked"]
      PROVE  FinitelyMany'
  <2>1. {p \in Request : task'[p] # "new"} = {p \in Request : task[p] # "new"}
    BY <1>0, <1>3 DEF Sound, TypeOK
  <2>. QED
    BY <2>1 DEF Sound, FinitelyMany
<1>4. CASE StoreAdd(o)
  <2>1. op[o].value \in Value
    BY <1>0, <1>4 DEF StoreAdd, NameOf, Operation
  <2>2. store' \in Store
    <3>1. [value |-> op[o].value, timestamp |-> op[o].timestamp, valid |-> TRUE] \in Entry
      BY <1>1, <2>1 DEF Entry
    <3>. QED
      BY <1>4, <3>1 DEF StoreAdd, Add, Sound, TypeOK, Store
  <2>3. TypeOK'
    BY <1>2, <1>4, <2>2 DEF StoreAdd, Sound, TypeOK
  <2>4. Tasks'
    <3>1. \A p \in InFlight' : p \in InFlight /\ task'[p] = task[p]
      BY <1>4 DEF StoreAdd, Sound, TypeOK, InFlight
    <3>. QED
      BY <1>4, <3>1 DEF StoreAdd, Sound, Tasks
  <2>. QED
    BY <1>2, <1>3, <1>4, <2>3, <2>4 DEF StoreAdd, Sound
<1>5. CASE StoreRemoveCheck(o)
  <2>1. o \in Removes /\ (task'[o] = "checked" => cloned'[o] \in Value)
    BY <1>1, <1>5 DEF StoreRemoveCheck, Sound, TypeOK, Store, Live, Entry
  <2>2. cloned' \in [Request -> Value \cup {None}]
    BY <1>1, <1>5 DEF StoreRemoveCheck, Sound, TypeOK, Store, Live, Entry
  <2>3. TypeOK'
    BY <1>2, <1>5, <2>2 DEF StoreRemoveCheck, Sound, TypeOK
  <2>4. Tasks'
    <3>1. \A p \in InFlight' : p \in InFlight /\ (p # o => task'[p] = task[p] /\ cloned'[p] = cloned[p])
      BY <1>5 DEF StoreRemoveCheck, Sound, TypeOK, InFlight
    <3>. QED
      BY <1>0, <1>5, <2>1, <3>1 DEF StoreRemoveCheck, Sound, Tasks
  <2>. QED
    BY <1>2, <1>3, <1>5, <2>3, <2>4 DEF StoreRemoveCheck, Sound
<1>6. CASE StoreRemoveUpdate(o)
  <2>1. cloned[o] \in Value
    BY <1>0, <1>6 DEF StoreRemoveUpdate, Sound, Tasks
  <2>2. store' \in Store
    <3>1. [value |-> cloned[o], timestamp |-> op[o].timestamp, valid |-> FALSE] \in Entry
      BY <1>1, <2>1 DEF Entry
    <3>. QED
      BY <1>6, <3>1 DEF StoreRemoveUpdate, Bury, Sound, TypeOK, Store
  <2>3. TypeOK'
    BY <1>2, <1>6, <2>2 DEF StoreRemoveUpdate, Sound, TypeOK
  <2>4. Tasks'
    <3>1. \A p \in InFlight' : p \in InFlight /\ task'[p] = task[p] /\ cloned'[p] = cloned[p]
      BY <1>6 DEF StoreRemoveUpdate, Sound, TypeOK, InFlight
    <3>. QED
      BY <1>6, <3>1 DEF StoreRemoveUpdate, Sound, Tasks
  <2>. QED
    BY <1>2, <1>3, <1>6, <2>3, <2>4 DEF StoreRemoveUpdate, Sound
<1>. QED
  BY <1>4, <1>5, <1>6 DEF StoreStep

\* The flusher works.
LEMMA SoundFlusher ==
    ASSUME Sound, Flusher
    PROVE  Sound'
<1>. USE DEF storeVars, diskVars
<1>1. FinitelyMany' /\ Tasks'
  BY DEF Flusher, Tick, PopRecord, EndRecord, QueueEmpty, Flush, Sound, FinitelyMany, Tasks, InFlight
<1>2. ASSUME queue' \in Seq(Operation), flusher' \in {"sleep", "drain", "newline", "flush"},
             written' \in BOOLEAN, writer' \in Seq(Piece), lastError' \in BOOLEAN,
             file' \in Seq(Piece), failures' \in 0..MaxFailures, Reported',
             UNCHANGED <<storeVars, restarts>>
      PROVE  Sound'
  <2>1. TypeOK'
    BY <1>2 DEF Sound, TypeOK
  <2>. QED
    BY <1>1, <1>2, <2>1 DEF Sound
<1>3. CASE Tick
  <2>1. written' \in BOOLEAN /\ lastError' \in BOOLEAN /\ Reported'
    BY <1>3 DEF Tick, Sound, TypeOK, Reported
  <2>. QED
    BY <1>2, <1>3, <2>1 DEF Tick, Sound, TypeOK
<1>4. CASE PopRecord
  <2>1. Head(queue) \in Operation /\ Tail(queue) \in Seq(Operation)
    BY <1>4, HeadTailProperties DEF PopRecord, Sound, TypeOK
  <2>2. Head(queue) \in Piece
    BY <2>1 DEF Piece
  <2>3. WriteAll(Head(queue)) /\ queue' = Tail(queue) /\ flusher' = "newline" /\ UNCHANGED <<storeVars, restarts>>
    BY <1>4 DEF PopRecord
  <2>4. lastError' \in BOOLEAN /\ written' \in BOOLEAN
    BY <2>3, DiskFlags DEF Sound
  <2>5. /\ writer' \in Seq(Piece) /\ file' \in Seq(Piece)
        /\ failures' \in 0..MaxFailures /\ Reported'
    BY <2>2, <2>3, DiskTypes DEF Sound
  <2>. QED
    BY <1>2, <2>1, <2>3, <2>4, <2>5
<1>5. CASE EndRecord
  <2>2. NewLine \in Piece
    BY DEF Piece
  <2>3. WriteAll(NewLine) /\ queue' = queue /\ flusher' = "drain" /\ UNCHANGED <<storeVars, restarts>>
    BY <1>5 DEF EndRecord
  <2>4. lastError' \in BOOLEAN /\ written' \in BOOLEAN
    BY <2>3, DiskFlags DEF Sound
  <2>5. /\ writer' \in Seq(Piece) /\ file' \in Seq(Piece)
        /\ failures' \in 0..MaxFailures /\ Reported'
    BY <2>2, <2>3, DiskTypes DEF Sound
  <2>6. queue' \in Seq(Operation)
    BY <2>3 DEF Sound, TypeOK
  <2>. QED
    BY <1>2, <2>3, <2>4, <2>5, <2>6
<1>6. CASE QueueEmpty
  <2>1. written' \in BOOLEAN /\ lastError' \in BOOLEAN /\ Reported'
    BY <1>6 DEF QueueEmpty, Sound, TypeOK, Reported
  <2>. QED
    BY <1>2, <1>6, <2>1 DEF QueueEmpty, Sound, TypeOK
<1>7. CASE Flush
  <2>1. written' \in BOOLEAN /\ lastError' \in BOOLEAN
    BY <1>7 DEF Flush, Sound, TypeOK
  <2>2. writer' \in Seq(Piece) /\ file' \in Seq(Piece)
    <3>1. file \o writer \in Seq(Piece) /\ <<>> \in Seq(Piece)
      BY ConcatProperties, EmptySeq DEF Sound, TypeOK
    <3>. QED
      BY <1>7, <3>1 DEF Flush, Sound, TypeOK
  <2>3. failures' \in 0..MaxFailures
    <3>1. failures \in 0..MaxFailures /\ MaxFailures \in Nat
      BY AofAssumption DEF Sound, TypeOK
    <3>. QED
      BY <1>7, <3>1 DEF Flush
  <2>4. queue' \in Seq(Operation) /\ flusher' = "sleep" /\ UNCHANGED <<storeVars, restarts>>
    BY <1>7 DEF Flush, Sound, TypeOK
  <2>5. Reported'
    <3>1. lastError' => lastError
      BY <1>7 DEF Flush
    <3>2. failures' \in {failures, failures + 1} /\ failures \in Nat
      BY <1>7 DEF Flush, Sound, TypeOK
    <3>. QED
      BY <3>1, <3>2 DEF Sound, Reported
  <2>. QED
    BY <1>2, <2>1, <2>2, <2>3, <2>4, <2>5
<1>. QED
  BY <1>3, <1>4, <1>5, <1>6, <1>7 DEF Flusher

\* The process ends and starts again.
LEMMA SoundRestart ==
    ASSUME Sound, Restart
    PROVE  Sound'
<1>1. store' \in Store
  BY ReplayType DEF Restart, Sound, TypeOK
<1>2. written' \in BOOLEAN /\ lastError' \in BOOLEAN
  BY DEF Restart
<1>3. restarts' \in 0..MaxRestarts
  BY AofAssumption DEF Restart, Sound, TypeOK
<1>4. TypeOK'
  BY <1>1, <1>2, <1>3, EmptySeq DEF Restart, Sound, TypeOK
<1>5. FinitelyMany'
  <2>1. {p \in Request : task'[p] # "new"} = {p \in Request : task[p] # "new"}
    BY DEF Restart, Sound, TypeOK
  <2>. QED
    BY <2>1 DEF Sound, FinitelyMany
<1>6. Tasks' /\ Reported'
  BY DEF Restart, Tasks, Reported, InFlight
<1>. QED
  BY <1>4, <1>5, <1>6 DEF Sound

LEMMA SoundNext == Sound /\ [Next]_vars => Sound'
<1>1. ASSUME Sound, UNCHANGED vars PROVE Sound'
  BY <1>1 DEF vars, storeVars, diskVars, Sound, TypeOK, FinitelyMany, Tasks, Reported, InFlight
<1>2. ASSUME Sound, [Next]_vars PROVE Sound'
  BY <1>1, <1>2, Steps, SoundComes, SoundStore, SoundFlusher, SoundRestart
     DEF Sound, StoreStep, Flusher
<1>. QED
  BY <1>2

LEMMA SoundAlways == Spec => []Sound
BY SoundInit, SoundNext, PTL DEF Spec

(***************************************************************************)
(* Every reachable state is of the declared types; what a restart reads    *)
(* from any file the disk may leave is a store.                            *)
(***************************************************************************)
THEOREM TypeCorrect == Spec => []TypeOK
<1>1. Sound => TypeOK
  BY DEF Sound
<1>. QED
  BY <1>1, SoundAlways, PTL

-----------------------------------------------------------------------------
(***************************************************************************)
(* The log: the records in the file, in the buffer and in the queue        *)
(***************************************************************************)
LogOf(f, w, q) == f \o w \o q

Logged == LogOf(Records(file), Records(writer), queue)

Joined(f, w, g) == g = f \o w

LEMMA LogTypes ==
    ASSUME TypeOK
    PROVE  /\ Records(file) \in Seq(Operation) /\ Records(writer) \in Seq(Operation)
           /\ queue \in Seq(Operation) /\ Logged \in Seq(Operation)
<1>1. /\ Records(file) \in Seq(Operation) /\ Records(writer) \in Seq(Operation)
      /\ queue \in Seq(Operation)
  BY RecordsType DEF TypeOK
<1>. QED
  BY <1>1, ConcatProperties DEF Logged, LogOf

\* Where the record of the queue goes and what is written: the log does not change.
KeptByPop(f, w, q, g) ==
    /\ LogOf(f, Append(w, Head(q)), Tail(q)) = LogOf(f, w, q)
    /\ LogOf(g, <<Head(q)>>, Tail(q)) = LogOf(f, w, q)
    /\ LogOf(Append(g, Head(q)), <<>>, Tail(q)) = LogOf(f, w, q)

LEMMA PopKeeps ==
    ASSUME NEW f \in Seq(Operation), NEW w \in Seq(Operation), NEW q \in Seq(Operation),
           q # <<>>, NEW g, Joined(f, w, g)
    PROVE  KeptByPop(f, w, q, g)
<1>. DEFINE p == Head(q)
            r == Tail(q)
<1>1. p \in Operation /\ r \in Seq(Operation) /\ q = <<p>> \o r /\ <<p>> \in Seq(Operation)
  OBVIOUS
<1>. HIDE DEF p, r
<1>2. Append(w, p) = w \o <<p>> /\ f \o w \in Seq(Operation) /\ w \o <<p>> \in Seq(Operation)
  BY <1>1, AppendIsConcat, ConcatProperties
<1>3. Append(f \o w, p) = (f \o w) \o <<p>>
  BY <1>1, <1>2, AppendIsConcat
<1>4. (f \o w) \o (<<p>> \o r) = ((f \o w) \o <<p>>) \o r
  BY <1>1, <1>2, ConcatAssociative, SMTT(30)
<1>5. (f \o w) \o <<p>> = f \o (w \o <<p>>)
  BY <1>1, ConcatAssociative
<1>6. ((f \o w) \o <<p>>) \o <<>> = (f \o w) \o <<p>>
  BY <1>1, <1>2, ConcatEmptySeq, ConcatProperties
<1>. QED
  BY <1>1, <1>2, <1>3, <1>4, <1>5, <1>6 DEF KeptByPop, LogOf, Joined, p, r

LEMMA FlushKeeps ==
    ASSUME NEW f \in Seq(Operation), NEW w \in Seq(Operation), NEW q, NEW g, Joined(f, w, g)
    PROVE  LogOf(g, <<>>, q) = LogOf(f, w, q)
<1>1. g \in Seq(Operation)
  BY ConcatProperties DEF Joined
<1>2. g \o <<>> = g
  BY <1>1, ConcatEmptySeq
<1>. QED
  BY <1>2 DEF Joined, LogOf

LEMMA InvokeAppends ==
    ASSUME NEW f \in Seq(Operation), NEW w \in Seq(Operation), NEW q \in Seq(Operation),
           NEW p \in Operation
    PROVE  LogOf(f, w, Append(q, p)) = Append(LogOf(f, w, q), p)
<1>1. f \o w \in Seq(Operation)
  BY ConcatProperties
<1>2. AppendShifts(f \o w, q, p)
  BY <1>1, AppendLemma
<1>. QED
  BY <1>2 DEF AppendShifts, LogOf

\* What is between f and q can be cut out.
CutOut(f, w, q) ==
    LET l == LogOf(f, w, q)
        i == Len(f) + 1
        j == Len(f) + Len(w)
    IN  /\ LogOf(f, <<>>, q) = SubSeq(l, 1, i - 1) \o SubSeq(l, j + 1, Len(l))
        /\ i \in (Len(f) + 1)..(Len(l) + 1) /\ j \in (i - 1)..Len(l)

LEMMA CanBeCut ==
    ASSUME NEW f \in Seq(Operation), NEW w \in Seq(Operation), NEW q \in Seq(Operation)
    PROVE  CutOut(f, w, q)
<1>. DEFINE l == LogOf(f, w, q)
            a == SubSeq(l, 1, Len(f))
            b == SubSeq(l, Len(f) + Len(w) + 1, Len(l))
<1>1. /\ Len(f) \in Nat /\ Len(w) \in Nat /\ Len(q) \in Nat
      /\ f \o w \in Seq(Operation) /\ Len(f \o w) = Len(f) + Len(w)
  OBVIOUS
<1>2. /\ l \in Seq(Operation) /\ Len(l) = Len(f) + Len(w) + Len(q)
      /\ \A i \in 1..Len(l) : l[i] = IF i <= Len(f) THEN f[i]
                                     ELSE IF i <= Len(f) + Len(w) THEN w[i - Len(f)]
                                     ELSE q[i - (Len(f) + Len(w))]
  BY <1>1 DEF LogOf
<1>. HIDE DEF l
<1>3. a = f
  <2>1. a \in Seq(Operation) /\ Len(a) = Len(f) /\ \A i \in 1..Len(f) : a[i] = l[i]
    BY <1>1, <1>2
  <2>. QED
    BY <1>1, <1>2, <2>1
<1>4. b = q
  <2>1. /\ b \in Seq(Operation) /\ Len(b) = Len(q)
        /\ \A i \in 1..Len(q) : b[i] = l[Len(f) + Len(w) + i]
    BY <1>1, <1>2
  <2>. HIDE DEF b
  <2>2. ASSUME NEW i \in 1..Len(q) PROVE b[i] = q[i]
    <3>. DEFINE j == Len(f) + Len(w) + i
    <3>1. /\ j \in 1..Len(l) /\ ~(j <= Len(f)) /\ ~(j <= Len(f) + Len(w))
          /\ j - (Len(f) + Len(w)) = i
      BY <1>1, <1>2
    <3>. HIDE DEF j
    <3>2. l[j] = q[i]
      BY <1>2, <3>1
    <3>. QED
      BY <2>1, <3>2 DEF j
  <2>. QED
    BY <2>1, <2>2
<1>5. f \o <<>> = f
  BY ConcatEmptySeq
<1>6. /\ Len(f) + 1 \in (Len(f) + 1)..(Len(l) + 1)
      /\ Len(f) + Len(w) \in ((Len(f) + 1) - 1)..Len(l)
      /\ (Len(f) + 1) - 1 = Len(f)
  BY <1>1, <1>2
<1>7. LogOf(f, <<>>, q) = a \o b
  BY <1>3, <1>4, <1>5 DEF LogOf
<1>. QED
  BY <1>6, <1>7 DEF CutOut, l

(***************************************************************************)
(* What writing a piece does to the records in the buffer and the file     *)
(***************************************************************************)
\* It stays in the buffer.
Stays(f, w, p) ==
    /\ Records(file') = f
    /\ Records(writer') = IF IsRecord(p) THEN Append(w, p) ELSE w
    /\ failures' = failures

\* The buffer goes to the file; a record may go there behind it.
Saves(f, w, p) ==
    /\ \/ /\ Joined(f, w, Records(file'))
          /\ Records(writer') = IF IsRecord(p) THEN <<p>> ELSE <<>>
       \/ \E g \in Seq(Operation) : /\ IsRecord(p) /\ Joined(f, w, g)
                                    /\ Records(file') = Append(g, p)
                                    /\ Records(writer') = <<>>
    /\ failures' = failures

\* The buffer is lost.
LosesBuffer(f, p) ==
    /\ Records(file') = f
    /\ Records(writer') = IF IsRecord(p) THEN <<p>> ELSE <<>>
    /\ failures' > 0

\* The piece is lost.
LosesPiece(f, w) ==
    /\ Records(file') = f /\ Records(writer') = w
    /\ failures' = failures /\ failures > 0

\* The piece is lost that would have gone to the file behind the buffer.
LosesDirect(f, w, p) ==
    /\ IsRecord(p) /\ Records(writer') = <<>>
    /\ Joined(f, w, Records(file')) \/ Records(file') = f
    /\ failures' > 0

LEMMA RecordsOfOne ==
    ASSUME NEW p \in Piece
    PROVE  Records(<<p>>) = IF IsRecord(p) THEN <<p>> ELSE <<>>
<1>1. <<p>> = Append(<<>>, p) /\ <<>> \in Seq(Piece)
  OBVIOUS
<1>2. Records(Append(<<>>, p)) = IF IsRecord(p) THEN Append(<<>>, p) ELSE <<>>
  BY <1>1, RecordsOneMore, RecordsNothing
<1>. QED
  BY <1>1, <1>2

LEMMA WriteMoves ==
    ASSUME TypeOK, Reported, NEW p \in Piece, WriteAll(p)
    PROVE  LET f == Records(file)
               w == Records(writer)
           IN  \/ Stays(f, w, p) \/ Saves(f, w, p)
               \/ LosesBuffer(f, p) \/ LosesPiece(f, w) \/ LosesDirect(f, w, p)
<1>. DEFINE f == Records(file)
            w == Records(writer)
<1>1. /\ f \in Seq(Operation) /\ w \in Seq(Operation) /\ failures \in Nat
      /\ file \in Seq(Piece) /\ writer \in Seq(Piece)
  BY LogTypes DEF TypeOK
<1>2. Joined(f, w, Records(file \o writer))
  BY <1>1, RecordsConcat DEF Joined
<1>3. Records(file \o writer) \in Seq(Operation) /\ file \o writer \in Seq(Piece)
  BY <1>1, ConcatProperties, RecordsType
<1>. HIDE DEF f, w
<1>4. CASE Buffered(p)
  <2>1. Records(Append(writer, p)) = IF IsRecord(p) THEN Append(w, p) ELSE w
    BY <1>1, RecordsOneMore DEF w
  <2>2. Stays(f, w, p)
    BY <1>4, <2>1 DEF Buffered, Stays, f
  <2>. QED
    BY <2>2 DEF f, w
<1>5. CASE BlockWritten(p)
  <2>1. Saves(f, w, p)
    BY <1>2, <1>5, RecordsOfOne DEF BlockWritten, Saves
  <2>. QED
    BY <2>1 DEF f, w
<1>6. CASE WrittenDirectly(p)
  <2>1. file' = Append(file \o writer, p)
    BY <1>3, <1>6, AppendIsConcat DEF WrittenDirectly
  <2>2. Records(Append(file \o writer, p)) = Append(Records(file \o writer), p) /\ IsRecord(p)
    BY <1>3, <1>6, RecordsOneMore DEF WrittenDirectly, IsRecord
  <2>3. Records(writer') = <<>> /\ failures' = failures
    BY <1>6, RecordsNothing DEF WrittenDirectly
  <2>4. Saves(f, w, p)
    BY <1>2, <1>3, <2>1, <2>2, <2>3 DEF Saves
  <2>. QED
    BY <2>4 DEF f, w
<1>7. CASE BlockLost(p)
  <2>1. LosesBuffer(f, p)
    BY <1>1, <1>7, RecordsOfOne DEF BlockLost, LosesBuffer, f
  <2>. QED
    BY <2>1 DEF f, w
<1>8. CASE Refused(p)
  <2>1. LosesPiece(f, w)
    BY <1>8 DEF Refused, LosesPiece, Reported, f, w
  <2>. QED
    BY <2>1 DEF f, w
<1>9. CASE DirectLost(p)
  <2>1. /\ IsRecord(p) /\ writer' = <<>> /\ failures' = failures + 1
        /\ file' = file \o writer \/ file' = file
    BY <1>9 DEF DirectLost, IsRecord
  <2>2. Joined(f, w, Records(file')) \/ Records(file') = f
    BY <1>2, <2>1 DEF f
  <2>3. failures' > 0
    BY <1>1, <2>1
  <2>4. LosesDirect(f, w, p)
    BY <2>1, <2>2, <2>3, RecordsNothing DEF LosesDirect
  <2>. QED
    BY <2>4 DEF f, w
<1>. QED
  BY <1>4, <1>5, <1>6, <1>7, <1>8, <1>9 DEF WriteAll

-----------------------------------------------------------------------------
(***************************************************************************)
(* The refinement, step by step                                            *)
(***************************************************************************)
LogStep == [Log!Next]_(Log!vars)

LEMMA StepStutters ==
    ASSUME Logged' = Logged, Len(Records(file')) = Len(Records(file)), failures' = failures
    PROVE  LogStep
<1>1. (failures' = 0) = (failures = 0)
  OBVIOUS
<1>. QED
  BY <1>1 DEF LogStep, Log!vars, Logged, LogOf

LEMMA StepSaves ==
    ASSUME Logged' = Logged, failures' = failures,
           Len(Records(file')) \in (Len(Records(file)) + 1)..Len(Logged)
    PROVE  LogStep
<1>1. (failures' = 0) = (failures = 0)
  OBVIOUS
<1>2. Log!Save
  BY <1>1 DEF Log!Save, Logged, LogOf
<1>. QED
  BY <1>2 DEF LogStep, Log!Next

LEMMA StepAppends ==
    ASSUME TypeOK, NEW p \in Operation, Logged' = Append(Logged, p),
           Len(Records(file')) = Len(Records(file)), failures' = failures
    PROVE  LogStep
<1>. DEFINE new == Logged'
<1>1. (failures' = 0) = (failures = 0)
  OBVIOUS
<1>2. new # <<>> /\ new[Len(new)] = p /\ new = Append(Logged, p)
  BY LogTypes, AppendProperties
<1>. HIDE DEF new
<1>3. new # <<>> /\ new[Len(new)] \in Operation /\ new = Append(Logged, new[Len(new)])
  BY <1>2
<1>4. Log!AppendRecord
  BY <1>1, <1>3 DEF Log!AppendRecord, Logged, LogOf, new
<1>. QED
  BY <1>4 DEF LogStep, Log!Next

LEMMA StepLoses ==
    ASSUME NEW f \in Seq(Operation), NEW w \in Seq(Operation), NEW q \in Seq(Operation),
           Logged = LogOf(f, w, q), Logged' = LogOf(f, <<>>, q),
           Records(file) \in Seq(Operation), failures' > 0,
           Len(Records(file')) \in Len(Records(file))..Len(f)
    PROVE  LogStep
<1>. DEFINE l == LogOf(f, w, q)
            i == Len(f) + 1
            j == Len(f) + Len(w)
<1>1. (failures' = 0) = FALSE
  OBVIOUS
<1>2. /\ Logged' = SubSeq(l, 1, i - 1) \o SubSeq(l, j + 1, Len(l))
      /\ i \in (Len(f) + 1)..(Len(l) + 1) /\ j \in (i - 1)..Len(l)
  BY CanBeCut DEF CutOut
<1>3. /\ Len(f) \in Nat /\ Len(w) \in Nat /\ Len(Records(file)) \in Nat
      /\ i \in Nat /\ j \in Nat
  OBVIOUS
<1>4. i - 1 = Len(f)
  BY <1>3
<1>. HIDE DEF i, j
<1>5. i \in (Len(Records(file)) + 1)..(Len(l) + 1)
  BY <1>2, <1>3, <1>4
<1>6. /\ i \in (Len(Records(file)) + 1)..(Len(Logged) + 1) /\ j \in (i - 1)..Len(Logged)
      /\ Logged' = SubSeq(Logged, 1, i - 1) \o SubSeq(Logged, j + 1, Len(Logged))
      /\ Len(Records(file')) \in Len(Records(file))..(i - 1)
  BY <1>2, <1>5, <1>4
<1>7. Log!Lose
  BY <1>1, <1>6 DEF Log!Lose, Logged, LogOf
<1>. QED
  BY <1>7 DEF LogStep, Log!Next

\* A restart cuts the log back to the file.
LEMMA StepRestarts ==
    ASSUME TypeOK, Restart
    PROVE  LogStep /\ Logged' = Records(file)
<1>. DEFINE f == Records(file)
            r == Records(writer) \o queue
<1>1. f \in Seq(Operation) /\ Records(writer) \in Seq(Operation) /\ queue \in Seq(Operation)
  BY LogTypes
<1>2. Logged' = f
  <2>1. f \o <<>> = f /\ (f \o <<>>) \o <<>> = f
    BY <1>1, ConcatEmptySeq
  <2>. QED
    BY <2>1, RecordsNothing DEF Restart, Logged, LogOf
<1>3. r \in Seq(Operation) /\ Logged = f \o r
  BY <1>1, ConcatAssociative, ConcatProperties DEF Logged, LogOf
<1>. HIDE DEF f, r
<1>4. f = SubSeq(Logged, 1, Len(f))
  <2>. DEFINE g == SubSeq(f \o r, 1, Len(f))
  <2>1. g \in Seq(Operation) /\ Len(g) = Len(f) /\ \A i \in 1..Len(f) : g[i] = f[i]
    BY <1>1, <1>3
  <2>. HIDE DEF g
  <2>2. f = g
    BY <1>1, <2>1
  <2>. QED
    BY <1>3, <2>2 DEF g
<1>5. UNCHANGED <<Len(Records(file)), failures = 0>>
  BY DEF Restart
<1>6. Log!Crash
  BY <1>2, <1>4, <1>5 DEF Log!Crash, Logged, LogOf, f
<1>. QED
  BY <1>2, <1>6 DEF LogStep, Log!Next, f

LEMMA StepComes ==
    ASSUME TypeOK, NEW o, NEW p \in Operation, Invoke(o, p)
    PROVE  LogStep /\ Logged' = Append(Logged, p)
<1>1. /\ Records(file') = Records(file) /\ Records(writer') = Records(writer)
      /\ failures' = failures /\ queue' = Append(queue, p)
  BY DEF Invoke, diskVars
<1>2. Logged' = LogOf(Records(file), Records(writer), Append(queue, p))
  BY <1>1 DEF Logged
<1>3. LogOf(Records(file), Records(writer), Append(queue, p)) = Append(Logged, p)
  BY LogTypes, InvokeAppends DEF Logged
<1>. QED
  BY <1>1, <1>2, <1>3, StepAppends

(***************************************************************************)
(* A piece is written: the log stays as it is unless the disk has failed.  *)
(***************************************************************************)
LEMMA StepPops ==
    ASSUME Sound, PopRecord
    PROVE  LogStep /\ (failures' = 0 => Logged' = Logged)
<1>. DEFINE f == Records(file)
            w == Records(writer)
            p == Head(queue)
            r == Tail(queue)
<1>1. /\ f \in Seq(Operation) /\ w \in Seq(Operation) /\ queue \in Seq(Operation)
      /\ TypeOK /\ Reported
  BY LogTypes DEF Sound
<1>2. queue # <<>> /\ queue' = r /\ WriteAll(p)
  BY DEF PopRecord
<1>3. p \in Operation /\ p \in Piece /\ IsRecord(p) /\ r \in Seq(Operation)
  <2>1. p \in Operation /\ r \in Seq(Operation)
    BY <1>1, <1>2, HeadTailProperties
  <2>. QED
    BY <2>1, ReplayAssumption DEF Piece, IsRecord
<1>4. \/ Stays(f, w, p) \/ Saves(f, w, p)
      \/ LosesBuffer(f, p) \/ LosesPiece(f, w) \/ LosesDirect(f, w, p)
  BY <1>1, <1>2, <1>3, WriteMoves
<1>5. \A g : Joined(f, w, g) => KeptByPop(f, w, queue, g)
  BY <1>1, <1>2, PopKeeps
<1>6. failures \in Nat
  BY <1>1 DEF TypeOK
<1>7. \E g : Joined(f, w, g) /\ g \in Seq(Operation) /\ Len(g) = Len(f) + Len(w)
  BY <1>1, ConcatProperties DEF Joined
<1>8. Logged = LogOf(f, w, queue) /\ Logged' = LogOf(Records(file'), Records(writer'), r)
  BY <1>2 DEF Logged
<1>9. Len(f) \in Nat /\ Len(w) \in Nat /\ Len(Logged) = Len(f) + Len(w) + Len(queue) /\ Len(queue) \in Nat \ {0}
  BY <1>1, <1>2 DEF Logged, LogOf
<1>. HIDE DEF f, w, p, r
<1>10. CASE Stays(f, w, p)
  <2>1. Records(file') = f /\ Records(writer') = Append(w, p) /\ failures' = failures
    BY <1>3, <1>10 DEF Stays
  <2>2. LogOf(f, Append(w, p), r) = LogOf(f, w, queue)
    BY <1>5, <1>7 DEF KeptByPop, p, r
  <2>3. Logged' = Logged
    BY <1>8, <2>1, <2>2
  <2>. QED
    BY <2>1, <2>3, StepStutters DEF f
<1>11. CASE Saves(f, w, p)
  <2>1. failures' = failures
    BY <1>11 DEF Saves
  <2>2. CASE Joined(f, w, Records(file')) /\ Records(writer') = <<p>>
    <3>1. LogOf(Records(file'), <<p>>, r) = LogOf(f, w, queue)
      BY <1>5, <2>2 DEF KeptByPop, p, r
    <3>2. Logged' = Logged
      BY <1>8, <2>2, <3>1
    <3>3. Len(Records(file')) = Len(f) + Len(w)
      BY <1>7, <2>2 DEF Joined
    <3>4. CASE Len(w) = 0
      BY <1>9, <2>1, <3>2, <3>3, <3>4, StepStutters DEF f
    <3>5. CASE Len(w) # 0
      <4>1. Len(Records(file')) \in (Len(f) + 1)..Len(Logged)
        BY <1>9, <3>3, <3>5
      <4>. QED
        BY <2>1, <3>2, <4>1, StepSaves DEF f
    <3>. QED
      BY <3>2, <3>4, <3>5
  <2>3. ASSUME NEW g \in Seq(Operation), Joined(f, w, g), Records(file') = Append(g, p),
               Records(writer') = <<>>
        PROVE  LogStep /\ Logged' = Logged
    <3>1. LogOf(Append(g, p), <<>>, r) = LogOf(f, w, queue)
      BY <1>5, <2>3 DEF KeptByPop, p, r
    <3>2. Logged' = Logged
      BY <1>8, <2>3, <3>1
    <3>3. Len(Records(file')) = Len(f) + Len(w) + 1
      <4>1. Len(g) = Len(f) + Len(w)
        BY <1>7, <2>3 DEF Joined
      <4>. QED
        BY <1>3, <2>3, <4>1, AppendProperties
    <3>4. Len(Records(file')) \in (Len(f) + 1)..Len(Logged)
      BY <1>9, <3>3
    <3>. QED
      BY <2>1, <3>2, <3>4, StepSaves DEF f
  <2>. QED
    BY <1>3, <1>11, <2>2, <2>3 DEF Saves
<1>12. CASE LosesBuffer(f, p)
  <2>1. Records(file') = f /\ Records(writer') = <<p>> /\ failures' > 0
    BY <1>3, <1>12 DEF LosesBuffer
  <2>2. LogOf(f, <<p>>, r) = LogOf(f, <<>>, queue)
    <3>1. Joined(f, <<>>, f) /\ <<>> \in Seq(Operation)
      BY <1>1, ConcatEmptySeq, EmptySeq DEF Joined
    <3>2. KeptByPop(f, <<>>, queue, f)
      BY <1>1, <1>2, <3>1, PopKeeps
    <3>. QED
      BY <3>2 DEF KeptByPop, p, r
  <2>3. Logged' = LogOf(f, <<>>, queue)
    BY <1>8, <2>1, <2>2
  <2>4. Records(file) = f /\ Len(Records(file')) \in Len(Records(file))..Len(f)
    BY <1>9, <2>1 DEF f
  <2>5. LogStep
    BY <1>1, <1>8, <2>1, <2>3, <2>4, StepLoses
  <2>. QED
    BY <2>1, <2>5
<1>13. CASE LosesPiece(f, w)
  <2>1. Records(file') = f /\ Records(writer') = w /\ failures' > 0
    BY <1>13 DEF LosesPiece
  <2>2. PICK g \in Seq(Operation) : Joined(f, w, g) /\ Len(g) = Len(f) + Len(w)
    BY <1>7
  <2>3. LogOf(g, <<p>>, r) = Logged
    BY <1>5, <1>8, <2>2 DEF KeptByPop, p, r
  <2>4. Logged' = LogOf(g, <<>>, r)
    BY <1>1, <1>8, <2>1, <2>2, FlushKeeps
  <2>5. <<p>> \in Seq(Operation) /\ Len(Records(file')) \in Len(f)..Len(g)
    BY <1>3, <1>9, <2>1, <2>2
  <2>6. LogStep
    BY <1>1, <1>3, <2>1, <2>3, <2>4, <2>5, StepLoses DEF f
  <2>. QED
    BY <2>1, <2>6
<1>14. CASE LosesDirect(f, w, p)
  <2>1. Records(writer') = <<>> /\ failures' > 0 /\ <<p>> \in Seq(Operation)
    BY <1>3, <1>14 DEF LosesDirect
  <2>2. CASE Joined(f, w, Records(file'))
    <3>. DEFINE g == Records(file')
    <3>1. g \in Seq(Operation) /\ Len(g) = Len(f) + Len(w)
      BY <1>7, <2>2 DEF Joined
    <3>2. LogOf(g, <<p>>, r) = Logged
      BY <1>5, <1>8, <2>2 DEF KeptByPop, p, r
    <3>3. Logged' = LogOf(g, <<>>, r) /\ Len(Records(file')) \in Len(f)..Len(g)
      BY <1>8, <1>9, <2>1, <3>1
    <3>4. LogStep
      BY <1>1, <1>3, <2>1, <3>1, <3>2, <3>3, StepLoses DEF f
    <3>. QED
      BY <2>1, <3>4
  <2>3. CASE Records(file') = f
    <3>1. LogOf(f, Append(w, p), r) = Logged
      BY <1>5, <1>7, <1>8 DEF KeptByPop, p, r
    <3>2. Append(w, p) \in Seq(Operation)
      BY <1>1, <1>3, AppendProperties
    <3>3. Logged' = LogOf(f, <<>>, r) /\ Len(Records(file')) \in Len(f)..Len(f)
      BY <1>8, <1>9, <2>1, <2>3
    <3>4. LogStep
      BY <1>1, <1>3, <2>1, <3>1, <3>2, <3>3, StepLoses DEF f
    <3>. QED
      BY <2>1, <3>4
  <2>. QED
    BY <1>14, <2>2, <2>3 DEF LosesDirect
<1>. QED
  BY <1>4, <1>10, <1>11, <1>12, <1>13, <1>14

\* The same of the newline after a record, which is no record, and of a flush.
LEMMA StepEnds ==
    ASSUME Sound, EndRecord \/ Flush
    PROVE  LogStep /\ (failures' = 0 => Logged' = Logged)
<1>. DEFINE f == Records(file)
            w == Records(writer)
<1>1. /\ f \in Seq(Operation) /\ w \in Seq(Operation) /\ queue \in Seq(Operation)
      /\ TypeOK /\ Reported /\ failures \in Nat
  BY LogTypes DEF Sound, TypeOK
<1>2. queue' = queue
  BY DEF EndRecord, Flush
<1>3. \/ Records(file') = f /\ Records(writer') = w /\ failures' = failures
      \/ Joined(f, w, Records(file')) /\ Records(writer') = <<>> /\ failures' = failures
      \/ Records(file') = f /\ Records(writer') = <<>> /\ failures' > 0
  <2>1. CASE EndRecord
    <3>1. NewLine \in Piece /\ ~IsRecord(NewLine) /\ WriteAll(NewLine)
      BY <2>1 DEF Piece, IsRecord, EndRecord
    <3>2. \/ Stays(f, w, NewLine) \/ Saves(f, w, NewLine)
          \/ LosesBuffer(f, NewLine) \/ LosesPiece(f, w) \/ LosesDirect(f, w, NewLine)
      BY <1>1, <3>1, WriteMoves
    <3>. QED
      BY <3>1, <3>2 DEF Stays, Saves, LosesBuffer, LosesPiece, LosesDirect
  <2>2. CASE Flush
    <3>1. Records(<<>>) = <<>> /\ Joined(f, w, Records(file \o writer))
      BY <1>1, RecordsNothing, RecordsConcat DEF Joined, TypeOK
    <3>2. \/ writer' = writer /\ file' = file /\ failures' = failures
          \/ writer' = <<>> /\ file' = file \o writer /\ failures' = failures
          \/ writer' = <<>> /\ file' = file /\ failures' = failures + 1
      BY <2>2 DEF Flush
    <3>3. failures + 1 > 0
      BY <1>1
    <3>. QED
      BY <3>1, <3>2, <3>3
  <2>. QED
    BY <2>1, <2>2
<1>4. Logged = LogOf(f, w, queue) /\ Logged' = LogOf(Records(file'), Records(writer'), queue)
  BY <1>2 DEF Logged
<1>5. Len(f) \in Nat /\ Len(w) \in Nat /\ Len(Logged) = Len(f) + Len(w) + Len(queue) /\ Len(queue) \in Nat
  BY <1>1 DEF Logged, LogOf
<1>. HIDE DEF f, w
<1>6. CASE Records(file') = f /\ Records(writer') = w /\ failures' = failures
  BY <1>4, <1>6, StepStutters DEF f
<1>7. CASE Joined(f, w, Records(file')) /\ Records(writer') = <<>> /\ failures' = failures
  <2>1. Logged' = Logged
    BY <1>1, <1>4, <1>7, FlushKeeps
  <2>2. Len(Records(file')) = Len(f) + Len(w)
    BY <1>1, <1>7, ConcatProperties DEF Joined
  <2>3. CASE Len(w) = 0
    BY <1>5, <1>7, <2>1, <2>2, <2>3, StepStutters DEF f
  <2>4. CASE Len(w) # 0
    <3>1. Len(Records(file')) \in (Len(f) + 1)..Len(Logged)
      BY <1>5, <2>2, <2>4
    <3>. QED
      BY <1>7, <2>1, <3>1, StepSaves DEF f
  <2>. QED
    BY <2>1, <2>3, <2>4
<1>8. CASE Records(file') = f /\ Records(writer') = <<>> /\ failures' > 0
  <2>1. Len(Records(file')) \in Len(f)..Len(f)
    BY <1>5, <1>8
  <2>2. LogStep
    BY <1>1, <1>4, <1>8, <2>1, StepLoses DEF f
  <2>. QED
    BY <1>8, <2>2
<1>. QED
  BY <1>3, <1>6, <1>7, <1>8

\* Nothing else touches the log.
LEMMA StepRests ==
    ASSUME UNCHANGED <<queue, writer, file, failures>>
    PROVE  LogStep /\ Logged' = Logged
<1>1. Logged' = Logged /\ Len(Records(file')) = Len(Records(file)) /\ failures' = failures
  BY DEF Logged
<1>. QED
  BY <1>1, StepStutters

LEMMA LogNext == Sound /\ [Next]_vars => LogStep
<1>. SUFFICES ASSUME Sound, [Next]_vars PROVE LogStep
  OBVIOUS
<1>1. TypeOK /\ FinitelyMany
  BY DEF Sound
<1>2. ASSUME NEW o \in Request, Comes(o) PROVE LogStep
  BY <1>1, <1>2, StepComes DEF Comes
<1>3. ASSUME NEW o \in Request, StoreAdd(o) \/ StoreRemoveCheck(o) \/ StoreRemoveUpdate(o)
      PROVE  LogStep
  BY <1>3, StepRests DEF StoreAdd, StoreRemoveCheck, StoreRemoveUpdate, diskVars
<1>4. ASSUME Tick \/ QueueEmpty \/ UNCHANGED vars PROVE LogStep
  BY <1>4, StepRests DEF Tick, QueueEmpty, vars, storeVars, diskVars
<1>. QED
  BY <1>1, <1>2, <1>3, <1>4, Steps, StepPops, StepEnds, StepRestarts

(***************************************************************************)
(* The queue, the BufWriter and the file together are a durable log: they  *)
(* keep the order of the hook calls, an end of the process loses exactly   *)
(* what had not reached the file, and nothing else loses a record unless   *)
(* the disk has failed.                                                    *)
(***************************************************************************)
THEOREM DurableLogImplemented == Spec => ImplementsDurableLog
<1>1. Init => Log!Init
  <2>. SUFFICES ASSUME Init PROVE Log!Init
    OBVIOUS
  <2>1. Records(file) = <<>> /\ Records(writer) = <<>> /\ queue = <<>> /\ failures = 0
    BY RecordsNothing DEF Init
  <2>2. (<<>> \o <<>>) \o <<>> = <<>> /\ Len(<<>>) = 0 /\ (failures = 0) = TRUE
    BY <2>1, ConcatEmptySeq, EmptySeq
  <2>. QED
    BY <2>1, <2>2 DEF Log!Init
<1>2. Sound /\ [Next]_vars => [Log!Next]_(Log!vars)
  BY LogNext DEF LogStep
<1>. QED
  BY <1>1, <1>2, SoundAlways, PTL DEF Spec, ImplementsDurableLog, Log!Spec

-----------------------------------------------------------------------------
(***************************************************************************)
(* The log describes the store                                             *)
(***************************************************************************)
\* What a reader sees once the operation is replayed, if it is plain.
Result(operation) ==
    IF operation.name = "ADD"
    THEN [value |-> operation.value, timestamp |-> operation.timestamp]
    ELSE NotFound

(***************************************************************************)
(* Replaying the whole log, record by record and wherever its records are, *)
(* gives what the store has of a key; while a request for the key is under *)
(* way, what the store is going to have.                                   *)
(***************************************************************************)
Describes(k) ==
    LET replayed == Get(ReplayRecords(Logged), k)
    IN  /\ (\A o \in InFlight : op[o].key # k) => replayed = Get(store, k)
        /\ \A o \in InFlight : op[o].key = k => replayed = Result(op[o])

\* What the log says of key k, it says plainly.
PlainLog(k) ==
    \A i \in 1..Len(Logged) : Concerns(k, Logged[i]) => Plain(Logged[i])

\* Of which keys that is claimed: a restart reads them from the file.
Clear(k) == k \notin overlapped /\ LegibleIn(file, k) /\ PlainLog(k)

Described == failures = 0 => \A k \in Key : Clear(k) => Describes(k)

\* A plain record gives its key what it says, and leaves the others alone.
LEMMA GetReplayed ==
    ASSUME NEW s \in Store, NEW e \in Operation, NEW k \in Key, Concerns(k, e) => Plain(e)
    PROVE  Get(Replayed(s, e), k) = IF k = e.key THEN Result(e) ELSE Get(s, k)
<1>1. CASE ~Concerns(k, e)
  <2>1. k # e.key /\ Replayed(s, e)[k] = s[k]
    BY <1>1, NoConcern DEF Concerns
  <2>. QED
    BY <2>1 DEF Get, Live
<1>2. CASE Concerns(k, e)
  <2>1. Parse(e) = e /\ e # None /\ e.key = k
    BY <1>2, NoneAssumption DEF Plain, Concerns
  <2>2. /\ Replayed(s, e)[k] = IF e.name = "ADD" THEN MadeOf(e) ELSE None
        /\ e.name = "ADD" => MadeOf(e) \in Entry
    BY <2>1, ReplayedEffect
  <2>3. CASE e.name = "ADD"
    <3>1. MadeOf(e) # None
      BY <2>2, <2>3, NoneAssumption
    <3>2. /\ MadeOf(e).valid /\ MadeOf(e).value = e.value
          /\ MadeOf(e).timestamp = e.timestamp
      BY DEF MadeOf
    <3>. QED
      BY <2>1, <2>2, <2>3, <3>1, <3>2 DEF Get, Live, Result
  <2>4. CASE e.name # "ADD"
    BY <2>1, <2>2, <2>4 DEF Get, Live, Result
  <2>. QED
    BY <2>3, <2>4
<1>. QED
  BY <1>1, <1>2

\* The file only grows, and the disk does not recover.
LEMMA GoodBefore ==
    ASSUME Sound, [Next]_vars, failures' = 0
    PROVE  /\ failures = 0
           /\ \A k \in Key : LegibleIn(file', k) => LegibleIn(file, k)
<1>1. failures \in Nat /\ file \in Seq(Piece) /\ writer \in Seq(Piece) /\ queue \in Seq(Operation)
      /\ TypeOK /\ FinitelyMany
  BY DEF Sound, TypeOK
<1>2. ASSUME NEW p \in Piece, WriteAll(p)
      PROVE  failures' \in {failures, failures + 1} /\ \E t \in Seq(Piece) : file' = file \o t
  <2>1. <<>> \in Seq(Piece) /\ file = file \o <<>>
    BY <1>1, ConcatEmptySeq, EmptySeq
  <2>2. writer \o <<p>> \in Seq(Piece) /\ (file \o writer) \o <<p>> = file \o (writer \o <<p>>)
    <3>1. <<p>> \in Seq(Piece)
      OBVIOUS
    <3>. QED
      BY <1>1, <3>1, ConcatAssociative, ConcatProperties
  <2>3. failures' \in {failures, failures + 1}
    BY <1>2 DEF WriteAll, Buffered, BlockWritten, WrittenDirectly, DirectLost, BlockLost, Refused
  <2>4. file' \in {file, file \o writer, (file \o writer) \o <<p>>}
    BY <1>2 DEF WriteAll, Buffered, BlockWritten, WrittenDirectly, DirectLost, BlockLost, Refused
  <2>5. CASE file' = file
    BY <2>1, <2>3, <2>5
  <2>6. CASE file' = file \o writer
    BY <1>1, <2>3, <2>6
  <2>7. CASE file' = (file \o writer) \o <<p>>
    BY <2>2, <2>3, <2>7
  <2>. QED
    BY <2>4, <2>5, <2>6, <2>7
<1>3. ASSUME file' = file, failures' = failures
      PROVE  failures' \in {failures, failures + 1} /\ \E t \in Seq(Piece) : file' = file \o t
  BY <1>1, <1>3, ConcatEmptySeq, EmptySeq
<1>4. failures' \in {failures, failures + 1} /\ \E t \in Seq(Piece) : file' = file \o t
  <2>1. CASE PopRecord
    <3>1. WriteAll(Head(queue)) /\ Head(queue) \in Piece
      BY <1>1, <2>1, HeadTailProperties DEF PopRecord, Piece
    <3>. QED
      BY <1>2, <3>1
  <2>2. CASE EndRecord
    BY <1>2, <2>2 DEF EndRecord, Piece
  <2>3. CASE Flush
    <3>1. failures' \in {failures, failures + 1}
      BY <2>3 DEF Flush
    <3>2. file' = file \/ file' = file \o writer
      BY <2>3 DEF Flush
    <3>3. file = file \o <<>> /\ <<>> \in Seq(Piece)
      BY <1>1, ConcatEmptySeq, EmptySeq
    <3>. QED
      BY <1>1, <3>1, <3>2, <3>3
  <2>4. CASE Tick \/ QueueEmpty \/ Restart \/ UNCHANGED vars
    BY <1>3, <2>4 DEF Tick, QueueEmpty, Restart, vars, diskVars
  <2>5. ASSUME NEW o \in Request, Comes(o) \/ StoreAdd(o) \/ StoreRemoveCheck(o) \/ StoreRemoveUpdate(o)
        PROVE  file' = file /\ failures' = failures
    BY <2>5 DEF Comes, Invoke, StoreAdd, StoreRemoveCheck, StoreRemoveUpdate, diskVars
  <2>. QED
    BY <1>1, <1>3, <2>1, <2>2, <2>3, <2>4, <2>5, Steps
<1>5. PICK t \in Seq(Piece) : file' = file \o t
  BY <1>4
<1>6. \A k \in Key : LegibleIn(file \o t, k) => LegibleIn(file, k)
  BY <1>1, LegibleBeginning
<1>. QED
  BY <1>1, <1>4, <1>5, <1>6

\* What the log says plainly, its beginning does.
LEMMA PlainBefore ==
    ASSUME TypeOK, NEW e \in Operation, Logged' = Append(Logged, e), NEW k, PlainLog(k)'
    PROVE  PlainLog(k) /\ (Concerns(k, e) => Plain(e))
<1>. DEFINE n == Len(Logged)
<1>1. /\ Len(Logged') = n + 1 /\ n \in Nat /\ Logged'[n + 1] = e
      /\ \A i \in 1..n : Logged'[i] = Logged[i]
  BY LogTypes
<1>2. \A i \in 1..n + 1 : Concerns(k, Logged'[i]) => Plain(Logged'[i])
  BY <1>1 DEF PlainLog
<1>3. n + 1 \in 1..n + 1 /\ \A i \in 1..n : i \in 1..n + 1
  BY <1>1
<1>. QED
  BY <1>1, <1>2, <1>3 DEF PlainLog

\* A request comes: its operation is the last of its key in the log.
LEMMA DescribedComes ==
    ASSUME Sound, NEW o \in Request, Comes(o), NEW k \in Key, Clear(k)', Clear(k) => Describes(k)
    PROVE  Describes(k)'
<1>. USE DEF storeVars
<1>1. PICK e \in Operation : Invoke(o, e)
  BY DEF Comes
<1>2. Logged' = Append(Logged, e) /\ Logged \in Seq(Operation)
  BY <1>1, StepComes, LogTypes DEF Sound
<1>3. /\ ReplayRecords(Logged') = Replayed(ReplayRecords(Logged), e)
      /\ ReplayRecords(Logged) \in Store
  BY <1>2, ReplayOneMore, ReplayRecordsType
<1>4. /\ e.key \in Key /\ o \notin InFlight /\ op'[o] = e /\ UNCHANGED store
      /\ InFlight' = InFlight \cup {o}
      /\ \A p \in Request : p # o => op'[p] = op[p]
      /\ overlapped' = overlapped \cup {l \in {e.key} : \E p \in InFlight : op[p].key = l}
  <2>1. InFlight' = InFlight \cup {o}
    BY <1>1 DEF Invoke, InFlight, Sound, TypeOK
  <2>. QED
    BY <1>1, <2>1 DEF Invoke, InFlight, Sound, TypeOK, Operation
<1>5. PlainLog(k) /\ (Concerns(k, e) => Plain(e)) /\ k \notin overlapped'
  BY <1>2, PlainBefore DEF Clear, Sound
<1>6. Describes(k)
  <2>1. file' = file
    BY <1>1 DEF Invoke, diskVars
  <2>. QED
    BY <1>4, <1>5, <2>1 DEF Clear, LegibleIn, AloneIn
<1>7. Get(ReplayRecords(Logged'), k) = IF k = e.key THEN Result(e) ELSE Get(ReplayRecords(Logged), k)
  BY <1>3, <1>5, GetReplayed
<1>8. CASE k = e.key
  <2>1. \A p \in InFlight : op[p].key # k
    BY <1>4, <1>8, <1>5
  <2>2. \A p \in InFlight' : op'[p].key = k => p = o
    BY <1>4, <2>1 DEF InFlight
  <2>. QED
    BY <1>4, <1>7, <1>8, <2>2 DEF Describes
<1>9. CASE k # e.key
  <2>1. \A p \in InFlight' : op'[p].key = k <=> p \in InFlight /\ op[p].key = k
    BY <1>4, <1>9 DEF InFlight
  <2>2. \A p \in InFlight : p \in InFlight' /\ op'[p] = op[p]
    BY <1>4 DEF InFlight
  <2>. QED
    BY <1>4, <1>6, <1>7, <1>9, <2>1, <2>2 DEF Describes
<1>. QED
  BY <1>8, <1>9

\* A request that ends leaves in the store what the log says.
LEMMA DescribedEnds ==
    ASSUME Sound, NEW o \in InFlight, NEW k \in Key, Describes(k),
           UNCHANGED <<op, queue, diskVars>>,
           InFlight' = InFlight \ {o},
           IF op[o].key = k THEN Result(op[o]) = Get(store', k)
                            ELSE Get(store', k) = Get(store, k)
    PROVE  Describes(k)'
<1>1. Logged' = Logged
  BY StepRests DEF diskVars
<1>2. CASE op[o].key = k
  <2>1. Get(ReplayRecords(Logged), k) = Result(op[o])
    BY <1>2 DEF Describes
  <2>. QED
    BY <1>1, <1>2, <2>1 DEF Describes
<1>3. CASE op[o].key # k
  BY <1>1, <1>3 DEF Describes
<1>. QED
  BY <1>2, <1>3

LEMMA DescribedStore ==
    ASSUME Sound, NEW o \in Request, StoreStep(o), NEW k \in Key, Describes(k)
    PROVE  Describes(k)'
<1>. USE DEF storeVars, diskVars
<1>1. o \in InFlight /\ op[o] \in Operation /\ op[o].name = NameOf(o)
  BY DEF StoreStep, StoreAdd, StoreRemoveCheck, StoreRemoveUpdate, InFlight, Sound, Tasks
<1>2. /\ op[o].key \in Key /\ op[o].timestamp \in Nat /\ store \in [Key -> Entry \cup {None}]
      /\ op[o].name = "ADD" => op[o].value \in Value
  BY <1>1 DEF Operation, Sound, TypeOK, Store
<1>3. CASE StoreAdd(o)
  <2>. DEFINE entry == [value |-> op[o].value, timestamp |-> op[o].timestamp, valid |-> TRUE]
  <2>1. op[o].name = "ADD" /\ store' = [store EXCEPT ![op[o].key] = entry]
    BY <1>1, <1>3 DEF StoreAdd, NameOf, Add
  <2>2. entry \in Entry /\ entry.valid /\ entry.value = op[o].value /\ entry.timestamp = op[o].timestamp
    BY <1>2, <2>1 DEF Entry
  <2>. HIDE DEF entry
  <2>3. entry # None
    BY <2>2, NoneAssumption
  <2>4. CASE op[o].key = k
    <3>1. store'[k] = entry
      BY <1>2, <2>1, <2>4
    <3>2. Get(store', k) = [value |-> op[o].value, timestamp |-> op[o].timestamp]
      BY <2>2, <2>3, <3>1 DEF Get, Live
    <3>5. Result(op[o]) = Get(store', k)
      BY <2>1, <3>2 DEF Result
    <3>6. InFlight' = InFlight \ {o} /\ UNCHANGED <<op, queue, diskVars>>
      BY <1>3 DEF StoreAdd, InFlight, Sound, TypeOK
    <3>. QED
      BY <1>1, <2>4, <3>5, <3>6, DescribedEnds
  <2>5. CASE op[o].key # k
    <3>1. Get(store', k) = Get(store, k)
      BY <1>2, <2>1, <2>5 DEF Get, Live
    <3>2. InFlight' = InFlight \ {o} /\ UNCHANGED <<op, queue, diskVars>>
      BY <1>3 DEF StoreAdd, InFlight, Sound, TypeOK
    <3>. QED
      BY <1>1, <2>5, <3>1, <3>2, DescribedEnds
  <2>. QED
    BY <2>4, <2>5
<1>4. ASSUME o \in Removes PROVE Result(op[o]) = NotFound
  <2>1. op[o].name = "REMOVE"
    BY <1>1, <1>4, AofAssumption DEF NameOf
  <2>. QED
    BY <2>1 DEF Result
<1>5. CASE StoreRemoveCheck(o) /\ Live(store, op[o].key)
  <2>1. InFlight' = InFlight /\ UNCHANGED <<store, op, queue, writer, file, failures>>
    BY <1>5 DEF StoreRemoveCheck, InFlight, Sound, TypeOK
  <2>2. Logged' = Logged
    BY <2>1, StepRests
  <2>. QED
    BY <2>1, <2>2 DEF Describes
<1>6. CASE StoreRemoveCheck(o) /\ ~Live(store, op[o].key)
  <2>1. /\ InFlight' = InFlight \ {o} /\ UNCHANGED <<op, queue, diskVars>>
        /\ UNCHANGED store /\ o \in Removes
    BY <1>6 DEF StoreRemoveCheck, InFlight, Sound, TypeOK
  <2>2. op[o].key = k => Result(op[o]) = Get(store', k)
    BY <1>4, <1>6, <2>1 DEF Get
  <2>. QED
    BY <1>1, <2>1, <2>2, DescribedEnds
<1>7. CASE StoreRemoveUpdate(o)
  <2>. DEFINE entry == [value |-> cloned[o], timestamp |-> op[o].timestamp, valid |-> FALSE]
  <2>1. /\ InFlight' = InFlight \ {o} /\ UNCHANGED <<op, queue, diskVars>>
        /\ o \in Removes
    BY <1>1, <1>7 DEF StoreRemoveUpdate, InFlight, Sound, TypeOK, Tasks
  <2>2. store' = [store EXCEPT ![op[o].key] = entry] /\ ~entry.valid
    BY <1>7 DEF StoreRemoveUpdate, Bury
  <2>. HIDE DEF entry
  <2>3. CASE op[o].key = k
    <3>1. store'[k] = entry
      BY <1>2, <2>2, <2>3
    <3>2. Result(op[o]) = Get(store', k)
      BY <1>4, <2>1, <2>2, <3>1 DEF Get, Live
    <3>. QED
      BY <1>1, <2>1, <2>3, <3>2, DescribedEnds
  <2>4. CASE op[o].key # k
    <3>1. Get(store', k) = Get(store, k)
      BY <1>2, <2>2, <2>4 DEF Get, Live
    <3>. QED
      BY <1>1, <2>1, <2>4, <3>1, DescribedEnds
  <2>. QED
    BY <2>3, <2>4
<1>. QED
  BY <1>3, <1>5, <1>6, <1>7 DEF StoreStep, StoreRemoveCheck

\* After a restart the store is what replay made of the file.
LEMMA DescribedRestart ==
    ASSUME Sound, Restart, NEW k \in Key, LegibleIn(file, k)
    PROVE  Describes(k)'
<1>1. Logged' = Records(file) /\ file \in Seq(Piece)
  BY StepRestarts DEF Sound, TypeOK
<1>2. store' = Replay(file) /\ Replay(file)[k] = ReplayRecords(Records(file))[k]
  BY <1>1, LegibleRead DEF Restart
<1>3. InFlight' = {}
  BY DEF Restart, InFlight
<1>. QED
  BY <1>1, <1>2, <1>3 DEF Describes, Get, Live

LEMMA DescribedNext == Sound /\ Described /\ [Next]_vars => Described'
<1>. SUFFICES ASSUME Sound, Described, [Next]_vars, failures' = 0, NEW k \in Key, Clear(k)'
              PROVE  Describes(k)'
  BY DEF Described
<1>1. Clear(k) => Describes(k)
  BY GoodBefore DEF Described
<1>2. LegibleIn(file, k) /\ k \notin overlapped'
  BY GoodBefore DEF Clear, LegibleIn, AloneIn
<1>3. ASSUME Logged' = Logged, overlapped' = overlapped PROVE Describes(k)
  <2>1. PlainLog(k)
    BY <1>3 DEF Clear, PlainLog
  <2>. QED
    BY <1>1, <1>2, <1>3, <2>1 DEF Clear
<1>4. ASSUME Logged' = Logged, UNCHANGED storeVars PROVE Describes(k)'
  BY <1>3, <1>4 DEF Describes, InFlight, storeVars
<1>5. CASE PopRecord
  BY <1>4, <1>5, StepPops DEF PopRecord
<1>6. CASE EndRecord \/ Flush
  BY <1>4, <1>6, StepEnds DEF EndRecord, Flush
<1>7. CASE Tick \/ QueueEmpty \/ UNCHANGED vars
  BY <1>4, <1>7, StepRests DEF Tick, QueueEmpty, vars, diskVars
<1>8. ASSUME NEW o \in Request, Comes(o) PROVE Describes(k)'
  BY <1>1, <1>8, DescribedComes
<1>9. ASSUME NEW o \in Request, StoreStep(o) PROVE Describes(k)'
  <2>1. overlapped' = overlapped /\ UNCHANGED <<queue, writer, file, failures>>
    BY <1>9 DEF StoreStep, StoreAdd, StoreRemoveCheck, StoreRemoveUpdate, diskVars
  <2>2. Describes(k)
    BY <1>3, <2>1, StepRests
  <2>. QED
    BY <1>9, <2>2, DescribedStore
<1>10. CASE Restart
  BY <1>2, <1>10, DescribedRestart
<1>11. FinitelyMany
  BY DEF Sound
<1>. QED
  BY <1>5, <1>6, <1>7, <1>8, <1>9, <1>10, <1>11, Steps DEF StoreStep

LEMMA DescribedInit == Init => Described
<1>. SUFFICES ASSUME Init, NEW k \in Key PROVE Describes(k)
  BY DEF Described
<1>1. Logged = <<>>
  <2>1. Records(file) = <<>> /\ Records(writer) = <<>> /\ queue = <<>>
    BY RecordsNothing DEF Init
  <2>2. (<<>> \o <<>>) \o <<>> = <<>>
    BY ConcatEmptySeq, EmptySeq
  <2>. QED
    BY <2>1, <2>2 DEF Logged, LogOf
<1>2. ReplayRecords(Logged) = EmptyStore /\ store = EmptyStore /\ InFlight = {}
  BY <1>1, ReplayNothing DEF Init, InFlight
<1>. QED
  BY <1>2 DEF Describes

(***************************************************************************)
(* Once everything is flushed, replaying the file gives every key whose    *)
(* writes did not overlap exactly what the store has of it, if the records *)
(* that concern it are plain and on lines of their own: for any number of  *)
(* requests and restarts, refused removals included, and whatever the      *)
(* records of other keys read as.                                          *)
(***************************************************************************)
THEOREM ReplayRestoresSerialKeysHolds == Spec => []ReplayRestoresSerialKeys
<1>1. Sound /\ Described => ReplayRestoresSerialKeys
  <2>. SUFFICES ASSUME Sound, Described, AllFlushed, NEW k \in Key \ overlapped, Legible(k)
                PROVE  Restorable(k)
    BY DEF ReplayRestoresSerialKeys
  <2>1. file \in Seq(Piece) /\ LegibleIn(file, k)
    BY DEF Legible, LegibleIn, Alone, AloneIn, Sound, TypeOK
  <2>2. Logged = Records(file)
    <3>1. Records(file) \in Seq(Operation) /\ Records(writer) = <<>> /\ queue = <<>>
      BY LogTypes, RecordsNothing DEF AllFlushed, Sound
    <3>2. Records(file) \o <<>> = Records(file)
      BY <3>1, ConcatEmptySeq
    <3>. QED
      BY <3>1, <3>2 DEF Logged, LogOf
  <2>3. PlainLog(k)
    BY <2>1, <2>2, RecordsFrom DEF PlainLog, LegibleIn
  <2>4. Describes(k)
    BY <2>1, <2>3 DEF Described, Clear, AllFlushed
  <2>5. Get(ReplayRecords(Records(file)), k) = Get(store, k)
    BY <2>2, <2>4 DEF Describes, AllFlushed
  <2>6. Replay(file)[k] = ReplayRecords(Records(file))[k]
    BY <2>1, LegibleRead
  <2>. QED
    BY <2>5, <2>6 DEF Restorable, Get, Live
<1>2. Spec => []Described
  BY SoundAlways, DescribedInit, DescribedNext, PTL DEF Spec
<1>. QED
  BY <1>1, <1>2, SoundAlways, PTL

=============================================================================
