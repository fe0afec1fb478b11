-------------------------- MODULE LallyReplayProofs --------------------------
(***************************************************************************)
(* What replaying a log does, for every log: folds over sequences, the     *)
(* effect of one more record or piece, and where every restored entry      *)
(* comes from.                                                             *)
(***************************************************************************)
EXTENDS LallyReplay, TLAPS, WellFoundedInduction, SequenceTheorems

-----------------------------------------------------------------------------
(***************************************************************************)
(* Folds                                                                   *)
(***************************************************************************)
\* Induction over the natural numbers, for a set instead of a predicate.
LEMMA Induction ==
    ASSUME NEW S, 0 \in S, \A n \in Nat : n \in S => n + 1 \in S
    PROVE  Nat \subseteq S
<1>1. SUFFICES ASSUME Nat \ S # {} PROVE FALSE
  OBVIOUS
<1>2. PICK n \in Nat \ S : \A m \in Nat \ S : ~(m < n)
  <2>1. IsWellFoundedOn(OpToRel(<, Nat), Nat)
    BY NatLessThanWellFounded
  <2>2. PICK n \in Nat \ S : \A m \in Nat \ S : ~(<<m, n>> \in OpToRel(<, Nat))
    BY <1>1, <2>1, WFMin
  <2>. QED
    BY <2>2 DEF OpToRel
<1>3. n # 0 /\ n - 1 \in Nat /\ n - 1 < n
  BY <1>2
<1>4. n - 1 \in S
  BY <1>2, <1>3
<1>. QED
  BY <1>2, <1>3, <1>4

\* Induction over sequences, one more element at a time.
LEMMA SequenceInduction ==
    ASSUME NEW A, NEW S, <<>> \in S, \A s \in Seq(A), e \in A : s \in S => Append(s, e) \in S
    PROVE  Seq(A) \subseteq S
<1>. DEFINE T == {n \in Nat : \A s \in Seq(A) : Len(s) = n => s \in S}
<1>1. 0 \in T
  BY EmptySeq
<1>2. ASSUME NEW n \in Nat, n \in T PROVE n + 1 \in T
  <2>1. ASSUME NEW s \in Seq(A), Len(s) = n + 1 PROVE s \in S
    <3>1. PICK t \in Seq(A), e \in A : s = Append(t, e)
      <4>1. s # <<>>
        BY <2>1
      <4>. QED
        BY <4>1, SequenceEmptyOrAppend
    <3>2. Len(t) = n
      BY <2>1, <3>1
    <3>. QED
      BY <1>2, <3>1, <3>2
  <2>. QED
    BY <2>1
<1>. HIDE DEF T
<1>3. Nat \subseteq T
  BY <1>1, <1>2, Induction
<1>4. \A s \in Seq(A) : Len(s) \in T
  BY <1>3
<1>. QED
  BY <1>4 DEF T

LEMMA MaxInterval ==
    ASSUME NEW n \in Nat, NEW s \in SUBSET (1..n + 1), n + 1 \in s
    PROVE  Max(s) = n + 1
<1>1. n + 1 \in s /\ \A y \in s : n + 1 >= y
  OBVIOUS
<1>2. \A x \in s : (\A y \in s : x >= y) => x = n + 1
  OBVIOUS
<1>. QED
  BY ONLY <1>1, <1>2 DEF Max

LEMMA LastOfInterval ==
    ASSUME NEW n \in Nat
    PROVE  Max(1..n + 1) = n + 1 /\ (1..n + 1) \ {n + 1} = 1..n /\ 1..n + 1 # {}
<1>1. n + 1 \in 1..n + 1
  OBVIOUS
<1>2. Max(1..n + 1) = n + 1
  BY <1>1, MaxInterval
<1>3. (1..n + 1) \ {n + 1} = 1..n
  <2>1. \A i : i \in (1..n + 1) \ {n + 1} <=> i \in 1..n
    OBVIOUS
  <2>. QED
    BY ONLY <2>1
<1>. QED
  BY <1>1, <1>2, <1>3

LEMMA MaxIndex ==
    ASSUME NEW n \in Nat, NEW s \in SUBSET (1..n), s # {}
    PROVE  Max(s) \in s
<1>. DEFINE T == {m \in Nat : \A t \in SUBSET (1..m) : t # {} => \E x \in t : \A y \in t : x >= y}
<1>1. 0 \in T
  <2>1. 1..0 = {}
    OBVIOUS
  <2>. QED
    BY <2>1
<1>2. ASSUME NEW m \in Nat, m \in T PROVE m + 1 \in T
  <2>. SUFFICES ASSUME NEW t \in SUBSET (1..m + 1), t # {} PROVE \E x \in t : \A y \in t : x >= y
    OBVIOUS
  <2>1. CASE m + 1 \in t
    BY <2>1
  <2>2. CASE m + 1 \notin t
    <3>1. t \in SUBSET (1..m)
      BY <2>2
    <3>. QED
      BY <1>2, <3>1
  <2>. QED
    BY <2>1, <2>2
<1>. HIDE DEF T
<1>3. Nat \subseteq T
  BY <1>1, <1>2, Induction
<1>4. \E x \in s : \A y \in s : x >= y
  BY <1>3 DEF T
<1>. QED
  BY <1>4 DEF Max

(***************************************************************************)
(* A fold of n elements with a given step is well-defined.                 *)
(***************************************************************************)
Folds(base, step, seq, n, h) ==
    h = [s \in SUBSET (1..n) |->
            IF s = {} THEN base ELSE step[<<h[s \ {Max(s)}], seq[Max(s)]>>]]

Foldable(A, base, step, seq, n) ==
    \E h \in [SUBSET (1..n) -> A] : Folds(base, step, seq, n, h)

LEMMA FoldExists ==
    ASSUME NEW A, NEW P, NEW base \in A, NEW step \in [A \X P -> A], NEW seq,
           NEW n \in Nat, \A i \in 1..n : seq[i] \in P
    PROVE  Foldable(A, base, step, seq, n)
<1>. DEFINE S == {m \in Nat : m <= n => Foldable(A, base, step, seq, m)}
<1>1. 0 \in S
  <2>1. Folds(base, step, seq, 0, [s \in SUBSET (1..0) |-> base])
    BY DEF Folds
  <2>2. [s \in SUBSET (1..0) |-> base] \in [SUBSET (1..0) -> A]
    OBVIOUS
  <2>. QED
    BY <2>1, <2>2 DEF Foldable
<1>2. ASSUME NEW m \in Nat, m \in S PROVE m + 1 \in S
  <2>. SUFFICES ASSUME m + 1 <= n
                PROVE  Foldable(A, base, step, seq, m + 1)
    OBVIOUS
  <2>0. Foldable(A, base, step, seq, m)
    BY <1>2
  <2>. HIDE DEF S
  <2>1. PICK h \in [SUBSET (1..m) -> A] : Folds(base, step, seq, m, h)
    BY <2>0 DEF Foldable
  <2>. DEFINE g == [s \in SUBSET (1..m + 1) |->
                       IF m + 1 \in s THEN step[<<h[s \ {m + 1}], seq[m + 1]>>] ELSE h[s]]
  <2>2. \A s \in SUBSET (1..m) : /\ s \in SUBSET (1..m + 1) /\ g[s] = h[s]
                                 /\ s \ {Max(s)} \in SUBSET (1..m)
    <3>1. \A s \in SUBSET (1..m) : s \in SUBSET (1..m + 1) /\ m + 1 \notin s
      OBVIOUS
    <3>. QED
      BY <3>1
  <2>3. ASSUME NEW s \in SUBSET (1..m + 1)
        PROVE  /\ g[s] = IF s = {} THEN base ELSE step[<<g[s \ {Max(s)}], seq[Max(s)]>>]
               /\ g[s] \in A
    <3>1. CASE m + 1 \in s
      <4>1. Max(s) = m + 1
        BY <3>1, MaxInterval
      <4>2. s \ {m + 1} \in SUBSET (1..m)
        OBVIOUS
      <4>3. h[s \ {m + 1}] \in A /\ seq[m + 1] \in P
        BY <2>1, <4>2
      <4>4. step[<<h[s \ {m + 1}], seq[m + 1]>>] \in A
        BY <4>3
      <4>. QED
        BY <2>2, <3>1, <4>1, <4>2, <4>4
    <3>2. CASE m + 1 \notin s
      <4>1. s \in SUBSET (1..m)
        BY <3>2
      <4>2. h[s] = IF s = {} THEN base ELSE step[<<h[s \ {Max(s)}], seq[Max(s)]>>]
        BY <2>1, <4>1 DEF Folds
      <4>. QED
        BY <2>1, <2>2, <4>1, <4>2
    <3>. QED
      BY <3>1, <3>2
  <2>4. g = [s \in SUBSET (1..m + 1) |-> g[s]]
    OBVIOUS
  <2>. HIDE DEF g
  <2>5. Folds(base, step, seq, m + 1, g) /\ g \in [SUBSET (1..m + 1) -> A]
    BY <2>3, <2>4 DEF Folds
  <2>. QED
    BY <2>5 DEF Foldable
<1>. HIDE DEF S
<1>3. Nat \subseteq S
  BY <1>1, <1>2, Induction
<1>4. n \in S
  BY <1>3
<1>. QED
  BY <1>4 DEF S

-----------------------------------------------------------------------------
(***************************************************************************)
(* Replay, record by record                                                *)
(***************************************************************************)
\* What replay makes of records, each on a line of its own.
ReplayRecords(records) == FoldLeft(Replayed, EmptyStore, records)

\* What a line says is an operation, or nothing.
LEMMA ParseType ==
    ASSUME NEW operation \in Operation
    PROVE  /\ Parse(operation) \in Operation \cup {None}
           /\ Parse(operation) = None <=> Reread[ContentOf(operation)] = None
           /\ Parse(operation) # None => Parse(operation).key = Reread[ContentOf(operation)].key
<1>. DEFINE said == Reread[ContentOf(operation)]
<1>1. ContentOf(operation) \in Content /\ operation.timestamp \in Nat
  BY DEF ContentOf, Content, Operation
<1>2. said \in Said \cup {None}
  BY <1>1, ReplayAssumption
<1>. HIDE DEF said
<1>3. CASE said = None
  BY <1>3 DEF Parse, said
<1>4. CASE said # None /\ said.timestamp # None
  <2>1. said \in Operation
    BY <1>2, <1>4 DEF Said, Operation
  <2>. QED
    BY <1>4, <2>1 DEF Parse, said
<1>5. CASE said # None /\ said.timestamp = None
  <2>1. Parse(operation) = [said EXCEPT !.timestamp = operation.timestamp]
    BY <1>5 DEF Parse, said
  <2>2. [said EXCEPT !.timestamp = operation.timestamp] \in Operation
    BY <1>1, <1>2, <1>5 DEF Said, Operation
  <2>3. [said EXCEPT !.timestamp = operation.timestamp].key = said.key
    BY <1>2, <1>5 DEF Said
  <2>. QED
    BY <1>5, <2>1, <2>2, <2>3, NoneAssumption DEF said
<1>. QED
  BY <1>3, <1>4, <1>5

\* What one more line does to a store: it touches the key it names, and no other.
MadeOf(said) == [value |-> said.value, timestamp |-> said.timestamp, valid |-> TRUE]

LEMMA ReplayedEffect ==
    ASSUME NEW s \in Store, NEW operation \in Operation
    PROVE  LET said == Parse(operation)
           IN  /\ Replayed(s, operation) \in Store
               /\ \A k \in Key : said = None \/ said.key # k => Replayed(s, operation)[k] = s[k]
               /\ said # None => /\ said.key \in Key
                                 /\ Replayed(s, operation)[said.key] =
                                        IF said.name = "ADD" THEN MadeOf(said) ELSE None
               /\ said # None /\ said.name = "ADD" => MadeOf(said) \in Entry
<1>. DEFINE said == Parse(operation)
<1>1. said \in Operation \cup {None} /\ s \in [Key -> Entry \cup {None}]
  BY ParseType DEF Store
<1>2. said # None => said.key \in Key /\ said.timestamp \in Nat
  BY <1>1 DEF Operation
<1>3. said # None /\ said.name = "ADD" => MadeOf(said) \in Entry
  BY <1>1, <1>2 DEF MadeOf, Entry, Operation
<1>4. Replayed(s, operation) = IF said = None THEN s
                               ELSE IF said.name = "ADD" THEN [s EXCEPT ![said.key] = MadeOf(said)]
                               ELSE [s EXCEPT ![said.key] = None]
  BY DEF Replayed, Add, MadeOf
<1>. HIDE DEF said
<1>5. Replayed(s, operation) \in Store
  BY <1>1, <1>2, <1>3, <1>4 DEF Store
<1>6. \A k \in Key : said = None \/ said.key # k => Replayed(s, operation)[k] = s[k]
  BY <1>1, <1>4
<1>7. said # None => Replayed(s, operation)[said.key] =
                         IF said.name = "ADD" THEN MadeOf(said) ELSE None
  BY <1>1, <1>2, <1>4
<1>. QED
  BY <1>2, <1>3, <1>5, <1>6, <1>7 DEF said

LEMMA ReplayedType ==
    ASSUME NEW s \in Store, NEW operation \in Operation
    PROVE  Replayed(s, operation) \in Store
BY ReplayedEffect

\* h is the function by which FoldLeft replays the records with numbers in S.
IsFold(S, h, records) ==
    h = [s \in SUBSET S |-> IF s = {} THEN EmptyStore
                                      ELSE Replayed(h[s \ {Max(s)}], records[Max(s)])]

\* What h makes of a prefix.
LEMMA FoldStep ==
    ASSUME NEW records, NEW n \in Nat, NEW h, IsFold(1..n, h, records),
           NEW i \in Nat, i + 1 <= n
    PROVE  h[1..i + 1] = Replayed(h[1..i], records[i + 1])
<1>. DEFINE s == 1..i + 1
<1>1. s \in SUBSET (1..n)
  OBVIOUS
<1>2. s # {} /\ Max(s) = i + 1 /\ s \ {i + 1} = 1..i
  BY LastOfInterval
<1>. HIDE DEF s
<1>3. h[s] = IF s = {} THEN EmptyStore ELSE Replayed(h[s \ {Max(s)}], records[Max(s)])
  BY <1>1 DEF IsFold
<1>4. h[s] = Replayed(h[1..i], records[i + 1])
  BY <1>2, <1>3
<1>. QED
  BY <1>4 DEF s

\* It makes the same of the same prefix.
LEMMA FoldPrefix ==
    ASSUME NEW records, NEW others, NEW m \in Nat, NEW n \in Nat, m <= n,
           NEW h, IsFold(1..m, h, records), NEW g, IsFold(1..n, g, others),
           \A i \in 1..m : records[i] = others[i]
    PROVE  h[1..m] = g[1..m]
<1>. DEFINE S == {i \in Nat : i <= m => h[1..i] = g[1..i]}
<1>1. 0 \in S
  <2>1. 1..0 = {}
    OBVIOUS
  <2>. QED
    BY <2>1 DEF IsFold
<1>2. ASSUME NEW i \in Nat, i \in S PROVE i + 1 \in S
  <2>1. SUFFICES ASSUME i + 1 <= m PROVE h[1..i + 1] = g[1..i + 1]
    OBVIOUS
  <2>3. h[1..i + 1] = Replayed(h[1..i], records[i + 1])
    BY <2>1, FoldStep
  <2>4. g[1..i + 1] = Replayed(g[1..i], others[i + 1])
    BY <2>1, FoldStep
  <2>. QED
    BY <1>2, <2>1, <2>3, <2>4
<1>. HIDE DEF S
<1>3. Nat \subseteq S
  BY <1>1, <1>2, Induction
<1>. QED
  BY <1>3 DEF S

LEMMA ReplayFold ==
    ASSUME NEW records \in Seq(Operation)
    PROVE  \E h : IsFold(1..Len(records), h, records) /\ ReplayRecords(records) = h[1..Len(records)]
<1>. DEFINE n    == Len(records)
            step == [e \in Store \X Operation |-> Replayed(e[1], e[2])]
<1>1. DOMAIN records = 1..n /\ n \in Nat /\ \A i \in 1..n : records[i] \in Operation
  OBVIOUS
<1>2. EmptyStore \in Store
  BY DEF EmptyStore, Store
<1>3. step \in [Store \X Operation -> Store]
  BY ReplayedType
<1>. HIDE DEF n, step
<1>4. PICK g \in [SUBSET (1..n) -> Store] : Folds(EmptyStore, step, records, n, g)
  <2>1. Foldable(Store, EmptyStore, step, records, n)
    BY <1>1, <1>2, <1>3, FoldExists
  <2>. QED
    BY <2>1 DEF Foldable
<1>5. ASSUME NEW s \in SUBSET (1..n), s # {}
      PROVE  step[<<g[s \ {Max(s)}], records[Max(s)]>>] = Replayed(g[s \ {Max(s)}], records[Max(s)])
  <2>1. Max(s) \in 1..n
    BY <1>1, <1>5, MaxIndex
  <2>2. g[s \ {Max(s)}] \in Store /\ records[Max(s)] \in Operation
    BY <1>1, <1>4, <2>1
  <2>. QED
    BY <2>2 DEF step
<1>6. IsFold(1..n, g, records)
  BY <1>4, <1>5 DEF IsFold, Folds
<1>7. \E h : IsFold(DOMAIN records, h, records) /\ ReplayRecords(records) = h[DOMAIN records]
  BY <1>1, <1>6 DEF ReplayRecords, FoldLeft, MapThenFoldSet, IsFold
<1>. QED
  BY <1>1, <1>7 DEF n

LEMMA ReplayNothing == ReplayRecords(<<>>) = EmptyStore
<1>1. <<>> \in Seq(Operation) /\ Len(<<>>) = 0 /\ 1..0 = {}
  OBVIOUS
<1>2. PICK h : IsFold(1..0, h, <<>>) /\ ReplayRecords(<<>>) = h[1..0]
  BY <1>1, ReplayFold
<1>. QED
  BY <1>1, <1>2 DEF IsFold

LEMMA ReplayOneMore ==
    ASSUME NEW records \in Seq(Operation), NEW operation \in Operation
    PROVE  ReplayRecords(Append(records, operation)) = Replayed(ReplayRecords(records), operation)
<1>. DEFINE n == Len(records)
            more == Append(records, operation)
<1>1. /\ more \in Seq(Operation) /\ Len(more) = n + 1 /\ n \in Nat /\ more[n + 1] = operation
      /\ \A i \in 1..n : records[i] = more[i]
  OBVIOUS
<1>. HIDE DEF more, n
<1>2. PICK h : IsFold(1..n, h, records) /\ ReplayRecords(records) = h[1..n]
  BY ReplayFold DEF n
<1>3. PICK g : IsFold(1..n + 1, g, more) /\ ReplayRecords(more) = g[1..n + 1]
  BY <1>1, ReplayFold
<1>4. h[1..n] = g[1..n]
  BY <1>1, <1>2, <1>3, FoldPrefix
<1>6. g[1..n + 1] = Replayed(g[1..n], more[n + 1])
  BY <1>1, <1>3, FoldStep
<1>. QED
  BY <1>1, <1>2, <1>3, <1>4, <1>6 DEF more

LEMMA ReplayRecordsType ==
    ASSUME NEW records \in Seq(Operation)
    PROVE  ReplayRecords(records) \in Store
<1>. DEFINE S == {s \in Seq(Operation) : ReplayRecords(s) \in Store}
<1>1. <<>> \in S
  BY ReplayNothing, EmptySeq DEF EmptyStore, Store
<1>2. ASSUME NEW s \in Seq(Operation), NEW e \in Operation, s \in S PROVE Append(s, e) \in S
  BY <1>2, ReplayOneMore, ReplayedType, AppendProperties
<1>. HIDE DEF S
<1>3. Seq(Operation) \subseteq S
  BY <1>1, <1>2, SequenceInduction
<1>. QED
  BY <1>3 DEF S

-----------------------------------------------------------------------------
(***************************************************************************)
(* Replay, piece by piece                                                  *)
(***************************************************************************)
Reading == [line : Operation \cup {None}, store : Store]

Unread == [line |-> None, store |-> EmptyStore]

ReadUpTo(pieces) == FoldLeft(Read, Unread, pieces)

\* What replay leaves when the file ends here.
Finished(acc) == IF acc.line = None THEN acc.store ELSE Replayed(acc.store, acc.line)

LEMMA UnreadType == Unread \in Reading
BY DEF Unread, Reading, EmptyStore, Store

LEMMA ReadType ==
    ASSUME NEW acc \in Reading, NEW p \in Piece
    PROVE  Read(acc, p) \in Reading
<1>1. acc.line \in Operation \cup {None} /\ acc.store \in Store
  BY DEF Reading
<1>2. CASE p # NewLine
  <2>1. p \in Operation
    BY <1>2 DEF Piece
  <2>2. Glue(acc.line, p) \in Operation
    <3>1. acc.line # None => acc.line.timestamp \in Nat
      BY <1>1 DEF Operation
    <3>2. CASE acc.line = None
      BY <2>1, <3>2 DEF Glue
    <3>3. CASE acc.line # None
      BY <2>1, <3>1, <3>3 DEF Glue, Operation
    <3>. QED
      BY <3>2, <3>3
  <2>3. Read(acc, p) = [acc EXCEPT !.line = Glue(acc.line, p)]
    BY <1>2 DEF Read
  <2>. QED
    BY <2>2, <2>3 DEF Reading
<1>3. CASE p = NewLine /\ acc.line # None
  <2>1. Replayed(acc.store, acc.line) \in Store
    BY <1>1, <1>3, ReplayedType
  <2>. QED
    BY <1>3, <2>1 DEF Read, Reading
<1>4. CASE p = NewLine /\ acc.line = None
  BY <1>4 DEF Read
<1>. QED
  BY <1>2, <1>3, <1>4

\* h is the function by which FoldLeft reads the pieces with numbers in S.
Reads(S, h, pieces) ==
    h = [s \in SUBSET S |-> IF s = {} THEN Unread ELSE Read(h[s \ {Max(s)}], pieces[Max(s)])]

LEMMA ReadUpToFold ==
    ASSUME NEW pieces \in Seq(Piece)
    PROVE  \E h : Reads(1..Len(pieces), h, pieces) /\ ReadUpTo(pieces) = h[1..Len(pieces)]
<1>. DEFINE n    == Len(pieces)
            step == [e \in Reading \X Piece |-> Read(e[1], e[2])]
<1>1. DOMAIN pieces = 1..n /\ n \in Nat /\ \A i \in 1..n : pieces[i] \in Piece
  OBVIOUS
<1>2. step \in [Reading \X Piece -> Reading]
  BY ReadType
<1>. HIDE DEF n, step
<1>3. PICK g \in [SUBSET (1..n) -> Reading] : Folds(Unread, step, pieces, n, g)
  <2>1. Foldable(Reading, Unread, step, pieces, n)
    BY <1>1, <1>2, UnreadType, FoldExists
  <2>. QED
    BY <2>1 DEF Foldable
<1>4. ASSUME NEW s \in SUBSET (1..n), s # {}
      PROVE  step[<<g[s \ {Max(s)}], pieces[Max(s)]>>] = Read(g[s \ {Max(s)}], pieces[Max(s)])
  <2>1. Max(s) \in 1..n
    BY <1>1, <1>4, MaxIndex
  <2>2. g[s \ {Max(s)}] \in Reading /\ pieces[Max(s)] \in Piece
    BY <1>1, <1>3, <2>1
  <2>. QED
    BY <2>2 DEF step
<1>5. Reads(1..n, g, pieces)
  BY <1>3, <1>4 DEF Reads, Folds
<1>6. \E h : Reads(DOMAIN pieces, h, pieces) /\ ReadUpTo(pieces) = h[DOMAIN pieces]
  BY <1>1, <1>5 DEF ReadUpTo, FoldLeft, MapThenFoldSet, Reads
<1>. QED
  BY <1>1, <1>6 DEF n

LEMMA ReadStep ==
    ASSUME NEW pieces, NEW n \in Nat, NEW h, Reads(1..n, h, pieces),
           NEW i \in Nat, i + 1 <= n
    PROVE  h[1..i + 1] = Read(h[1..i], pieces[i + 1])
<1>. DEFINE s == 1..i + 1
<1>1. s \in SUBSET (1..n)
  OBVIOUS
<1>2. s # {} /\ Max(s) = i + 1 /\ s \ {i + 1} = 1..i
  BY LastOfInterval
<1>. HIDE DEF s
<1>3. h[s] = IF s = {} THEN Unread ELSE Read(h[s \ {Max(s)}], pieces[Max(s)])
  BY <1>1 DEF Reads
<1>4. h[s] = Read(h[1..i], pieces[i + 1])
  BY <1>2, <1>3
<1>. QED
  BY <1>4 DEF s

LEMMA ReadNothing == ReadUpTo(<<>>) = Unread
<1>1. <<>> \in Seq(Piece) /\ Len(<<>>) = 0 /\ 1..0 = {}
  OBVIOUS
<1>2. PICK h : Reads(1..0, h, <<>>) /\ ReadUpTo(<<>>) = h[1..0]
  BY <1>1, ReadUpToFold
<1>. QED
  BY <1>1, <1>2 DEF Reads

LEMMA ReadOneMore ==
    ASSUME NEW pieces \in Seq(Piece), NEW p \in Piece
    PROVE  ReadUpTo(Append(pieces, p)) = Read(ReadUpTo(pieces), p)
<1>. DEFINE n    == Len(pieces)
            more == Append(pieces, p)
<1>1. /\ more \in Seq(Piece) /\ Len(more) = n + 1 /\ n \in Nat /\ more[n + 1] = p
      /\ \A i \in 1..n : more[i] = pieces[i]
  OBVIOUS
<1>. HIDE DEF n, more
<1>2. PICK h : Reads(1..n, h, pieces) /\ ReadUpTo(pieces) = h[1..n]
  BY ReadUpToFold DEF n
<1>3. PICK g : Reads(1..n + 1, g, more) /\ ReadUpTo(more) = g[1..n + 1]
  BY <1>1, ReadUpToFold
<1>. DEFINE S == {i \in Nat : i <= n => h[1..i] = g[1..i]}
<1>4. 0 \in S
  <2>1. 1..0 = {}
    OBVIOUS
  <2>. QED
    BY <1>2, <1>3, <2>1 DEF Reads
<1>5. ASSUME NEW i \in Nat, i \in S PROVE i + 1 \in S
  <2>. SUFFICES ASSUME i + 1 <= n PROVE h[1..i + 1] = g[1..i + 1]
    OBVIOUS
  <2>1. h[1..i + 1] = Read(h[1..i], pieces[i + 1])
    BY <1>1, <1>2, ReadStep
  <2>2. g[1..i + 1] = Read(g[1..i], more[i + 1])
    <3>1. i + 1 <= n + 1 /\ n + 1 \in Nat
      BY <1>1
    <3>. QED
      BY <1>3, <3>1, ReadStep
  <2>3. h[1..i] = g[1..i] /\ more[i + 1] = pieces[i + 1]
    BY <1>1, <1>5
  <2>. QED
    BY <2>1, <2>2, <2>3
<1>. HIDE DEF S
<1>6. Nat \subseteq S
  BY <1>4, <1>5, Induction
<1>7. h[1..n] = g[1..n]
  BY <1>1, <1>6 DEF S
<1>8. g[1..n + 1] = Read(g[1..n], more[n + 1])
  <2>1. n + 1 <= n + 1 /\ n + 1 \in Nat
    BY <1>1
  <2>. QED
    BY <1>1, <1>3, <2>1, ReadStep
<1>. QED
  BY <1>1, <1>2, <1>3, <1>7, <1>8 DEF more

LEMMA ReadUpToType ==
    ASSUME NEW pieces \in Seq(Piece)
    PROVE  ReadUpTo(pieces) \in Reading
<1>. DEFINE S == {s \in Seq(Piece) : ReadUpTo(s) \in Reading}
<1>1. <<>> \in S
  BY ReadNothing, UnreadType, EmptySeq
<1>2. ASSUME NEW s \in Seq(Piece), NEW p \in Piece, s \in S PROVE Append(s, p) \in S
  BY <1>2, ReadOneMore, ReadType, AppendProperties
<1>. HIDE DEF S
<1>3. Seq(Piece) \subseteq S
  BY <1>1, <1>2, SequenceInduction
<1>. QED
  BY <1>3 DEF S

LEMMA ReplayFinishes == \A pieces : Replay(pieces) = Finished(ReadUpTo(pieces))
BY DEF Replay, Finished, ReadUpTo, Unread

LEMMA ReplayType ==
    ASSUME NEW pieces \in Seq(Piece)
    PROVE  Replay(pieces) \in Store
<1>1. ReadUpTo(pieces) \in Reading
  BY ReadUpToType
<1>. QED
  BY <1>1, ReplayFinishes, ReplayedType DEF Finished, Reading

-----------------------------------------------------------------------------
(***************************************************************************)
(* Where a restored entry comes from                                       *)
(***************************************************************************)
\* A line begins with piece j and goes on to piece i.
LineOf(pieces, j, i) ==
    /\ j = 1 \/ pieces[j - 1] = NewLine
    /\ \A n \in j..i : pieces[n] # NewLine

\* Entry e of key k is made by record i of the line that begins with record j.
MadeBy(pieces, k, e) ==
    \E i \in 1..Len(pieces) : \E j \in 1..i :
       LET said == Parse(Glue(pieces[j], pieces[i]))
       IN  /\ LineOf(pieces, j, i)
           /\ said # None /\ said.name = "ADD" /\ said.key = k
           /\ e = MadeOf(said)

\* What is left of the line, and every entry so far, comes from a line of the log.
Sourced(pieces) ==
    LET acc == ReadUpTo(pieces)
        n   == Len(pieces)
    IN  /\ IF acc.line = None THEN n = 0 \/ pieces[n] = NewLine
           ELSE \E j \in 1..n : LineOf(pieces, j, n) /\ acc.line = Glue(pieces[j], pieces[n])
        /\ \A k \in Key : acc.store[k] # None => MadeBy(pieces, k, acc.store[k])

LEMMA MadeByMore ==
    ASSUME NEW pieces \in Seq(Piece), NEW p \in Piece, NEW k, NEW e, MadeBy(pieces, k, e)
    PROVE  MadeBy(Append(pieces, p), k, e)
<1>. DEFINE n    == Len(pieces)
            more == Append(pieces, p)
<1>1. Len(more) = n + 1 /\ n \in Nat /\ \A i \in 1..n : more[i] = pieces[i]
  OBVIOUS
<1>. HIDE DEF more, n
<1>2. PICK i \in 1..n : \E j \in 1..i :
         LET said == Parse(Glue(pieces[j], pieces[i]))
         IN  /\ LineOf(pieces, j, i)
             /\ said # None /\ said.name = "ADD" /\ said.key = k
             /\ e = MadeOf(said)
  BY DEF MadeBy, n
<1>3. PICK j \in 1..i :
         LET said == Parse(Glue(pieces[j], pieces[i]))
         IN  /\ LineOf(pieces, j, i)
             /\ said # None /\ said.name = "ADD" /\ said.key = k
             /\ e = MadeOf(said)
  BY <1>2
<1>4. i \in 1..n + 1 /\ j \in 1..n /\ (j # 1 => j - 1 \in 1..n) /\ \A m \in j..i : m \in 1..n
  BY <1>1
<1>5. LineOf(more, j, i) /\ more[j] = pieces[j] /\ more[i] = pieces[i]
  BY <1>1, <1>3, <1>4 DEF LineOf
<1>. QED
  BY <1>1, <1>3, <1>4, <1>5 DEF MadeBy, more

\* The end of a line: its entry comes from the line, the others are as they were.
LEMMA FinishedSourced ==
    ASSUME NEW pieces \in Seq(Piece), Sourced(pieces), NEW k \in Key,
           Finished(ReadUpTo(pieces))[k] # None
    PROVE  MadeBy(pieces, k, Finished(ReadUpTo(pieces))[k])
<1>. DEFINE acc == ReadUpTo(pieces)
            n   == Len(pieces)
<1>1. acc.line \in Operation \cup {None} /\ acc.store \in Store /\ n \in Nat
  BY ReadUpToType DEF Reading
<1>2. CASE acc.line = None
  BY <1>2 DEF Sourced, Finished
<1>3. CASE acc.line # None
  <2>. DEFINE said == Parse(acc.line)
              new  == Replayed(acc.store, acc.line)
  <2>1. PICK j \in 1..n : LineOf(pieces, j, n) /\ acc.line = Glue(pieces[j], pieces[n])
    BY <1>3 DEF Sourced
  <2>2. /\ said = None \/ said.key # k => new[k] = acc.store[k]
        /\ said # None /\ said.key = k => new[k] = IF said.name = "ADD" THEN MadeOf(said) ELSE None
    BY <1>1, <1>3, ReplayedEffect
  <2>3. Finished(acc) = new
    BY <1>3 DEF Finished
  <2>. HIDE DEF new, said
  <2>4. CASE said = None \/ said.key # k
    BY <2>2, <2>3, <2>4 DEF Sourced
  <2>5. CASE said # None /\ said.key = k
    <3>1. said.name = "ADD" /\ new[k] = MadeOf(said)
      BY <2>2, <2>3, <2>5
    <3>2. n \in 1..n /\ said = Parse(Glue(pieces[j], pieces[n]))
      BY <1>1, <2>1 DEF said
    <3>3. MadeBy(pieces, k, new[k])
      BY <2>1, <2>5, <3>1, <3>2 DEF MadeBy
    <3>. QED
      BY <2>3, <3>3
  <2>. QED
    BY <2>4, <2>5
<1>. QED
  BY <1>2, <1>3

LEMMA SourcedOneMore ==
    ASSUME NEW pieces \in Seq(Piece), NEW p \in Piece, Sourced(pieces)
    PROVE  Sourced(Append(pieces, p))
<1>. DEFINE acc  == ReadUpTo(pieces)
            n    == Len(pieces)
            more == Append(pieces, p)
<1>1. /\ Len(more) = n + 1 /\ n \in Nat /\ more[n + 1] = p /\ more \in Seq(Piece)
      /\ \A i \in 1..n : more[i] = pieces[i] /\ pieces[i] \in Piece
  OBVIOUS
<1>2. acc.line \in Operation \cup {None} /\ acc.store \in Store /\ acc \in Reading
  BY ReadUpToType DEF Reading
<1>3. ReadUpTo(more) = Read(acc, p)
  BY ReadOneMore
<1>4. /\ \A k \in Key : acc.store[k] # None => MadeBy(more, k, acc.store[k])
      /\ \A k \in Key : Finished(acc)[k] # None => MadeBy(more, k, Finished(acc)[k])
  BY MadeByMore, FinishedSourced DEF Sourced
<1>5. IF acc.line = None THEN n = 0 \/ pieces[n] = NewLine
      ELSE \E j \in 1..n : LineOf(pieces, j, n) /\ acc.line = Glue(pieces[j], pieces[n])
  BY DEF Sourced
<1>. HIDE DEF acc, n, more
<1>6. CASE p = NewLine
  <2>1. ReadUpTo(more).line = None /\ ReadUpTo(more).store = Finished(acc)
    BY <1>2, <1>3, <1>6 DEF Read, Finished, Reading
  <2>. QED
    <3>1. Sourced(more)
      BY <1>1, <1>4, <1>6, <2>1 DEF Sourced
    <3>. QED
      BY <3>1 DEF more
<1>7. CASE p # NewLine
  <2>1. p \in Operation
    BY <1>7 DEF Piece
  <2>2. ReadUpTo(more) = [acc EXCEPT !.line = Glue(acc.line, p)]
    BY <1>3, <1>7 DEF Read
  <2>3. ReadUpTo(more).line = Glue(acc.line, p) /\ ReadUpTo(more).store = acc.store
    BY <1>2, <2>2 DEF Reading
  <2>4. \E j \in 1..n + 1 : LineOf(more, j, n + 1) /\ Glue(acc.line, p) = Glue(more[j], p)
    <3>1. CASE acc.line = None
      <4>1. Glue(acc.line, p) = p /\ Glue(p, p) = p
        BY <2>1, <3>1, NoneAssumption DEF Glue, Operation
      <4>2. n + 1 = 1 \/ more[(n + 1) - 1] = NewLine
        BY <1>1, <1>5, <3>1
      <4>3. \A m \in n + 1..n + 1 : more[m] # NewLine
        BY <1>1, <1>7
      <4>. QED
        BY <1>1, <4>1, <4>2, <4>3 DEF LineOf
    <3>2. CASE acc.line # None
      <4>1. PICK j \in 1..n : LineOf(pieces, j, n) /\ acc.line = Glue(pieces[j], pieces[n])
        BY <1>5, <3>2
      <4>2. /\ j \in j..n /\ n \in j..n /\ (j # 1 => j - 1 \in 1..n) /\ j \in 1..n + 1
            /\ \A m \in j..n + 1 : m \in j..n \/ m = n + 1
            /\ \A m \in j..n : m \in 1..n
        BY <1>1
      <4>3. LineOf(more, j, n + 1) /\ more[j] = pieces[j]
        BY <1>1, <1>7, <4>1, <4>2 DEF LineOf
      <4>4. pieces[j] \in Operation /\ pieces[n] \in Operation
        BY <1>1, <4>1, <4>2 DEF LineOf, Piece
      <4>5. acc.line.timestamp = pieces[j].timestamp /\ pieces[j] # None
        BY <4>1, <4>4, NoneAssumption DEF Glue, Operation
      <4>6. Glue(acc.line, p) = Glue(pieces[j], p)
        BY <3>2, <4>5 DEF Glue
      <4>. QED
        BY <4>2, <4>3, <4>6
    <3>. QED
      BY <3>1, <3>2
  <2>5. ReadUpTo(more).line # None
    <3>1. CASE acc.line = None
      BY <2>1, <2>3, <3>1, NoneAssumption DEF Glue
    <3>2. CASE acc.line # None
      <4>1. acc.line.timestamp \in Nat
        BY <1>2, <3>2 DEF Operation
      <4>2. [p EXCEPT !.timestamp = acc.line.timestamp] \in Operation
        BY <2>1, <4>1 DEF Operation
      <4>. QED
        BY <2>3, <3>2, <4>2, NoneAssumption DEF Glue
    <3>. QED
      BY <3>1, <3>2
  <2>. QED
    <3>1. Sourced(more)
      BY <1>1, <1>4, <2>3, <2>4, <2>5 DEF Sourced
    <3>. QED
      BY <3>1 DEF more
<1>. QED
  BY <1>6, <1>7

LEMMA ReplaySourced ==
    ASSUME NEW pieces \in Seq(Piece), NEW k \in Key, Replay(pieces)[k] # None
    PROVE  MadeBy(pieces, k, Replay(pieces)[k])
<1>. DEFINE S == {s \in Seq(Piece) : Sourced(s)}
<1>1. <<>> \in S
  <2>1. ReadUpTo(<<>>).line = None /\ \A l \in Key : ReadUpTo(<<>>).store[l] = None
    BY ReadNothing DEF Unread, EmptyStore
  <2>. QED
    BY <2>1, EmptySeq DEF Sourced
<1>2. ASSUME NEW s \in Seq(Piece), NEW p \in Piece, s \in S PROVE Append(s, p) \in S
  BY <1>2, SourcedOneMore, AppendProperties
<1>. HIDE DEF S
<1>3. Seq(Piece) \subseteq S
  BY <1>1, <1>2, SequenceInduction
<1>4. Sourced(pieces)
  BY <1>3 DEF S
<1>. QED
  BY <1>4, FinishedSourced, ReplayFinishes

=============================================================================
