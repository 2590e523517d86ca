------------------------- MODULE WalListenerProofs -------------------------
(***************************************************************************)
(* Theorems about WalListener, for any number of transactions, rows,       *)
(* failures and crashes.                                                   *)
(***************************************************************************)
EXTENDS WalListener, FiniteSetTheorems, SequenceTheorems, TLAPS

\* The log: positions are drawn in order, the rows of a transaction come before its commit,
\* and order is the order of the commits.
LogOK ==
    /\ walEnd >= 1
    /\ \A x \in Tx : commitAt[x] < walEnd
    /\ \A x \in Tx : \A j \in 1..Len(rows[x]) : rows[x][j] < walEnd
    /\ \A x \in Tx : commitAt[x] # 0 =>
        /\ rows[x] # <<>>
        /\ \A j \in 1..Len(rows[x]) : rows[x][j] < commitAt[x]
        /\ \E i \in 1..Len(order) : order[i] = x
    /\ \A i \in 1..Len(order) : commitAt[order[i]] # 0
    /\ \A i, j \in 1..Len(order) : i < j => commitAt[order[i]] < commitAt[order[j]]

\* Where the walsender is in the log, and what the listener has of the transaction it is in.
SendingOK ==
    stream # "down" =>
        /\ origin # 0
        /\ next \in 1..Len(order) + 1
        /\ pos # 0 => /\ next <= Len(order) /\ pos <= Len(rows[order[next]]) + 1
                      /\ txLsn = commitAt[order[next]]
        /\ relations = announced

Published == {e.at : e \in handed}
Gathered == {actions[k].at : k \in 1..Len(actions)}
LeftOver == {events[k].at : k \in 1..Len(events)}

\* What the walsender has sent is published or, while a commit time is set, gathered.
SentOK ==
    stream # "down" =>
        /\ \A i \in 1..next - 1 : Streamed(order[i]) =>
            \A j \in 1..Len(rows[order[i]]) :
                \/ rows[order[i]][j] \in Published
                \/ txCommit # NoTx /\ rows[order[i]][j] \in Gathered
        /\ \A j \in 1..pos - 1 : rows[order[next]][j] \in Published \cup Gathered

\* While a message is in hand, WalStart lies before the commits that were not sent yet, and
\* the events left over are those of the actions that were not published.
InHandOK ==
    /\ stream = "publishing" => txCommit # NoTx /\ Gathered \subseteq Published \cup LeftOver
    /\ stream = "acking" => txCommit = NoTx
    /\ stream \in {"publishing", "acking"} =>
        /\ walStart <= walEnd
        /\ \A i \in next..Len(order) : walStart <= commitAt[order[i]]

\* p is a position that may be reported.
Safe(p) ==
    /\ p <= walEnd
    /\ \A x \in Tx : Streamed(x) /\ commitAt[x] < p => Handed(x)

PositionsOK == Safe(confirmed) /\ Safe(lsn) /\ Safe(beat)

BufferOK == crashes = 0 => handed \subseteq delivered \cup buffer

IInv == TypeOK /\ LogOK /\ SendingOK /\ SentOK /\ InHandOK /\ PositionsOK /\ BufferOK

\* The parts of the type invariant, by who owns the variables.
ServerType ==
    /\ walEnd \in Nat /\ rows \in [Tx -> Seq(Nat)] /\ commitAt \in [Tx -> Nat] /\ order \in Seq(Tx)
    /\ origin \in Nat /\ confirmed \in Nat /\ held \in BOOLEAN
SenderType == alive \in BOOLEAN /\ next \in Nat /\ pos \in Nat /\ announced \subseteq Table
GoroutineType ==
    /\ stream \in {"down", "waiting", "publishing", "acking", "ended", "refused"}
    /\ checker \in {"down", "on", "ended"} /\ ctxDone \in BOOLEAN
    /\ lsn \in Nat /\ walStart \in Nat /\ beat \in Nat
GatherType ==
    /\ txLsn \in Nat /\ txCommit \in Tx \cup {NoTx}
    /\ actions \in Seq(Action) /\ relations \subseteq Table /\ events \in Seq(Event)
NatsType ==
    /\ handed \subseteq Event /\ buffer \subseteq Event /\ delivered \subseteq Event
    /\ faults \in Nat /\ crashes \in Nat

LEMMA TypeSplit ==
    TypeOK <=> ServerType /\ SenderType /\ GoroutineType /\ GatherType /\ NatsType
BY
          DEF TypeOK, ServerType, SenderType, GoroutineType, GatherType, NatsType

LEMMA InitOK == Init => IInv
<1> SUFFICES ASSUME Init PROVE IInv
  OBVIOUS
<1>1. TypeOK
  <2>1. ServerType /\ SenderType
    BY EmptySeq DEF Init, ServerType, SenderType
  <2>2. GoroutineType /\ GatherType /\ NatsType
    BY EmptySeq DEF Init, GoroutineType, GatherType, NatsType
  <2> QED BY <2>1, <2>2, TypeSplit
<1>2. LogOK
  BY DEF Init, LogOK
<1>3. SendingOK /\ SentOK /\ InHandOK /\ BufferOK
  BY DEF Init, SendingOK, SentOK, InHandOK, BufferOK
<1>4. PositionsOK
  BY DEF Init, PositionsOK, Safe, Streamed
<1> QED BY <1>1, <1>2, <1>3, <1>4 DEF IInv
-----------------------------------------------------------------------------
(* What does not change *)

LEMMA LogStays ==
    ASSUME LogOK, UNCHANGED database
    PROVE  LogOK'
BY DEF LogOK, database

\* A position stays safe while the log is the same and more is published.
LEMMA SafeStays ==
    ASSUME NEW p, Safe(p), UNCHANGED <<database, origin>>, handed \subseteq handed'
    PROVE  Safe(p)'
BY DEF Safe, Streamed, Handed, database

-----------------------------------------------------------------------------
(* The database *)

LEMMA ChangeOK ==
    ASSUME IInv, NEW x \in Tx, Change(x)
    PROVE  IInv'
<1> USE DEF IInv
<1>0. /\ rows[x] \in Seq(Nat) /\ commitAt[x] = 0 /\ walEnd \in Nat /\ walEnd' = walEnd + 1
      /\ rows' = [rows EXCEPT ![x] = Append(rows[x], walEnd)] /\ rows \in [Tx -> Seq(Nat)]
      /\ UNCHANGED <<commitAt, order, origin, confirmed, held, sender, stream, lsn, transaction,
                     walStart, events, beat, nats, bounds, checker, ctxDone>>
  BY TypeSplit DEF Change, ServerType, slot
<1>1. \A y \in Tx : y # x => rows'[y] = rows[y]
  BY <1>0
<1>2. rows'[x] = Append(rows[x], walEnd) /\ rows'[x] \in Seq(Nat)
  BY <1>0, AppendProperties
<1>3. \A i \in 1..Len(order) : order[i] \in Tx /\ rows'[order[i]] = rows[order[i]]
  <2>1. \A i \in 1..Len(order) : order[i] \in Tx /\ commitAt[order[i]] # 0
    BY TypeSplit, ElementOfSeq DEF ServerType, LogOK
  <2> QED BY <1>0, <1>1, <2>1
<1>4. TypeOK'
  <2>1. ServerType'
    BY <1>0, <1>2, TypeSplit DEF ServerType
  <2>2. SenderType' /\ GoroutineType' /\ GatherType' /\ NatsType'
    BY <1>0, TypeSplit DEF SenderType, GoroutineType, GatherType, NatsType, sender, transaction,
       nats, bounds
  <2> QED BY <2>1, <2>2, TypeSplit
          DEF TypeOK, ServerType, SenderType, GoroutineType, GatherType, NatsType
<1>5. LogOK'
  <2>1. \A j \in 1..Len(rows'[x]) : rows'[x][j] < walEnd'
    BY <1>0, <1>2, AppendProperties DEF LogOK
  <2>2. \A y \in Tx : \A j \in 1..Len(rows'[y]) : rows'[y][j] < walEnd'
    <3> SUFFICES ASSUME NEW y \in Tx, y # x, NEW j \in 1..Len(rows[y]) PROVE rows[y][j] < walEnd'
      BY <1>1, <2>1
    <3> QED BY <1>0, ElementOfSeq, TypeSplit DEF LogOK, ServerType
  <2>3. \A y \in Tx : commitAt[y] < walEnd'
    BY <1>0, TypeSplit DEF LogOK, ServerType
  <2>4. \A y \in Tx : commitAt'[y] # 0 =>
          /\ rows'[y] # <<>> /\ \A j \in 1..Len(rows'[y]) : rows'[y][j] < commitAt'[y]
          /\ \E i \in 1..Len(order') : order'[i] = y
    BY <1>0, <1>1 DEF LogOK
  <2>5. walEnd' >= 1
    BY <1>0
  <2>6. /\ \A i \in 1..Len(order') : commitAt'[order'[i]] # 0
        /\ \A i, j \in 1..Len(order') : i < j => commitAt'[order'[i]] < commitAt'[order'[j]]
    BY <1>0 DEF LogOK
  <2> QED BY <1>0, <2>2, <2>3, <2>4, <2>5, <2>6 DEF LogOK
<1>6. SendingOK' /\ SentOK'
  <2> SUFFICES ASSUME stream # "down" PROVE SendingOK' /\ SentOK'
    BY <1>0 DEF SendingOK, SentOK
  <2>0. pos \in Nat
    BY TypeSplit DEF SenderType
  <2>1. pos # 0 => next \in 1..Len(order) /\ rows'[order[next]] = rows[order[next]]
    BY <1>3, TypeSplit DEF SendingOK, SenderType, ServerType
  <2>2. SendingOK'
    BY <1>0, <2>1 DEF SendingOK, sender, transaction
  <2>3. \A i \in 1..next - 1 : i \in 1..Len(order)
    BY TypeSplit DEF SendingOK, SenderType, ServerType
  <2>4. Published' = Published /\ Gathered' = Gathered
    BY <1>0 DEF Published, Gathered, transaction, nats
  <2>5. UNCHANGED <<next, pos, txCommit>>
    BY <1>0 DEF sender, transaction
  <2>6. ASSUME NEW i \in 1..next - 1, commitAt[order[i]] >= origin, origin # 0,
               NEW j \in 1..Len(rows'[order[i]])
        PROVE  \/ rows'[order[i]][j] \in Published
               \/ txCommit # NoTx /\ rows'[order[i]][j] \in Gathered
    <3>1. Streamed(order[i]) /\ rows'[order[i]] = rows[order[i]]
      BY <1>3, <2>3, <2>6 DEF Streamed
    <3> QED BY <2>6, <3>1 DEF SentOK
  <2>7. ASSUME NEW j \in 1..pos - 1
        PROVE  rows'[order[next]][j] \in Published \cup Gathered
    <3>1. pos # 0
      BY <2>0, <2>7
    <3> QED BY <2>1, <2>7, <3>1 DEF SentOK
  <2>8. UNCHANGED <<order, commitAt, origin>>
    BY <1>0
  <2>9. SentOK'
    BY <2>4, <2>5, <2>6, <2>7, <2>8 DEF SentOK, Streamed
  <2> QED BY <2>2, <2>9
<1>7. InHandOK'
  <2>1. UNCHANGED <<next, txCommit, Gathered, Published, LeftOver, stream, walStart, order,
                    commitAt>>
    BY <1>0 DEF sender, transaction, nats, Gathered, Published, LeftOver
  <2>2. walStart \in Nat
    BY TypeSplit DEF GoroutineType
  <2>3. stream \in {"publishing", "acking"} => walStart <= walEnd'
    BY <1>0, <2>2 DEF InHandOK
  <2> QED BY <2>1, <2>3 DEF InHandOK
<1>8. PositionsOK'
  <2>1. \A y \in Tx : Streamed(y)' => y # x /\ Streamed(y) /\ commitAt[y] = commitAt'[y]
    BY <1>0, TypeSplit DEF Streamed, ServerType
  <2>2. \A y \in Tx : y # x /\ Handed(y) => Handed(y)'
    BY <1>0, <1>1 DEF Handed, nats
  <2>3. ASSUME NEW p \in Nat, Safe(p) PROVE Safe(p)'
    BY <1>0, <2>1, <2>2, <2>3 DEF Safe
  <2> QED BY <1>0, <2>3, TypeSplit DEF PositionsOK, Safe, ServerType, GoroutineType
<1>9. BufferOK'
  BY <1>0 DEF BufferOK, nats, bounds
<1> QED BY <1>4, <1>5, <1>6, <1>7, <1>8, <1>9

LEMMA CommitOK ==
    ASSUME IInv, NEW x \in Tx, Commit(x)
    PROVE  IInv'
<1> USE DEF IInv
<1>0. /\ commitAt[x] = 0 /\ rows[x] # <<>> /\ walEnd \in Nat /\ walEnd' = walEnd + 1
      /\ commitAt' = [commitAt EXCEPT ![x] = walEnd] /\ commitAt \in [Tx -> Nat]
      /\ order' = Append(order, x) /\ order \in Seq(Tx)
      /\ UNCHANGED <<rows, origin, confirmed, held, sender, stream, lsn, transaction,
                     walStart, events, beat, nats, bounds, checker, ctxDone>>
  BY TypeSplit DEF Commit, ServerType, slot
<1>1. \A y \in Tx : commitAt'[y] = IF y = x THEN walEnd ELSE commitAt[y]
  BY <1>0
<1>2. /\ Len(order') = Len(order) + 1 /\ order' \in Seq(Tx) /\ Len(order) \in Nat
      /\ order'[Len(order) + 1] = x
      /\ \A i \in 1..Len(order) : order'[i] = order[i]
  BY <1>0, AppendProperties, LenProperties
<1>3. \A i \in 1..Len(order) :
        order[i] \in Tx /\ order[i] # x /\ commitAt'[order[i]] = commitAt[order[i]]
  <2>1. \A i \in 1..Len(order) : order[i] \in Tx /\ commitAt[order[i]] # 0
    BY TypeSplit, ElementOfSeq DEF ServerType, LogOK
  <2> QED BY <1>0, <1>1, <2>1
<1>4. TypeOK'
  <2>1. ServerType'
    BY <1>0, <1>2, TypeSplit DEF ServerType
  <2>2. SenderType' /\ GoroutineType' /\ GatherType' /\ NatsType'
    BY <1>0, TypeSplit DEF SenderType, GoroutineType, GatherType, NatsType, sender, transaction,
       nats, bounds
  <2> QED BY <2>1, <2>2, TypeSplit
          DEF TypeOK, ServerType, SenderType, GoroutineType, GatherType, NatsType
<1>5. LogOK'
  <2>1. \A y \in Tx : commitAt'[y] < walEnd'
    BY <1>0, <1>1, TypeSplit DEF LogOK, ServerType
  <2>2. \A y \in Tx : \A j \in 1..Len(rows'[y]) : rows'[y][j] < walEnd'
    <3> SUFFICES ASSUME NEW y \in Tx, NEW j \in 1..Len(rows[y]) PROVE rows[y][j] < walEnd'
      BY <1>0
    <3> QED BY <1>0, ElementOfSeq, TypeSplit DEF LogOK, ServerType
  <2>3. \A y \in Tx : commitAt'[y] # 0 =>
          /\ rows'[y] # <<>> /\ \A j \in 1..Len(rows'[y]) : rows'[y][j] < commitAt'[y]
          /\ \E i \in 1..Len(order') : order'[i] = y
    <3>1. rows'[x] # <<>> /\ \A j \in 1..Len(rows'[x]) : rows'[x][j] < commitAt'[x]
      BY <1>0, <1>1 DEF LogOK
    <3>2. \E i \in 1..Len(order') : order'[i] = x
      BY <1>2
    <3>3. ASSUME NEW y \in Tx, y # x, commitAt'[y] # 0
          PROVE  /\ rows'[y] # <<>> /\ \A j \in 1..Len(rows'[y]) : rows'[y][j] < commitAt'[y]
                 /\ \E i \in 1..Len(order') : order'[i] = y
      <4>1. PICK i \in 1..Len(order) : order[i] = y
        BY <1>1, <3>3 DEF LogOK
      <4>2. i \in 1..Len(order') /\ order'[i] = y
        BY <1>2, <4>1
      <4> QED BY <1>0, <1>1, <3>3, <4>2 DEF LogOK
    <3> QED BY <3>1, <3>2, <3>3
  <2>4. \A i \in 1..Len(order') : commitAt'[order'[i]] # 0
    BY <1>0, <1>1, <1>2, <1>3 DEF LogOK
  <2>5. ASSUME NEW i \in 1..Len(order'), NEW j \in 1..Len(order'), i < j
        PROVE  commitAt'[order'[i]] < commitAt'[order'[j]]
    <3>1. i \in 1..Len(order) /\ order'[i] = order[i] /\ commitAt'[order'[i]] = commitAt[order[i]]
      BY <1>2, <1>3, <2>5
    <3>2. CASE j = Len(order) + 1
      <4>1. commitAt'[order'[j]] = walEnd
        BY <1>1, <1>2, <3>2
      <4> QED BY <1>3, <3>1, <4>1 DEF LogOK
    <3>3. CASE j \in 1..Len(order)
      BY <1>2, <1>3, <2>5, <3>1, <3>3 DEF LogOK
    <3> QED BY <1>2, <3>2, <3>3
  <2>6. walEnd' >= 1
    BY <1>0
  <2> QED BY <2>1, <2>2, <2>3, <2>4, <2>5, <2>6 DEF LogOK
<1>6. SendingOK' /\ SentOK'
  <2> SUFFICES ASSUME stream # "down" PROVE SendingOK' /\ SentOK'
    BY <1>0 DEF SendingOK, SentOK
  <2>0. pos \in Nat
    BY TypeSplit DEF SenderType
  <2>1. UNCHANGED <<next, pos, txCommit>>
    BY <1>0 DEF sender, transaction
  <2>2. pos # 0 => /\ next \in 1..Len(order) /\ order'[next] = order[next]
                   /\ commitAt'[order[next]] = commitAt[order[next]]
    <3>1. pos # 0 => next \in 1..Len(order)
      BY <1>2, TypeSplit DEF SendingOK, SenderType
    <3> QED BY <1>2, <1>3, <3>1
  <2>3. SendingOK'
    BY <1>0, <1>2, <2>2 DEF SendingOK, sender, transaction
  <2>4. \A i \in 1..next - 1 : i \in 1..Len(order)
    BY TypeSplit DEF SendingOK, SenderType, ServerType
  <2>5. Published' = Published /\ Gathered' = Gathered
    BY <1>0 DEF Published, Gathered, transaction, nats
  <2>6. ASSUME NEW i \in 1..next - 1, commitAt'[order'[i]] >= origin, origin # 0,
               NEW j \in 1..Len(rows[order'[i]])
        PROVE  \/ rows[order'[i]][j] \in Published
               \/ txCommit # NoTx /\ rows[order'[i]][j] \in Gathered
    <3>1. order'[i] = order[i] /\ Streamed(order[i])
      BY <1>2, <1>3, <2>4, <2>6 DEF Streamed
    <3> QED BY <2>6, <3>1 DEF SentOK
  <2>7. ASSUME NEW j \in 1..pos - 1
        PROVE  rows[order'[next]][j] \in Published \cup Gathered
    <3>1. pos # 0
      BY <2>0, <2>7
    <3> QED BY <2>2, <2>7, <3>1 DEF SentOK
  <2>8. SentOK'
    BY <1>0, <2>1, <2>5, <2>6, <2>7 DEF SentOK, Streamed
  <2> QED BY <2>3, <2>8
<1>7. InHandOK'
  <2>1. ASSUME stream \in {"publishing", "acking"}, NEW i \in next..Len(order')
        PROVE  walStart <= commitAt'[order'[i]]
    <3>1. CASE i = Len(order) + 1
      BY <1>1, <1>2, <2>1, <3>1 DEF InHandOK
    <3>2. CASE i # Len(order) + 1
      <4>1. i \in next..Len(order) /\ next \in 1..Len(order) + 1
        BY <1>2, <2>1, <3>2, TypeSplit DEF SendingOK, SenderType
      <4> QED BY <1>2, <1>3, <2>1, <4>1 DEF InHandOK
    <3> QED BY <3>1, <3>2
  <2>2. walStart \in Nat
    BY TypeSplit DEF GoroutineType
  <2>3. UNCHANGED <<next, txCommit, Gathered, Published, LeftOver, stream, walStart>>
    BY <1>0 DEF sender, transaction, nats, Gathered, Published, LeftOver
  <2>4. stream \in {"publishing", "acking"} => walStart <= walEnd'
    BY <1>0, <2>2 DEF InHandOK
  <2>5. stream \in {"publishing", "acking"} =>
            \A i \in next..Len(order') : walStart <= commitAt'[order'[i]]
    BY <2>1
  <2> QED BY <2>3, <2>4, <2>5 DEF InHandOK
<1>8. PositionsOK'
  <2>1. \A y \in Tx : Handed(y) => Handed(y)'
    BY <1>0 DEF Handed, nats
  <2>2. ASSUME NEW p \in Nat, Safe(p) PROVE Safe(p)'
    BY <1>0, <1>1, <2>1, <2>2 DEF Safe, Streamed
  <2> QED BY <1>0, <2>2, TypeSplit DEF PositionsOK, Safe, ServerType, GoroutineType
<1>9. BufferOK'
  BY <1>0 DEF BufferOK, nats, bounds
<1> QED BY <1>4, <1>5, <1>6, <1>7, <1>8, <1>9

-----------------------------------------------------------------------------
(* The process starts and ends *)

\* The walsender starts with the first transaction that committed at the position or later.
LEMMA CommittedFirst ==
    ASSUME TypeOK, LogOK, NEW p \in Nat
    PROVE  /\ CommittedBefore(p) \in 0..Len(order)
           /\ \A i \in 1..CommittedBefore(p) : commitAt[order[i]] < p
           /\ \A i \in CommittedBefore(p) + 1..Len(order) : commitAt[order[i]] >= p
<1> DEFINE T == {i \in 1..Len(order) : commitAt[order[i]] < p}
           n == Cardinality(T)
<1>0. Len(order) \in Nat /\ \A i \in 1..Len(order) : commitAt[order[i]] \in Nat
  BY TypeSplit, ElementOfSeq, LenProperties DEF ServerType
<1>1. IsFiniteSet(1..Len(order)) /\ Cardinality(1..Len(order)) = Len(order)
  <2>1. 1 \in Int /\ Len(order) \in Int
    BY <1>0
  <2>2. /\ IsFiniteSet(1..Len(order))
        /\ Cardinality(1..Len(order)) = IF 1 > Len(order) THEN 0 ELSE Len(order) - 1 + 1
    BY <2>1, FS_Interval
  <2> QED BY <1>0, <2>2
<1>2. T \subseteq 1..Len(order)
  OBVIOUS
<1>3. IsFiniteSet(T) /\ n \in Nat /\ n <= Len(order)
  <2> HIDE DEF T
  <2> QED BY <1>1, <1>2, FS_Subset, FS_CardinalityType
<1>4. ASSUME NEW i \in T PROVE i <= n
  <2>1. i \in 1..Len(order) /\ i \in Nat
    BY <1>0
  <2>2. 1..i \subseteq T
    <3> SUFFICES ASSUME NEW j \in 1..i, j # i PROVE j \in T
      BY <1>4, <2>1
    <3>1. j \in 1..Len(order) /\ j < i
      BY <1>0, <2>1
    <3>2. commitAt[order[j]] < commitAt[order[i]] /\ commitAt[order[i]] < p
      BY <1>4, <2>1, <3>1 DEF LogOK
    <3> QED BY <1>0, <2>1, <3>1, <3>2
  <2>3. Cardinality(1..i) = i
    BY <2>1, FS_Interval
  <2>4. Cardinality(1..i) <= n
    <3> HIDE DEF T
    <3> QED BY <1>3, <2>2, FS_Subset
  <2> QED BY <2>3, <2>4
<1>5. T = 1..n
  <2>1. T \subseteq 1..n
    BY <1>0, <1>2, <1>3, <1>4
  <2>2. IsFiniteSet(1..n) /\ Cardinality(1..n) = n
    BY <1>3, FS_Interval
  <2> HIDE DEF T
  <2> QED BY <2>1, <2>2, FS_Subset
<1>6. ASSUME NEW i \in n + 1..Len(order) PROVE commitAt[order[i]] >= p
  <2>1. i \in 1..Len(order) /\ i \notin 1..n
    BY <1>0, <1>3
  <2>2. i \notin T
    BY <1>5, <2>1
  <2> QED BY <1>0, <2>1, <2>2
<1> QED BY <1>3, <1>5, <1>6 DEF CommittedBefore

LEMMA StartOK ==
    ASSUME IInv, NEW p \in Nat, NEW l \in Nat, StartGoroutines(p),
           confirmed' = p, lsn' = l, origin' \in Nat \ {0},
           UNCHANGED <<database, held, nats, bounds>>,
           Safe(p)', Safe(l)'
    PROVE  IInv'
<1> USE DEF IInv
<1>0. UNCHANGED <<walEnd, rows, commitAt, order, handed, buffer, delivered, faults, crashes>>
  BY DEF database, nats, bounds
<1>1. next' = CommittedBefore(p) + 1 /\ next' \in 1..Len(order) + 1 /\ pos' = 0
  <2>1. CommittedBefore(p) \in 0..Len(order) /\ Len(order) \in Nat
    BY CommittedFirst, LenProperties, TypeSplit DEF ServerType
  <2> QED BY <2>1 DEF StartGoroutines
<1>2. TypeOK'
  <2>1. ServerType' /\ SenderType'
    BY <1>0, <1>1, TypeSplit DEF ServerType, SenderType, StartGoroutines
  <2>2. GoroutineType' /\ GatherType' /\ NatsType'
    BY <1>0, TypeSplit, EmptySeq DEF GoroutineType, GatherType, NatsType, StartGoroutines
  <2> QED BY <2>1, <2>2
          DEF TypeOK, ServerType, SenderType, GoroutineType, GatherType, NatsType
<1>3. LogOK'
  BY LogStays
<1>4. SendingOK'
  BY <1>0, <1>1 DEF SendingOK, StartGoroutines
<1>5. SentOK'
  <2>1. ASSUME NEW i \in 1..next' - 1, commitAt[order[i]] >= origin',
               NEW j \in 1..Len(rows[order[i]])
        PROVE  rows[order[i]][j] \in Published
    <3>1. i \in 1..Len(order) /\ order[i] \in Tx /\ commitAt[order[i]] < p
      <4>1. CommittedBefore(p) \in Nat /\ CommittedBefore(p) <= Len(order) /\ Len(order) \in Nat
        <5>1. CommittedBefore(p) \in 0..Len(order)
          BY CommittedFirst
        <5>2. Len(order) \in Nat
          BY LenProperties, TypeSplit DEF ServerType
        <5> QED BY <5>1, <5>2
      <4>2. i \in 1..CommittedBefore(p) /\ i \in 1..Len(order)
        BY <1>1, <2>1, <4>1
      <4>3. order[i] \in Tx
        BY <4>2, ElementOfSeq, TypeSplit DEF ServerType
      <4> QED BY <4>2, <4>3, CommittedFirst
    <3>2. \E e \in handed : e.at = rows[order[i]][j]
      BY <1>0, <2>1, <3>1 DEF Safe, Streamed, Handed
    <3> QED BY <3>2 DEF Published
  <2>2. Published' = Published
    BY <1>0 DEF Published
  <2> QED BY <1>0, <1>1, <2>1, <2>2 DEF SentOK, Streamed
<1>6. InHandOK' /\ BufferOK'
  BY <1>0 DEF InHandOK, BufferOK, StartGoroutines
<1>7. Safe(beat)'
  BY <1>0, TypeSplit DEF Safe, StartGoroutines, ServerType
<1>8. PositionsOK'
  BY <1>7 DEF PositionsOK, Safe
<1> QED BY <1>2, <1>3, <1>4, <1>5, <1>6, <1>8

LEMMA NewSlotOK ==
    ASSUME IInv, ProcessNewSlot
    PROVE  IInv'
<1>1. walEnd \in Nat \ {0} /\ \A x \in Tx : commitAt[x] < walEnd /\ commitAt[x] \in Nat
  BY TypeSplit DEF IInv, LogOK, ServerType
<1>2. PICK p \in Nat : p = walEnd
  BY <1>1
<1>3. Safe(p)'
  BY <1>1, <1>2 DEF ProcessNewSlot, Safe, Streamed, database
<1> QED BY <1>1, <1>2, <1>3, StartOK DEF ProcessNewSlot

LEMMA OldSlotOK ==
    ASSUME IInv, NEW r \in origin..confirmed, ProcessOldSlot(r)
    PROVE  IInv'
<1>1. origin \in Nat \ {0} /\ confirmed \in Nat /\ r \in Nat /\ r <= confirmed
  BY TypeSplit DEF IInv, ServerType, ProcessOldSlot
<1>2. Safe(confirmed) /\ Safe(r)
  <2>1. \A x \in Tx : commitAt[x] \in Nat
    BY TypeSplit DEF IInv, ServerType
  <2> QED BY <1>1, <2>1, TypeSplit DEF IInv, PositionsOK, Safe, ServerType
<1>3. ASSUME NEW p, Safe(p) PROVE Safe(p)'
  BY <1>3, SafeStays DEF ProcessOldSlot, slot, nats
<1> QED BY <1>1, <1>2, <1>3, StartOK DEF ProcessOldSlot, slot

LEMMA StopOK ==
    ASSUME IInv, Crash \/ Exit
    PROVE  IInv'
<1> USE DEF IInv
<1>0. /\ UNCHANGED <<walEnd, rows, commitAt, order, origin, confirmed, next, pos, announced,
                     handed>>
      /\ Down
  BY DEF Crash, Exit, database, slot
<1>1. TypeOK'
  <2>1. ServerType' /\ SenderType'
    BY <1>0, TypeSplit DEF ServerType, SenderType, Down, Crash, Exit, slot
  <2>2. GoroutineType' /\ GatherType'
    BY <1>0, EmptySeq, TypeSplit DEF GoroutineType, GatherType, Down
  <2>3. NatsType'
    <3>1. NatsType
      BY TypeSplit
    <3>2. CASE Crash
      BY <1>0, <3>1, <3>2 DEF NatsType, Crash
    <3>3. CASE Exit
      BY <1>0, <3>1, <3>3 DEF NatsType, Exit, bounds
    <3> QED BY <3>2, <3>3
  <2> QED BY <2>1, <2>2, <2>3
          DEF TypeOK, ServerType, SenderType, GoroutineType, GatherType, NatsType
<1>2. LogOK'
  BY <1>0, LogStays DEF database
<1>3. SendingOK' /\ SentOK' /\ InHandOK'
  BY <1>0 DEF SendingOK, SentOK, InHandOK, Down
<1>4. PositionsOK'
  <2>1. Safe(confirmed)'
    BY <1>0 DEF PositionsOK, Safe, Streamed, Handed
  <2>2. Safe(lsn)' /\ Safe(beat)'
    BY <1>0, TypeSplit DEF Safe, Down, ServerType
  <2> QED BY <2>1, <2>2 DEF PositionsOK
<1>5. BufferOK'
  <2>1. CASE Crash
    BY <2>1, TypeSplit DEF Crash, BufferOK, NatsType
  <2>2. CASE Exit
    BY <2>2 DEF Exit, BufferOK, bounds
  <2> QED BY <2>1, <2>2
<1> QED BY <1>1, <1>2, <1>3, <1>4, <1>5
-----------------------------------------------------------------------------
(* Steps that leave the transaction and what was published alone *)

LEMMA QuietOK ==
    ASSUME IInv,
           UNCHANGED <<database, origin, next, pos, announced, transaction, events, lsn, walStart,
                       handed>>,
           stream' = stream \/ (stream = "waiting" /\ stream' = "ended"),
           checker' \in {"down", "on", "ended"}, ctxDone' \in BOOLEAN, alive' \in BOOLEAN,
           held' \in BOOLEAN, confirmed' \in Nat, beat' \in Nat,
           buffer' \subseteq Event, delivered' \subseteq Event, faults' \in Nat, crashes' \in Nat,
           Safe(confirmed)', Safe(beat)', BufferOK'
    PROVE  IInv'
<1> USE DEF IInv
<1>1. TypeOK'
  <2>1. ServerType' /\ SenderType'
    BY TypeSplit DEF ServerType, SenderType, database
  <2>2. GoroutineType'
    BY TypeSplit DEF GoroutineType
  <2>3. GatherType' /\ NatsType'
    BY TypeSplit DEF GatherType, NatsType, transaction
  <2> QED BY <2>1, <2>2, <2>3
          DEF TypeOK, ServerType, SenderType, GoroutineType, GatherType, NatsType
<1>2. LogOK'
  BY LogStays
<1>3. SendingOK'
  BY DEF SendingOK, database, transaction
<1>4. SentOK'
  BY DEF SentOK, database, transaction, Published, Gathered, Streamed
<1>5. InHandOK'
  <2>1. /\ UNCHANGED <<Published, Gathered, LeftOver, txCommit, walStart, walEnd, next, order,
                       commitAt>>
        /\ stream' = stream \/ stream' = "ended"
    BY DEF database, transaction, Published, Gathered, LeftOver
  <2> QED BY <2>1 DEF InHandOK
<1>6. PositionsOK'
  <2>1. Safe(lsn)'
    BY DEF PositionsOK, Safe, Streamed, Handed, database
  <2> QED BY <2>1 DEF PositionsOK
<1> QED BY <1>1, <1>2, <1>3, <1>4, <1>5, <1>6

\* A position that is safe may be sent: the server takes it or keeps what it had.
LEMMA StatusSafe ==
    ASSUME IInv, NEW p \in Nat, Safe(p), SendStandbyStatus(p),
           UNCHANGED <<database, origin, handed>>
    PROVE  confirmed' \in Nat /\ Safe(confirmed)'
<1>1. confirmed' = p \/ confirmed' = confirmed
  BY DEF SendStandbyStatus
<1>2. Safe(p) /\ Safe(confirmed) /\ confirmed \in Nat
  BY TypeSplit DEF IInv, PositionsOK, ServerType
<1> QED BY <1>1, <1>2 DEF Safe, Streamed, Handed, database

LEMMA BeatStays ==
    ASSUME IInv, UNCHANGED <<database, origin, handed>>
    PROVE  /\ UNCHANGED beat => Safe(beat)'
           /\ beat' = lsn => Safe(beat)'
           /\ beat' = 0 => Safe(beat)'
           /\ UNCHANGED confirmed => Safe(confirmed)'
BY TypeSplit DEF IInv, PositionsOK, Safe, Streamed, Handed, database, ServerType

LEMMA OutsideOK ==
    ASSUME IInv,
           \/ ReleaseSlot \/ Flush \/ Interrupt
           \/ LoseConnection \/ RepositoryLost \/ CheckConnection
    PROVE  IInv'
<1>1. ServerType /\ SenderType /\ GoroutineType /\ NatsType /\ BufferOK
  BY TypeSplit DEF IInv
<1>2. UNCHANGED <<database, origin, next, pos, announced, transaction, events, lsn, walStart,
                  handed, stream, beat, confirmed>>
  BY DEF ReleaseSlot, Flush, Interrupt, LoseConnection, RepositoryLost, CheckConnection, slot,
     sender, nats
<1>3. Safe(confirmed)' /\ Safe(beat)'
  BY <1>2, BeatStays
<1>4. checker' \in {"down", "on", "ended"} /\ ctxDone' \in BOOLEAN /\ alive' \in BOOLEAN
  BY <1>1 DEF ReleaseSlot, Flush, Interrupt, LoseConnection, RepositoryLost, CheckConnection,
     sender, SenderType, GoroutineType
<1>5. held' \in BOOLEAN /\ confirmed' \in Nat /\ beat' \in Nat
  BY <1>1 DEF ReleaseSlot, Flush, Interrupt, LoseConnection, RepositoryLost, CheckConnection, slot,
     ServerType, GoroutineType
<1>6. /\ buffer' \subseteq Event /\ delivered' \subseteq Event
      /\ faults' \in Nat /\ crashes' \in Nat
      /\ BufferOK'
  BY <1>1 DEF ReleaseSlot, Flush, Interrupt, LoseConnection, RepositoryLost, CheckConnection, nats,
     bounds, NatsType, BufferOK
<1> QED BY <1>2, <1>3, <1>4, <1>5, <1>6, QuietOK

LEMMA HeartbeatOK ==
    ASSUME IInv, ProcessHeartBeat \/ HeartbeatRead \/ HeartbeatSend \/ StreamEnds
    PROVE  IInv'
<1>1. /\ ServerType /\ SenderType /\ GoroutineType /\ NatsType /\ BufferOK
      /\ Safe(lsn) /\ Safe(beat)
  BY TypeSplit DEF IInv, PositionsOK
<1>2. UNCHANGED <<database, origin, next, pos, announced, transaction, events, lsn, walStart,
                  handed, checker, ctxDone, alive, held, buffer, delivered, faults, crashes>>
  BY DEF ProcessHeartBeat, HeartbeatRead, HeartbeatSend, StreamEnds, slot, sender, nats, bounds
<1>3. confirmed' \in Nat /\ Safe(confirmed)'
  <2>1. CASE ProcessHeartBeat
    BY <1>1, <1>2, <2>1, StatusSafe DEF ProcessHeartBeat, GoroutineType
  <2>2. CASE HeartbeatSend
    BY <1>1, <1>2, <2>2, StatusSafe DEF HeartbeatSend, GoroutineType
  <2>3. CASE HeartbeatRead \/ StreamEnds
    BY <1>1, <1>2, <2>3, BeatStays DEF HeartbeatRead, StreamEnds, slot, ServerType
  <2> QED BY <2>1, <2>2, <2>3
<1>4. beat' \in Nat /\ Safe(beat)'
  BY <1>1, <1>2, BeatStays
     DEF ProcessHeartBeat, HeartbeatRead, HeartbeatSend, StreamEnds, GoroutineType
<1>5. stream' = stream \/ (stream = "waiting" /\ stream' = "ended")
  BY DEF ProcessHeartBeat, HeartbeatRead, HeartbeatSend, StreamEnds
<1>6. BufferOK'
  BY <1>1, <1>2 DEF BufferOK
<1> QED BY <1>1, <1>2, <1>3, <1>4, <1>5, <1>6, QuietOK
       DEF ServerType, SenderType, GoroutineType, NatsType

-----------------------------------------------------------------------------
(* Publishing *)

LEMMA PublishOK ==
    ASSUME IInv, Publish
    PROVE  IInv'
<1> USE DEF IInv
<1>0. /\ stream = "publishing" /\ events # <<>> /\ events \in Seq(Event)
      /\ UNCHANGED <<database, slot, sender, checker, ctxDone, lsn, transaction, beat, crashes>>
      /\ UNCHANGED <<walEnd, rows, commitAt, order, origin, confirmed, next, pos, txCommit,
                     actions>>
  BY TypeSplit DEF Publish, GatherType, database, slot, sender, transaction
<1>1. Head(events) \in Event /\ Tail(events) \in Seq(Event)
  BY <1>0, HeadTailProperties
<1>2. handed \subseteq handed' /\ Published \subseteq Published'
  BY DEF Publish, nats, Published
<1>3. \/ /\ handed' = handed \cup {Head(events)} /\ buffer' = buffer \cup {Head(events)}
         /\ events' = Tail(events) /\ UNCHANGED <<stream, walStart, delivered, faults>>
      \/ /\ stream' = "waiting" /\ events' = <<>> /\ walStart' = 0
         /\ faults' = faults + 1 /\ UNCHANGED <<handed, buffer, delivered>>
  BY DEF Publish, nats
<1>4. TypeOK'
  <2>1. ServerType' /\ SenderType'
    BY <1>0, TypeSplit DEF ServerType, SenderType, database, slot, sender
  <2>2. GoroutineType'
    BY <1>0, <1>3, TypeSplit DEF GoroutineType
  <2>3. GatherType'
    BY <1>0, <1>1, <1>3, EmptySeq, TypeSplit DEF GatherType, transaction
  <2>4. NatsType'
    BY <1>0, <1>1, <1>3, TypeSplit DEF NatsType
  <2> QED BY <2>1, <2>2, <2>3, <2>4
         
          DEF TypeOK, ServerType, SenderType, GoroutineType, GatherType, NatsType
<1>5. LogOK'
  BY <1>0, LogStays
<1>6. SendingOK'
  BY <1>0 DEF SendingOK, sender, transaction
<1>7. SentOK'
  <2>1. Gathered' = Gathered
    BY <1>0 DEF Gathered
  <2> QED BY <1>0, <1>2, <2>1 DEF SentOK, Streamed
<1>8. InHandOK'
  <2>1. Gathered' = Gathered
    BY <1>0 DEF Gathered
  <2>2. CASE stream' = "waiting"
    BY <2>2 DEF InHandOK
  <2>3. CASE /\ handed' = handed \cup {Head(events)} /\ events' = Tail(events)
             /\ UNCHANGED <<stream, walStart>>
    <3>1. LeftOver \subseteq {Head(events).at} \cup LeftOver'
      <4> SUFFICES ASSUME NEW k \in 1..Len(events), k # 1 PROVE events[k].at \in LeftOver'
        <5>1. Head(events) = events[1]
          BY <1>0
        <5> QED BY <5>1 DEF LeftOver
      <4>1. /\ Len(events) \in Nat /\ Len(events') = Len(events) - 1
            /\ \A i \in 1..Len(events') : events'[i] = events[i + 1]
        BY <1>0, <2>3, HeadTailProperties, LenProperties
      <4>2. k - 1 \in 1..Len(events') /\ k - 1 + 1 = k
        BY <4>1
      <4> QED BY <4>1, <4>2 DEF LeftOver
    <3>2. Head(events).at \in Published'
      BY <2>3 DEF Published
    <3>3. Gathered' \subseteq Published' \cup LeftOver'
      BY <1>0, <1>2, <2>1, <3>1, <3>2 DEF InHandOK
    <3> QED BY <1>0, <2>3, <3>3 DEF InHandOK
  <2> QED BY <1>3, <2>2, <2>3
<1>9. PositionsOK'
  BY <1>0, <1>2 DEF PositionsOK, Safe, Streamed, Handed
<1>10. BufferOK'
  BY <1>0, <1>3 DEF BufferOK
<1> QED BY <1>4, <1>5, <1>6, <1>7, <1>8, <1>9, <1>10

LEMMA ClearOK ==
    ASSUME IInv, Clear
    PROVE  IInv'
<1> USE DEF IInv
<1>0. /\ stream = "publishing" /\ events = <<>> /\ stream' = "acking"
      /\ txCommit' = NoTx /\ actions' = <<>>
      /\ UNCHANGED <<walEnd, rows, commitAt, order, origin, confirmed, held, alive, next, pos,
                     announced, checker, ctxDone, lsn, txLsn, relations, walStart, events, beat,
                     handed, buffer, delivered, faults, crashes>>
  BY DEF Clear, database, slot, sender, nats, bounds
<1>1. Gathered \subseteq Published /\ Published' = Published
  BY <1>0 DEF InHandOK, LeftOver, Published
<1>2. TypeOK'
  <2>1. ServerType' /\ SenderType' /\ GoroutineType' /\ NatsType'
    BY <1>0, TypeSplit DEF ServerType, SenderType, GoroutineType, NatsType
  <2>2. GatherType'
    BY <1>0, EmptySeq, TypeSplit DEF GatherType
  <2> QED BY <2>1, <2>2
          DEF TypeOK, ServerType, SenderType, GoroutineType, GatherType, NatsType
<1>3. LogOK'
  BY <1>0, LogStays DEF database
<1>4. SendingOK'
  BY <1>0 DEF SendingOK
<1>5. SentOK'
  BY <1>0, <1>1 DEF SentOK, Streamed
<1>6. InHandOK' /\ BufferOK'
  BY <1>0 DEF InHandOK, BufferOK
<1>7. PositionsOK'
  BY <1>0 DEF PositionsOK, Safe, Streamed, Handed
<1> QED BY <1>2, <1>3, <1>4, <1>5, <1>6, <1>7

\* What is acknowledged: the transactions that committed before WalStart were sent, and
\* with no commit time left all that was sent is published.
LEMMA AckOK ==
    ASSUME IInv, AckWalMessage
    PROVE  IInv'
<1> USE DEF IInv
<1>0. /\ stream = "acking" /\ stream' = "waiting" /\ walStart' = 0 /\ walStart \in Nat
      /\ txCommit = NoTx /\ walStart <= walEnd /\ lsn \in Nat
      /\ UNCHANGED <<walEnd, rows, commitAt, order, origin, held, alive, next, pos,
                     announced, checker, ctxDone, txLsn, relations, txCommit, actions, events, beat,
                     handed, buffer, delivered, faults, crashes>>
  BY TypeSplit DEF AckWalMessage, InHandOK, GoroutineType, database, sender, transaction,
     nats, bounds
<1>1. ASSUME NEW x \in Tx, Streamed(x), commitAt[x] < walStart PROVE Handed(x)
  <2>1. commitAt[x] # 0 /\ commitAt[x] \in Nat
    BY <1>1, TypeSplit DEF Streamed, ServerType
  <2>2. PICK i \in 1..Len(order) : order[i] = x
    BY <2>1 DEF LogOK
  <2>3. next \in Nat /\ Len(order) \in Nat
    BY TypeSplit, LenProperties DEF SenderType, ServerType
  <2>4. ~ (i \in next..Len(order))
    BY <1>0, <1>1, <2>1, <2>2 DEF InHandOK
  <2>5. i \in 1..next - 1
    BY <2>2, <2>3, <2>4
  <2>6. \A j \in 1..Len(rows[x]) : rows[x][j] \in Published
    BY <1>0, <1>1, <2>2, <2>5 DEF SentOK
  <2> QED BY <2>6 DEF Published, Handed
<1>2. Safe(walStart)
  BY <1>0, <1>1 DEF Safe
<1>3. confirmed' \in Nat /\ Safe(confirmed)'
  <2>1. UNCHANGED <<database, origin, handed>>
    BY <1>0 DEF database
  <2>2. PICK p \in Nat : p = walStart
    BY <1>0
  <2>3. CASE SendStandbyStatus(walStart)
    BY <1>2, <2>1, <2>2, <2>3, StatusSafe
  <2>4. CASE UNCHANGED confirmed
    BY <2>1, <2>4, BeatStays, TypeSplit DEF ServerType
  <2> QED BY <2>3, <2>4 DEF AckWalMessage
<1>4. lsn' \in Nat /\ Safe(lsn)' /\ Safe(beat)'
  <2>1. lsn' = walStart \/ lsn' = lsn
    BY DEF AckWalMessage
  <2> QED BY <1>0, <1>2, <2>1 DEF PositionsOK, Safe, Streamed, Handed
<1>5. TypeOK'
  <2>1. ServerType' /\ SenderType'
    BY <1>0, <1>3, TypeSplit DEF ServerType, SenderType
  <2>2. GoroutineType' /\ GatherType' /\ NatsType'
    BY <1>0, <1>4, TypeSplit DEF GoroutineType, GatherType, NatsType
  <2> QED BY <2>1, <2>2
          DEF TypeOK, ServerType, SenderType, GoroutineType, GatherType, NatsType
<1>6. LogOK'
  BY <1>0, LogStays DEF database
<1>7. SendingOK' /\ SentOK'
  BY <1>0 DEF SendingOK, SentOK, Streamed, Published, Gathered
<1>8. InHandOK' /\ BufferOK'
  BY <1>0 DEF InHandOK, BufferOK
<1>9. PositionsOK'
  BY <1>3, <1>4 DEF PositionsOK
<1> QED BY <1>5, <1>6, <1>7, <1>8, <1>9

-----------------------------------------------------------------------------
(* Receiving *)

\* The transaction the walsender is in has committed, after all its rows.
LEMMA InTransaction ==
    ASSUME IInv, stream # "down", next <= Len(order)
    PROVE  /\ next \in 1..Len(order) /\ next \in Nat /\ Len(order) \in Nat /\ pos \in Nat
           /\ order[next] \in Tx /\ order[next] # NoTx /\ rows[order[next]] \in Seq(Nat)
           /\ Len(rows[order[next]]) \in Nat \ {0}
           /\ commitAt[order[next]] \in Nat \ {0} /\ commitAt[order[next]] < walEnd
           /\ \A j \in 1..Len(rows[order[next]]) :
                rows[order[next]][j] \in Nat /\ rows[order[next]][j] < commitAt[order[next]]
           /\ pos # 0 => pos <= Len(rows[order[next]]) + 1 /\ txLsn = commitAt[order[next]]
           /\ relations = announced
<1> USE DEF IInv
<1>1. /\ next \in 1..Len(order) /\ next \in Nat /\ pos \in Nat /\ relations = announced
      /\ pos # 0 => pos <= Len(rows[order[next]]) + 1 /\ txLsn = commitAt[order[next]]
  BY TypeSplit DEF SendingOK, SenderType
<1>2. order[next] \in Tx /\ Len(order) \in Nat /\ order[next] # NoTx
  BY <1>1, TypeSplit, ElementOfSeq, LenProperties, WalAssumption DEF ServerType
<1>3. PICK x \in Tx : x = order[next]
  BY <1>2
<1>4. /\ rows[x] \in Seq(Nat) /\ rows[x] # <<>> /\ commitAt[x] \in Nat \ {0} /\ commitAt[x] < walEnd
      /\ \A j \in 1..Len(rows[x]) : rows[x][j] < commitAt[x]
  BY <1>1, <1>3, TypeSplit DEF ServerType, LogOK
<1>5. Len(rows[x]) \in Nat \ {0} /\ \A j \in 1..Len(rows[x]) : rows[x][j] \in Nat
  BY <1>4, EmptySeq, ElementOfSeq, LenProperties
<1> QED BY <1>1, <1>2, <1>3, <1>4, <1>5

LEMMA MessageParses ==
    ASSUME IInv, stream # "down", next <= Len(order)
    PROVE  ~ ParseFails(NextMessage)
<1>1. PICK x \in Tx : x = order[next]
  BY InTransaction
<1>2. /\ commitAt[x] # 0 /\ commitAt[x] \in Nat /\ relations = announced
      /\ pos # 0 => txLsn = commitAt[x]
  BY <1>1, InTransaction
<1> QED BY <1>1, <1>2 DEF ParseFails, NextMessage

\* What Receive does with each message of transaction x.
Begun(x) ==
    /\ pos = 0 /\ pos' = 1 /\ walStart' = rows[x][1] /\ txLsn' = commitAt[x]
    /\ UNCHANGED <<next, announced, relations, txCommit, actions>>
Related(x) ==
    /\ pos \in 1..Len(rows[x]) /\ walStart' = rows[x][pos]
    /\ announced' = announced \cup {TableOf[x]} /\ relations' = relations \cup {TableOf[x]}
    /\ UNCHANGED <<next, pos, txLsn, txCommit, actions>>
RowGathered(x) ==
    /\ pos \in 1..Len(rows[x]) /\ pos' = pos + 1 /\ walStart' = rows[x][pos]
    /\ actions' = Append(actions, [at |-> rows[x][pos], tx |-> x])
    /\ UNCHANGED <<next, announced, relations, txLsn, txCommit>>
Committed(x) ==
    /\ pos = Len(rows[x]) + 1 /\ pos' = 0 /\ next' = next + 1 /\ walStart' = commitAt[x] + 1
    /\ txCommit' = x
    /\ UNCHANGED <<announced, relations, txLsn, actions>>

LEMMA ReceiveCases ==
    ASSUME IInv, Receive
    PROVE  /\ stream = "waiting" /\ next <= Len(order)
           /\ Begun(order[next]) \/ Related(order[next]) \/ RowGathered(order[next])
                \/ Committed(order[next])
           /\ \/ /\ stream' = "publishing" /\ txCommit' # NoTx
                 /\ events' = CreateEventsWithFilter(actions', txCommit')
              \/ stream' = "acking" /\ txCommit' = NoTx /\ events' = events
<1> DEFINE m == NextMessage
<1>1. stream = "waiting" /\ next <= Len(order) /\ Sent(m) /\ walStart' = m.walStart
  BY DEF Receive
<1>2. ~ ParseFails(m)
  BY <1>1, MessageParses
<1>3. /\ ParseWalMessage(m)
      /\ \/ /\ stream' = "publishing" /\ txCommit' # NoTx
            /\ events' = CreateEventsWithFilter(actions', txCommit')
         \/ stream' = "acking" /\ txCommit' = NoTx /\ events' = events
  BY <1>2 DEF Receive, HasCommitTime
<1>4. PICK x \in Tx : x = order[next]
  BY <1>1, InTransaction
<1>5. pos \in Nat /\ Len(rows[x]) \in Nat /\ (pos # 0 => pos <= Len(rows[x]) + 1)
  BY <1>1, <1>4, InTransaction
<1>6. CASE pos = 0
  <2>1. m = [kind |-> "begin", tx |-> x, walStart |-> rows[x][1]]
    BY <1>4, <1>6 DEF NextMessage
  <2> HIDE DEF m
  <2>2. Begun(x)
    BY <1>1, <1>3, <1>6, <2>1 DEF Sent, ParseWalMessage, Begun
  <2> QED BY <1>1, <1>3, <1>4, <2>2
<1>7. CASE pos # 0 /\ pos > Len(rows[x])
  <2>1. m = [kind |-> "commit", tx |-> x, walStart |-> commitAt[x] + 1]
    BY <1>4, <1>7 DEF NextMessage
  <2>2. pos = Len(rows[x]) + 1
    BY <1>5, <1>7
  <2> HIDE DEF m
  <2>3. Committed(x)
    BY <1>1, <1>3, <2>1, <2>2 DEF Sent, ParseWalMessage, Committed
  <2> QED BY <1>1, <1>3, <1>4, <2>3
<1>8. CASE pos # 0 /\ ~ (pos > Len(rows[x])) /\ TableOf[x] \in announced
  <2>1. m = [kind |-> "row", tx |-> x, walStart |-> rows[x][pos]]
    BY <1>4, <1>8 DEF NextMessage
  <2>2. pos \in 1..Len(rows[x])
    BY <1>5, <1>8
  <2> HIDE DEF m
  <2>3. RowGathered(x)
    BY <1>1, <1>3, <2>1, <2>2 DEF Sent, ParseWalMessage, RowGathered
  <2> QED BY <1>1, <1>3, <1>4, <2>3
<1>9. CASE pos # 0 /\ ~ (pos > Len(rows[x])) /\ TableOf[x] \notin announced
  <2>1. m = [kind |-> "relation", tx |-> x, walStart |-> rows[x][pos]]
    BY <1>4, <1>9 DEF NextMessage
  <2>2. pos \in 1..Len(rows[x])
    BY <1>5, <1>9
  <2> HIDE DEF m
  <2>3. Related(x)
    BY <1>1, <1>3, <2>1, <2>2 DEF Sent, ParseWalMessage, Related
  <2> QED BY <1>1, <1>3, <1>4, <2>3
<1> QED BY <1>6, <1>7, <1>8, <1>9

\* The events are those of the actions, one for each.
LEMMA EventsOfActions ==
    ASSUME NEW as \in Seq(Action), NEW c \in Tx
    PROVE  /\ CreateEventsWithFilter(as, c) \in Seq(Event)
           /\ Len(CreateEventsWithFilter(as, c)) = Len(as)
           /\ \A k \in 1..Len(as) : /\ CreateEventsWithFilter(as, c)[k].at = as[k].at
                                     /\ CreateEventsWithFilter(as, c)[k].tx = as[k].tx
<1> DEFINE es == [i \in 1..Len(as) |-> [at |-> as[i].at, tx |-> as[i].tx, commitTime |-> c]]
<1>1. Len(as) \in Nat /\ \A k \in 1..Len(as) : as[k] \in Action
  BY ElementOfSeq, LenProperties
<1>2. es \in [1..Len(as) -> Event]
  BY <1>1 DEF Action, Event
<1>3. es \in Seq(Event) /\ Len(es) = Len(as)
  <2>1. PICK n \in Nat : n = Len(as)
    BY <1>1
  <2>2. es \in Seq(Event)
    <3> HIDE DEF es
    <3> QED BY <1>2, <2>1, SeqDef
  <2>3. Len(es) \in Nat /\ DOMAIN es = 1..Len(es)
    <3> HIDE DEF es
    <3> QED BY <2>2, LenProperties
  <2>4. DOMAIN es = 1..n
    BY <2>1
  <2>5. PICK k \in Nat : k = Len(es)
    BY <2>3
  <2>6. 1..k = 1..n
    BY <2>3, <2>4, <2>5
  <2>7. k = n
    <3> HIDE DEF es
    <3>1. \A i \in Nat : i \in 1..k <=> i \in 1..n
      BY <2>6
    <3> QED BY <3>1
  <2> QED BY <2>1, <2>2, <2>5, <2>7
<1>4. \A k \in 1..Len(as) : es[k].at = as[k].at /\ es[k].tx = as[k].tx
  OBVIOUS
<1> QED BY <1>3, <1>4 DEF CreateEventsWithFilter

LEMMA ReceiveOK ==
    ASSUME IInv, Receive
    PROVE  IInv'
<1> USE DEF IInv
<1>0. UNCHANGED <<walEnd, rows, commitAt, order, origin, confirmed, held, alive, checker, ctxDone,
                  lsn, beat, handed, buffer, delivered, faults, crashes>>
  BY DEF Receive, database, slot, nats, bounds
<1>1. PICK x \in Tx : x = order[next]
  BY ReceiveCases, InTransaction
<1>2. /\ stream = "waiting" /\ next \in 1..Len(order) /\ next \in Nat /\ pos \in Nat
      /\ Len(order) \in Nat /\ x # NoTx
      /\ Len(rows[x]) \in Nat \ {0} /\ commitAt[x] \in Nat \ {0} /\ commitAt[x] < walEnd
      /\ \A j \in 1..Len(rows[x]) : rows[x][j] \in Nat /\ rows[x][j] < commitAt[x]
      /\ pos # 0 => txLsn = commitAt[x]
      /\ relations = announced
  BY <1>1, ReceiveCases, InTransaction
<1>3. Begun(x) \/ Related(x) \/ RowGathered(x) \/ Committed(x)
  BY <1>1, ReceiveCases
<1>4. \/ /\ stream' = "publishing" /\ txCommit' # NoTx
         /\ events' = CreateEventsWithFilter(actions', txCommit')
      \/ stream' = "acking" /\ txCommit' = NoTx /\ events' = events
  BY ReceiveCases
<1>5. /\ ServerType /\ SenderType /\ GoroutineType /\ GatherType /\ NatsType
      /\ walEnd \in Nat /\ actions \in Seq(Action)
  BY TypeSplit DEF ServerType, GatherType
<1>6. /\ actions' \in Seq(Action) /\ txCommit' \in Tx \cup {NoTx} /\ txLsn' \in Nat
      /\ relations' \subseteq Table /\ announced' \subseteq Table
      /\ Gathered \subseteq Gathered'
      /\ RowGathered(x) => rows[x][pos] \in Gathered'
  <2>1. TableOf[x] \in Table
    BY DEF Table
  <2>2. CASE Begun(x) \/ Related(x) \/ Committed(x)
    <3>1. actions' = actions /\ ~ RowGathered(x)
      <4>1. Begun(x) => ~ RowGathered(x)
        BY DEF Begun, RowGathered
      <4>2. Related(x) => ~ RowGathered(x)
        BY <1>2 DEF Related, RowGathered
      <4>3. Committed(x) => ~ RowGathered(x)
        BY <1>2 DEF Committed, RowGathered
      <4> QED BY <2>2, <4>1, <4>2, <4>3 DEF Begun, Related, Committed
    <3>2. txCommit' \in Tx \cup {NoTx} /\ txLsn' \in Nat
      BY <1>2, <1>5, <2>2 DEF Begun, Related, Committed, GatherType
    <3>3. relations' \subseteq Table /\ announced' \subseteq Table
      BY <1>5, <2>1, <2>2 DEF Begun, Related, Committed, GatherType, SenderType
    <3> QED BY <1>5, <3>1, <3>2, <3>3 DEF Gathered
  <2>3. CASE RowGathered(x)
    <3>1. PICK a \in Action : a = [at |-> rows[x][pos], tx |-> x]
      BY <1>2, <2>3 DEF RowGathered, Action
    <3>2. actions' = Append(actions, a) /\ a.at = rows[x][pos]
      BY <2>3, <3>1 DEF RowGathered
    <3>3. /\ actions' \in Seq(Action) /\ Len(actions) \in Nat /\ Len(actions') = Len(actions) + 1
          /\ actions'[Len(actions) + 1] = a
          /\ \A k \in 1..Len(actions) : actions'[k] = actions[k]
      BY <1>5, <3>2, AppendProperties, LenProperties
    <3>4. rows[x][pos] \in Gathered'
      BY <3>2, <3>3 DEF Gathered
    <3>5. Gathered \subseteq Gathered'
      <4> SUFFICES ASSUME NEW k \in 1..Len(actions) PROVE actions[k].at \in Gathered'
        BY DEF Gathered
      <4>1. k \in 1..Len(actions') /\ actions'[k].at = actions[k].at
        BY <3>3
      <4> QED BY <4>1 DEF Gathered
    <3> QED BY <1>5, <2>3, <3>3, <3>4, <3>5 DEF RowGathered, GatherType, SenderType
  <2> QED BY <1>3, <2>2, <2>3
<1>7. stream' = "publishing" => events' \in Seq(Event) /\ Gathered' \subseteq LeftOver'
  <2> SUFFICES ASSUME stream' = "publishing"
               PROVE  events' \in Seq(Event) /\ Gathered' \subseteq LeftOver'
    OBVIOUS
  <2>1. PICK as \in Seq(Action), c \in Tx :
          as = actions' /\ c = txCommit' /\ events' = CreateEventsWithFilter(as, c)
    BY <1>4, <1>6
  <2> QED BY <2>1, EventsOfActions DEF Gathered, LeftOver
<1>8. walStart' \in Nat /\ next' \in Nat /\ pos' \in Nat
  BY <1>2, <1>3 DEF Begun, Related, RowGathered, Committed
<1>9. TypeOK'
  <2>1. ServerType' /\ NatsType'
    BY <1>0, <1>5 DEF ServerType, NatsType
  <2>2. SenderType' /\ GoroutineType'
    BY <1>0, <1>4, <1>5, <1>6, <1>8 DEF SenderType, GoroutineType
  <2>3. events' \in Seq(Event)
    BY <1>4, <1>5, <1>7 DEF GatherType
  <2>4. GatherType'
    BY <1>6, <2>3 DEF GatherType
  <2> QED BY <2>1, <2>2, <2>4
          DEF TypeOK, ServerType, SenderType, GoroutineType, GatherType, NatsType
<1>10. LogOK'
  BY <1>0, LogStays DEF database
<1>11. SendingOK'
  <2>0. stream # "down" /\ origin # 0 /\ (pos # 0 => pos <= Len(rows[x]) + 1)
    BY <1>1, <1>2 DEF SendingOK
  <2>1. CASE Committed(x)
    BY <1>0, <1>2, <2>0, <2>1 DEF SendingOK, Committed
  <2>2. CASE Begun(x)
    BY <1>0, <1>1, <1>2, <2>0, <2>2 DEF SendingOK, Begun
  <2>3. CASE Related(x)
    BY <1>0, <1>1, <1>2, <2>0, <2>3 DEF SendingOK, Related
  <2>4. CASE RowGathered(x)
    BY <1>0, <1>1, <1>2, <2>0, <2>4 DEF SendingOK, RowGathered
  <2> QED BY <1>3, <2>1, <2>2, <2>3, <2>4
<1>12. Published' = Published /\ (txCommit' = txCommit \/ txCommit' # NoTx)
  BY <1>0, <1>2, <1>3 DEF Published, Begun, Related, RowGathered, Committed
<1>13. ASSUME NEW i \in 1..next - 1, Streamed(order[i]), NEW j \in 1..Len(rows[order[i]])
       PROVE  \/ rows[order[i]][j] \in Published
              \/ txCommit' # NoTx /\ rows[order[i]][j] \in Gathered'
  <2>1. \/ rows[order[i]][j] \in Published
        \/ txCommit # NoTx /\ rows[order[i]][j] \in Gathered
    BY <1>2, <1>13 DEF SentOK
  <2> QED BY <1>6, <1>12, <2>1
<1>14. \A j \in 1..pos - 1 : rows[x][j] \in Published \cup Gathered'
  BY <1>1, <1>2, <1>6 DEF SentOK
<1>15. SentOK'
  <2>1. CASE Begun(x)
    BY <1>0, <1>12, <1>13, <2>1 DEF SentOK, Streamed, Begun
  <2>2. CASE Related(x)
    BY <1>0, <1>1, <1>12, <1>13, <1>14, <2>2 DEF SentOK, Streamed, Related
  <2>3. CASE RowGathered(x)
    <3>1. \A j \in 1..pos' - 1 : rows[x][j] \in Published \cup Gathered'
      <4> SUFFICES ASSUME NEW j \in 1..pos PROVE rows[x][j] \in Published \cup Gathered'
        BY <1>2, <2>3 DEF RowGathered
      <4>1. CASE j = pos
        BY <1>6, <2>3, <4>1
      <4>2. CASE j # pos
        BY <1>2, <1>14, <4>2
      <4> QED BY <4>1, <4>2
    <3> QED BY <1>0, <1>1, <1>12, <1>13, <2>3, <3>1 DEF SentOK, Streamed, RowGathered
  <2>4. CASE Committed(x)
    <3>1. ASSUME NEW i \in 1..next' - 1, Streamed(order[i]), NEW j \in 1..Len(rows[order[i]])
          PROVE  \/ rows[order[i]][j] \in Published
                 \/ txCommit' # NoTx /\ rows[order[i]][j] \in Gathered'
      <4>1. i \in 1..next - 1 \/ i = next
        BY <1>2, <2>4 DEF Committed
      <4>2. CASE i = next
        <5>1. j \in 1..pos - 1
          BY <1>1, <1>2, <2>4, <3>1, <4>2 DEF Committed
        <5> QED BY <1>1, <1>2, <1>14, <2>4, <4>2, <5>1 DEF Committed
      <4> QED BY <1>13, <3>1, <4>1, <4>2
    <3> QED BY <1>0, <1>12, <2>4, <3>1 DEF SentOK, Streamed, Committed
  <2> QED BY <1>3, <2>1, <2>2, <2>3, <2>4
<1>16. walStart' <= walEnd /\ \A i \in next'..Len(order) : walStart' <= commitAt[order[i]]
  <2>1. \A i \in next + 1..Len(order) :
          commitAt[order[i]] \in Nat /\ commitAt[x] < commitAt[order[i]]
    <3> SUFFICES ASSUME NEW i \in next + 1..Len(order)
                 PROVE  commitAt[order[i]] \in Nat /\ commitAt[x] < commitAt[order[i]]
      OBVIOUS
    <3>1. i \in 1..Len(order) /\ next < i
      BY <1>2
    <3>2. order[i] \in Tx
      BY <1>5, <3>1, ElementOfSeq DEF ServerType
    <3> QED BY <1>1, <1>2, <1>5, <3>1, <3>2 DEF LogOK, ServerType
  <2>2. CASE Committed(x)
    BY <1>2, <1>5, <2>1, <2>2 DEF Committed
  <2>3. CASE Begun(x) \/ Related(x) \/ RowGathered(x)
    <3>1. next' = next /\ walStart' \in Nat /\ walStart' < commitAt[x]
      BY <1>2, <2>3 DEF Begun, Related, RowGathered
    <3>2. \A i \in next..Len(order) :
            commitAt[order[i]] \in Nat /\ commitAt[x] <= commitAt[order[i]]
      <4> SUFFICES ASSUME NEW i \in next..Len(order)
                   PROVE  commitAt[order[i]] \in Nat /\ commitAt[x] <= commitAt[order[i]]
        OBVIOUS
      <4>1. i = next \/ i \in next + 1..Len(order)
        BY <1>2
      <4> QED BY <1>1, <1>2, <2>1, <4>1
    <3> QED BY <1>2, <1>5, <3>1, <3>2
  <2> QED BY <1>3, <2>2, <2>3
<1>17. InHandOK'
  <2>1. stream' = "publishing" => txCommit' # NoTx /\ Gathered' \subseteq Published' \cup LeftOver'
    BY <1>4, <1>7
  <2>2. stream' = "acking" => txCommit' = NoTx
    BY <1>4
  <2> QED BY <1>0, <1>16, <2>1, <2>2 DEF InHandOK
<1>18. PositionsOK' /\ BufferOK'
  BY <1>0 DEF PositionsOK, Safe, Streamed, Handed, BufferOK
<1> QED BY <1>9, <1>10, <1>11, <1>15, <1>17, <1>18

-----------------------------------------------------------------------------
(* The theorems *)

LEMMA StutterOK ==
    ASSUME IInv, UNCHANGED vars
    PROVE  IInv'
<1> USE DEF IInv
<1>1. TypeOK' /\ LogOK'
  BY DEF vars, TypeOK, LogOK
<1>2. SendingOK'
  BY DEF vars, SendingOK
<1>3. SentOK' /\ InHandOK'
  <2>1. UNCHANGED <<Published, Gathered, LeftOver>>
    BY DEF vars, Published, Gathered, LeftOver
  <2>2. SentOK'
    BY <2>1 DEF vars, SentOK, Streamed
  <2> QED BY <2>1, <2>2 DEF vars, InHandOK
<1>4. PositionsOK' /\ BufferOK'
  BY DEF vars, PositionsOK, Safe, Streamed, Handed, BufferOK
<1> QED BY <1>1, <1>2, <1>3, <1>4

LEMMA StepOK ==
    ASSUME IInv, [Next]_vars
    PROVE  IInv'
<1>1. CASE \E x \in Tx : Change(x) \/ Commit(x)
  BY <1>1, ChangeOK, CommitOK
<1>2. CASE ProcessStep \/ Crash
  BY <1>2, NewSlotOK, OldSlotOK, StopOK DEF ProcessStep
<1>3. CASE \/ ReleaseSlot \/ Flush \/ Interrupt
           \/ LoseConnection \/ RepositoryLost \/ CheckConnection
  BY <1>3, OutsideOK
<1>4. CASE ProcessHeartBeat \/ HeartbeatRead \/ HeartbeatSend \/ StreamEnds
  BY <1>4, HeartbeatOK
<1>5. CASE Receive \/ Publish \/ Clear \/ AckWalMessage
  BY <1>5, ReceiveOK, PublishOK, ClearOK, AckOK
<1>6. CASE UNCHANGED vars
  BY <1>6, StutterOK
<1> QED BY <1>1, <1>2, <1>3, <1>4, <1>5, <1>6 DEF Next, StreamStep

LEMMA Invariance == Spec => []IInv
BY InitOK, StepOK, PTL DEF Spec

\* Every variable keeps its type: the actions that ParseWalMessage gathers, and the events
\* that CreateEventsWithFilter makes of them, are rows of transactions, and every event has
\* the commit time of one.
THEOREM TypeCorrect == Spec => []TypeOK
<1>1. IInv => TypeOK
  BY DEF IInv
<1> QED BY <1>1, Invariance, PTL

\* AckWalMessage, processHeartBeat and the periodic heartbeats never report a position past a
\* transaction that has a row which Publish has not accepted; and unless the process was
\* killed, what Publish accepted is at the NATS server or in the connection's buffer.
THEOREM NothingLost == Spec => []NoLoss
<1>1. ASSUME IInv PROVE NoLoss
  <2> SUFFICES ASSUME NEW x \in Tx, Streamed(x), commitAt[x] < confirmed
               PROVE  /\ Handed(x)
                      /\ crashes = 0 => \A i \in 1..Len(rows[x]) :
                                           \E e \in delivered \cup buffer : e.at = rows[x][i]
    BY DEF NoLoss
  <2>1. Handed(x)
    BY <1>1 DEF IInv, PositionsOK, Safe
  <2>2. crashes = 0 => handed \subseteq delivered \cup buffer
    BY <1>1 DEF IInv, BufferOK
  <2> QED BY <2>1, <2>2 DEF Handed
<1> QED BY <1>1, Invariance, PTL

\* ParseWalMessage never returns errMessageLost or errRelationNotFound for a message that
\* the server sends: the LSN and the RelationStore that Clear keeps are those of the
\* transaction and of the connection the walsender is in.
THEOREM AlwaysParses == Spec => []ParseNeverFails
<1>1. IInv => ParseNeverFails
  BY MessageParses DEF ParseNeverFails
<1> QED BY <1>1, Invariance, PTL
-----------------------------------------------------------------------------
(* The listener implements ChangeFeed *)

\* A position is the row of one transaction, and rows follow each other in the log.
RowsOK ==
    /\ \A x, y \in Tx : \A i \in 1..Len(rows[x]), j \in 1..Len(rows[y]) :
        rows[x][i] = rows[y][j] => x = y
    /\ \A x \in Tx : \A i, j \in 1..Len(rows[x]) : i < j => rows[x][i] < rows[x][j]

\* a is a row of its transaction, which the slot sends.
IsRow(a) == Streamed(a.tx) /\ \E j \in 1..Len(rows[a.tx]) : rows[a.tx][j] = a.at

\* Nothing but rows is published or gathered.
RealOK ==
    /\ \A e \in handed : e.tx \in Tx /\ IsRow(e)
    /\ stream # "down" => \A k \in 1..Len(actions) : actions[k].tx \in Tx /\ IsRow(actions[k])

\* What was committed when the slot was created is not sent.
BegunOK ==
    /\ origin <= walEnd /\ origin <= confirmed
    /\ origin = 0 => stream = "down"
    /\ beat # 0 => origin <= beat
    /\ stream # "down" =>
        /\ origin <= lsn
        /\ \A i \in next..Len(order) : Streamed(order[i])

\* The row j of x comes before a in the feed.
Earlier(x, j, a) ==
    \/ commitAt[x] < commitAt[a.tx]
    \/ x = a.tx /\ rows[x][j] < a.at

\* The rows before a gathered one are published or gathered before it.
OrderOK ==
    stream # "down" =>
        \A l \in 1..Len(actions) : \A x \in Tx : \A j \in 1..Len(rows[x]) :
            Streamed(x) /\ Earlier(x, j, actions[l]) =>
                \/ rows[x][j] \in Published
                \/ \E k \in 1..l - 1 : actions[k].at = rows[x][j]

\* The events left over are those of the last actions, and the others are published.
Done == Len(actions) - Len(events)
EventsOK ==
    stream = "publishing" =>
        /\ Done \in Nat
        /\ \A i \in 1..Len(events) : /\ events[i].at = actions[Done + i].at
                                     /\ events[i].tx = actions[Done + i].tx
        /\ \A k \in 1..Done : actions[k].at \in Published

FeedInv == IInv /\ RowsOK /\ RealOK /\ BegunOK /\ OrderOK /\ EventsOK

LEMMA FeedInit == Init => FeedInv
<1> SUFFICES ASSUME Init PROVE FeedInv
  OBVIOUS
<1>1. RowsOK /\ RealOK /\ BegunOK /\ OrderOK /\ EventsOK
  BY DEF Init, RowsOK, RealOK, BegunOK, OrderOK, EventsOK
<1> QED BY <1>1, InitOK DEF FeedInv

LEMMA FeedChange ==
    ASSUME FeedInv, NEW x \in Tx, Change(x)
    PROVE  FeedInv'
<1>0. IInv /\ IInv' /\ ServerType
  BY ChangeOK, TypeSplit DEF FeedInv, IInv
<1>1. /\ rows[x] \in Seq(Nat) /\ commitAt[x] = 0 /\ walEnd \in Nat /\ walEnd' = walEnd + 1
      /\ rows' = [rows EXCEPT ![x] = Append(rows[x], walEnd)] /\ rows \in [Tx -> Seq(Nat)]
      /\ UNCHANGED <<commitAt, order, origin, confirmed, next, stream, lsn, actions, events, beat,
                     handed>>
  BY <1>0 DEF Change, ServerType, slot, sender, transaction, nats
<1>2. /\ \A y \in Tx : y # x => rows'[y] = rows[y]
      /\ Len(rows'[x]) = Len(rows[x]) + 1 /\ Len(rows[x]) \in Nat
      /\ rows'[x][Len(rows[x]) + 1] = walEnd
      /\ \A j \in 1..Len(rows[x]) : rows'[x][j] = rows[x][j]
  BY <1>1, AppendProperties, LenProperties
<1>3. \A y \in Tx : \A j \in 1..Len(rows[y]) : rows[y][j] \in Nat /\ rows[y][j] < walEnd
  BY <1>0, <1>1, ElementOfSeq DEF IInv, LogOK
<1>4. RowsOK'
  <2>1. ASSUME NEW y \in Tx, NEW z \in Tx, NEW i \in 1..Len(rows'[y]), NEW j \in 1..Len(rows'[z]),
               rows'[y][i] = rows'[z][j], y # z
        PROVE  FALSE
    <3>1. CASE y # x /\ z # x
      BY <1>2, <2>1, <3>1 DEF FeedInv, RowsOK
    <3>2. CASE y = x
      <4>1. j \in 1..Len(rows[z]) /\ rows'[z][j] = rows[z][j]
        BY <1>2, <2>1, <3>2
      <4>2. i \in 1..Len(rows[x]) \/ i = Len(rows[x]) + 1
        BY <1>2, <3>2
      <4> QED BY <1>2, <1>3, <2>1, <3>2, <4>1, <4>2 DEF FeedInv, RowsOK
    <3>3. CASE z = x
      <4>1. i \in 1..Len(rows[y]) /\ rows'[y][i] = rows[y][i]
        BY <1>2, <2>1, <3>3
      <4>2. j \in 1..Len(rows[x]) \/ j = Len(rows[x]) + 1
        BY <1>2, <3>3
      <4> QED BY <1>2, <1>3, <2>1, <3>3, <4>1, <4>2 DEF FeedInv, RowsOK
    <3> QED BY <3>1, <3>2, <3>3
  <2>2. ASSUME NEW y \in Tx, NEW i \in 1..Len(rows'[y]), NEW j \in 1..Len(rows'[y]), i < j
        PROVE  rows'[y][i] < rows'[y][j]
    <3>1. CASE y # x
      BY <1>2, <2>2, <3>1 DEF FeedInv, RowsOK
    <3>2. CASE y = x
      <4>1. i \in 1..Len(rows[x]) /\ (j \in 1..Len(rows[x]) \/ j = Len(rows[x]) + 1)
        BY <1>2, <2>2, <3>2
      <4> QED BY <1>2, <1>3, <2>2, <3>2, <4>1 DEF FeedInv, RowsOK
    <3> QED BY <3>1, <3>2
  <2> QED BY <2>1, <2>2 DEF RowsOK
<1>5. \A y \in Tx : Streamed(y)' = Streamed(y) /\ (Streamed(y) => y # x /\ rows'[y] = rows[y])
  BY <1>0, <1>1, <1>2 DEF Streamed, ServerType
<1>6. RealOK'
  BY <1>1, <1>5 DEF FeedInv, RealOK, IsRow
<1>7. BegunOK'
  <2>1. \A i \in next..Len(order) : stream # "down" => order[i] \in Tx
    BY <1>0, ElementOfSeq DEF ServerType, SenderType, IInv, SendingOK
  <2>2. origin \in Nat
    BY <1>0 DEF ServerType
  <2> QED BY <1>1, <1>5, <2>1, <2>2 DEF FeedInv, BegunOK
<1>8. OrderOK' /\ EventsOK'
  <2>1. Published' = Published
    BY <1>1 DEF Published
  <2>2. EventsOK'
    BY <1>1, <2>1 DEF FeedInv, EventsOK, Done
  <2>3. \A y \in Tx : Streamed(y) => rows'[y] = rows[y]
    BY <1>5
  <2>4. UNCHANGED <<actions, commitAt>>
    BY <1>1
  <2>5. ASSUME stream # "down", NEW l \in 1..Len(actions), NEW y \in Tx,
               NEW j \in 1..Len(rows'[y]), Streamed(y), Earlier(y, j, actions[l])'
        PROVE  \/ rows'[y][j] \in Published
               \/ \E k \in 1..l - 1 : actions[k].at = rows'[y][j]
    <3>0. OrderOK
      BY DEF FeedInv
    <3>1. rows'[y] = rows[y]
      BY <2>3, <2>5
    <3>2. Earlier(y, j, actions[l])
      BY <2>4, <2>5, <3>1 DEF Earlier
    <3> QED BY <2>5, <3>0, <3>1, <3>2 DEF OrderOK
  <2>6. UNCHANGED <<stream, actions>> /\ \A y \in Tx : Streamed(y)' = Streamed(y)
    BY <1>1, <1>5
  <2>7. OrderOK'
    BY <2>1, <2>5, <2>6 DEF OrderOK
  <2> QED BY <2>2, <2>7
<1> QED BY <1>0, <1>4, <1>6, <1>7, <1>8 DEF FeedInv

LEMMA FeedCommit ==
    ASSUME FeedInv, NEW x \in Tx, Commit(x)
    PROVE  FeedInv'
<1>0. IInv /\ IInv' /\ ServerType
  BY CommitOK, TypeSplit DEF FeedInv, IInv
<1>1. /\ commitAt[x] = 0 /\ walEnd \in Nat /\ walEnd' = walEnd + 1
      /\ commitAt' = [commitAt EXCEPT ![x] = walEnd] /\ commitAt \in [Tx -> Nat]
      /\ order' = Append(order, x) /\ order \in Seq(Tx)
      /\ UNCHANGED <<rows, origin, confirmed, next, stream, lsn, actions, events, beat, handed>>
  BY <1>0 DEF Commit, ServerType, slot, sender, transaction, nats
<1>2. /\ \A y \in Tx : commitAt'[y] = IF y = x THEN walEnd ELSE commitAt[y]
      /\ Len(order') = Len(order) + 1 /\ Len(order) \in Nat /\ order'[Len(order) + 1] = x
      /\ \A i \in 1..Len(order) : order'[i] = order[i] /\ order[i] \in Tx
  BY <1>1, AppendProperties, LenProperties, ElementOfSeq
<1>3. /\ \A y \in Tx : Streamed(y) => y # x /\ Streamed(y)'
      /\ \A y \in Tx \ {x} : Streamed(y)' => Streamed(y)
      /\ \A y \in Tx : commitAt[y] < walEnd /\ commitAt[y] \in Nat
  BY <1>0, <1>1, <1>2 DEF Streamed, ServerType, IInv, LogOK
<1>4. RowsOK' /\ RealOK'
  <2>1. RowsOK'
    BY <1>1 DEF FeedInv, RowsOK
  <2>2. \A y \in Tx : Streamed(y) => Streamed(y)'
    BY <1>3
  <2>3. RealOK'
    BY <1>1, <2>2 DEF FeedInv, RealOK, IsRow
  <2> QED BY <2>1, <2>3
<1>5. BegunOK'
  <2>1. origin # 0 => Streamed(x)'
    BY <1>1, <1>2 DEF Streamed, FeedInv, BegunOK
  <2>2. stream # "down" => \A i \in next..Len(order') : Streamed(order[i])'
    <3> SUFFICES ASSUME stream # "down", NEW i \in next..Len(order') PROVE Streamed(order[i])'
      OBVIOUS
    <3>1. next \in Nat /\ next >= 1 /\ origin # 0
      BY <1>0, TypeSplit DEF IInv, SendingOK, SenderType
    <3>2. CASE i = Len(order) + 1
      BY <1>2, <2>1, <3>1, <3>2
    <3>3. CASE i # Len(order) + 1
      <4>1. i \in next..Len(order) /\ i \in 1..Len(order)
        BY <1>2, <3>1, <3>3
      <4> QED BY <1>2, <1>3, <4>1 DEF FeedInv, BegunOK
    <3> QED BY <3>2, <3>3
  <2>3. origin \in Nat /\ origin <= walEnd'
    BY <1>0, <1>1 DEF ServerType, FeedInv, BegunOK
  <2> QED BY <1>1, <2>2, <2>3 DEF FeedInv, BegunOK
<1>6. OrderOK' /\ EventsOK'
  <2>1. Published' = Published
    BY <1>1 DEF Published
  <2>2. EventsOK'
    BY <1>1, <2>1 DEF FeedInv, EventsOK, Done
  <2>3. ASSUME stream # "down", NEW l \in 1..Len(actions), NEW y \in Tx, NEW j \in 1..Len(rows[y]),
               Streamed(y)', Earlier(y, j, actions[l])'
        PROVE  \/ rows[y][j] \in Published
               \/ \E k \in 1..l - 1 : actions[k].at = rows[y][j]
    <3>1. actions[l].tx \in Tx /\ Streamed(actions[l].tx)
      BY <2>3 DEF FeedInv, RealOK, IsRow
    <3>2. y # x /\ Earlier(y, j, actions[l]) /\ Streamed(y)
      BY <1>1, <1>2, <1>3, <2>3, <3>1 DEF Earlier
    <3> QED BY <2>3, <3>2 DEF FeedInv, OrderOK
  <2>4. OrderOK'
    BY <1>1, <2>1, <2>3 DEF OrderOK
  <2> QED BY <2>2, <2>4
<1> QED BY <1>0, <1>4, <1>5, <1>6 DEF FeedInv

\* A step at which the process starts with an empty WalTransaction, or ends.
LEMMA FeedFresh ==
    ASSUME FeedInv, IInv', UNCHANGED <<database, handed>>,
           stream' # "publishing", stream' # "down" => actions' = <<>>,
           origin' = origin \/ origin = 0, BegunOK'
    PROVE  FeedInv'
<1>1. RowsOK'
  BY DEF FeedInv, RowsOK, database
<1>2. RealOK'
  <2>1. \A e \in handed : origin' = origin
    BY DEF FeedInv, RealOK, IsRow, Streamed
  <2>2. \A e \in handed : IsRow(e)'
    BY <2>1 DEF FeedInv, RealOK, IsRow, Streamed, database
  <2> QED BY <2>2 DEF FeedInv, RealOK
<1>3. OrderOK' /\ EventsOK'
  BY DEF OrderOK, EventsOK
<1> QED BY <1>1, <1>2, <1>3 DEF FeedInv

LEMMA FeedStart ==
    ASSUME FeedInv, ProcessNewSlot \/ \E r \in origin..confirmed : ProcessOldSlot(r)
    PROVE  FeedInv'
<1>0. /\ IInv /\ IInv' /\ TypeOK /\ LogOK /\ origin \in Nat /\ confirmed \in Nat /\ walEnd \in Nat
      /\ walEnd >= 1
  BY NewSlotOK, OldSlotOK, TypeSplit DEF FeedInv, IInv, LogOK, ServerType
<1>1. PICK p \in Nat : /\ StartGoroutines(p) /\ confirmed' = p /\ p >= origin'
                       /\ origin' <= walEnd /\ origin' <= lsn' /\ origin' # 0 /\ origin' \in Nat
                       /\ origin' = origin \/ origin = 0
                       /\ UNCHANGED <<database, handed>>
  <2>1. CASE ProcessNewSlot
    BY <1>0, <2>1 DEF ProcessNewSlot, nats
  <2>2. ASSUME NEW r \in origin..confirmed, ProcessOldSlot(r)
        PROVE  /\ StartGoroutines(confirmed) /\ confirmed' = confirmed /\ confirmed >= origin'
               /\ origin' <= walEnd /\ origin' <= lsn' /\ origin' # 0 /\ origin' = origin
               /\ UNCHANGED <<database, handed>>
    BY <1>0, <2>2 DEF ProcessOldSlot, nats, slot, FeedInv, BegunOK
  <2> QED BY <1>0, <2>1, <2>2
<1>2. \A i \in next'..Len(order) : Streamed(order[i])'
  <2> SUFFICES ASSUME NEW i \in next'..Len(order) PROVE Streamed(order[i])'
    OBVIOUS
  <2>1. CommittedBefore(p) \in 0..Len(order) /\ Len(order) \in Nat
    BY <1>0, CommittedFirst, TypeSplit, LenProperties DEF ServerType
  <2>2. i \in CommittedBefore(p) + 1..Len(order) /\ i \in 1..Len(order)
    BY <1>1, <2>1 DEF StartGoroutines
  <2>3. commitAt[order[i]] >= p /\ order[i] \in Tx /\ commitAt[order[i]] \in Nat
    BY <1>0, <2>2, CommittedFirst, TypeSplit, ElementOfSeq DEF ServerType
  <2> QED BY <1>1, <2>3 DEF Streamed, database
<1>3. BegunOK'
  BY <1>1, <1>2 DEF BegunOK, StartGoroutines, database
<1> QED BY <1>0, <1>1, <1>3, FeedFresh DEF StartGoroutines

LEMMA FeedStop ==
    ASSUME FeedInv, Crash \/ Exit
    PROVE  FeedInv'
<1>1. IInv'
  BY StopOK DEF FeedInv
<1>2. UNCHANGED <<database, origin, confirmed, handed>> /\ stream' = "down" /\ beat' = 0
  BY DEF Crash, Exit, Down, slot
<1>3. BegunOK'
  BY <1>2 DEF FeedInv, BegunOK, database
<1> QED BY <1>1, <1>2, <1>3, FeedFresh

\* The positions that are reported are not before the slot's.
LEMMA FeedQuiet ==
    ASSUME FeedInv, IInv',
           UNCHANGED <<database, origin, next, actions, events, handed>>,
           stream' = stream \/ (stream # "down" /\ stream' \notin {"down", "publishing"}),
           origin <= confirmed', lsn' >= lsn, beat' # 0 => origin <= beat'
    PROVE  FeedInv'
<1>0. origin \in Nat /\ lsn \in Nat /\ lsn' \in Nat
  BY TypeSplit DEF FeedInv, IInv, ServerType, GoroutineType, TypeOK
<1>1. RowsOK' /\ RealOK'
  BY DEF FeedInv, RowsOK, RealOK, IsRow, Streamed, database
<1>2. BegunOK'
  BY <1>0 DEF FeedInv, BegunOK, Streamed, database
<1>3. Published' = Published
  BY DEF Published
<1>4. OrderOK' /\ EventsOK'
  BY <1>3 DEF FeedInv, OrderOK, EventsOK, Earlier, Streamed, Done, database
<1> QED BY <1>1, <1>2, <1>4 DEF FeedInv

LEMMA FeedPositions ==
    ASSUME FeedInv,
           \/ ReleaseSlot \/ Flush \/ Interrupt
           \/ LoseConnection \/ RepositoryLost \/ CheckConnection
           \/ ProcessHeartBeat \/ HeartbeatRead \/ HeartbeatSend \/ StreamEnds \/ AckWalMessage
    PROVE  FeedInv'
<1>0. /\ IInv' /\ BegunOK /\ origin \in Nat /\ lsn \in Nat /\ beat \in Nat /\ walStart \in Nat
      /\ confirmed \in Nat
  BY OutsideOK, HeartbeatOK, AckOK, TypeSplit DEF FeedInv, IInv, GoroutineType, ServerType
<1>1. CASE \/ ReleaseSlot \/ Flush \/ Interrupt
           \/ LoseConnection \/ RepositoryLost \/ CheckConnection
  <2>1. UNCHANGED <<database, origin, next, actions, events, handed, stream, confirmed, lsn, beat>>
    BY <1>1 DEF ReleaseSlot, Flush, Interrupt, LoseConnection, RepositoryLost, CheckConnection,
       slot, sender, transaction, nats
  <2> QED BY <1>0, <2>1, FeedQuiet DEF BegunOK
<1>2. CASE ProcessHeartBeat \/ HeartbeatRead \/ HeartbeatSend \/ StreamEnds
  <2>1. /\ UNCHANGED <<database, origin, next, actions, events, handed, lsn>>
        /\ stream' = stream \/ (stream # "down" /\ stream' \notin {"down", "publishing"})
    BY <1>2 DEF ProcessHeartBeat, HeartbeatRead, HeartbeatSend, StreamEnds, slot, sender,
       transaction, nats
  <2>2. origin <= confirmed' /\ (beat' # 0 => origin <= beat')
    BY <1>0, <1>2 DEF ProcessHeartBeat, HeartbeatRead, HeartbeatSend, StreamEnds, slot, BegunOK,
       SendStandbyStatus
  <2> QED BY <1>0, <2>1, <2>2, FeedQuiet
<1>3. CASE AckWalMessage
  <2>1. /\ UNCHANGED <<database, origin, next, actions, events, handed, beat>>
        /\ stream # "down" /\ stream' = "waiting"
    BY <1>3 DEF AckWalMessage, sender, transaction, nats
  <2>2. origin <= confirmed' /\ lsn' >= lsn
    BY <1>0, <1>3 DEF AckWalMessage, BegunOK, SendStandbyStatus
  <2> QED BY <1>0, <2>1, <2>2, FeedQuiet DEF BegunOK
<1> QED BY <1>1, <1>2, <1>3

LEMMA FeedClear ==
    ASSUME FeedInv, Clear
    PROVE  FeedInv'
<1>1. /\ UNCHANGED <<database, origin, next, confirmed, lsn, beat, handed>>
      /\ stream = "publishing" /\ stream' = "acking" /\ actions' = <<>>
  BY DEF Clear, slot, sender, nats
<1>2. IInv' /\ BegunOK'
  BY <1>1, ClearOK DEF FeedInv, BegunOK, Streamed, database
<1> QED BY <1>1, <1>2, FeedFresh

LEMMA FeedPublish ==
    ASSUME FeedInv, Publish
    PROVE  FeedInv'
<1>0. IInv /\ IInv' /\ events \in Seq(Event) /\ actions \in Seq(Action)
  BY PublishOK, TypeSplit DEF FeedInv, IInv, GatherType
<1>1. /\ stream = "publishing" /\ events # <<>>
      /\ UNCHANGED <<database, origin, next, confirmed, lsn, beat, actions>>
      /\ \/ /\ handed' = handed \cup {Head(events)} /\ events' = Tail(events)
            /\ stream' = stream
         \/ handed' = handed /\ stream' = "waiting"
  BY DEF Publish, slot, sender, transaction, nats
<1>2. /\ Len(events) \in Nat \ {0} /\ Len(events') \in Nat /\ Len(actions) \in Nat
      /\ Head(events) = events[1]
      /\ events' = Tail(events) =>
           /\ Len(events') = Len(events) - 1
           /\ \A i \in 1..Len(events') : events'[i] = events[i + 1]
  <2>1. Len(events') \in Nat
    BY <1>0, TypeSplit, LenProperties DEF IInv, GatherType, TypeOK
  <2>2. Len(events) \in Nat /\ Len(events) # 0 /\ Len(actions) \in Nat
    BY <1>0, <1>1, LenProperties, EmptySeq
  <2> QED BY <1>0, <1>1, <2>1, <2>2, HeadTailProperties
<1>3. Done + 1 \in 1..Len(actions) /\ Done \in Nat
      /\ events[1].at = actions[Done + 1].at /\ events[1].tx = actions[Done + 1].tx
  BY <1>1, <1>2 DEF FeedInv, EventsOK, Done
<1>4. RowsOK'
  BY <1>1 DEF FeedInv, RowsOK, database
<1>5. RealOK'
  <2>1. events[1].tx \in Tx /\ IsRow(events[1])
    BY <1>1, <1>3 DEF FeedInv, RealOK, IsRow
  <2>2. \A e \in handed' : e.tx \in Tx /\ IsRow(e)
    BY <1>1, <1>2, <2>1 DEF FeedInv, RealOK
  <2> QED BY <1>1, <2>2 DEF FeedInv, RealOK, IsRow, Streamed, database
<1>6. BegunOK'
  BY <1>1 DEF FeedInv, BegunOK, Streamed, database
<1>7. Published \subseteq Published'
  BY <1>1 DEF Published
<1>8. OrderOK'
  BY <1>1, <1>7 DEF FeedInv, OrderOK, Earlier, Streamed, database
<1>9. EventsOK'
  <2> SUFFICES ASSUME stream' = "publishing" PROVE EventsOK'
    BY DEF EventsOK
  <2>1. handed' = handed \cup {Head(events)} /\ events' = Tail(events)
    BY <1>1
  <2>2. Done' = Done + 1
    BY <1>1, <1>2, <2>1 DEF Done
  <2>3. \A k \in 1..Done' : actions[k].at \in Published'
    <3>1. actions[Done + 1].at \in Published'
      BY <1>2, <1>3, <2>1 DEF Published
    <3>2. \A k \in 1..Done : actions[k].at \in Published'
      BY <1>1, <1>7 DEF FeedInv, EventsOK
    <3> QED BY <1>3, <2>2, <3>1, <3>2
  <2>4. \A i \in 1..Len(events') : /\ events'[i].at = actions[Done' + i].at
                                   /\ events'[i].tx = actions[Done' + i].tx
    <3> SUFFICES ASSUME NEW i \in 1..Len(events')
                 PROVE  /\ events'[i].at = actions[Done' + i].at
                        /\ events'[i].tx = actions[Done' + i].tx
      OBVIOUS
    <3>1. i + 1 \in 1..Len(events) /\ events'[i] = events[i + 1] /\ Done + (i + 1) = Done' + i
      BY <1>2, <1>3, <2>1, <2>2
    <3>2. /\ events[i + 1].at = actions[Done + (i + 1)].at
          /\ events[i + 1].tx = actions[Done + (i + 1)].tx
      BY <1>1, <3>1 DEF FeedInv, EventsOK
    <3> QED BY <3>1, <3>2
  <2> QED BY <1>1, <1>3, <2>2, <2>3, <2>4 DEF EventsOK
<1> QED BY <1>0, <1>4, <1>5, <1>6, <1>8, <1>9 DEF FeedInv

\* A row that is received comes after all that were sent.
LEMMA FeedGathers ==
    ASSUME FeedInv, stream = "waiting", next <= Len(order), NEW x \in Tx, x = order[next],
           RowGathered(x), UNCHANGED <<database, origin, handed>>, stream' # "down",
           RowsOK'
    PROVE  RealOK' /\ OrderOK'
<1>0. /\ IInv /\ LogOK /\ SentOK /\ ServerType /\ actions \in Seq(Action)
      /\ next \in 1..Len(order) /\ next \in Nat /\ pos \in 1..Len(rows[x]) /\ pos \in Nat
      /\ Len(order) \in Nat /\ rows[x][pos] \in Nat /\ commitAt[x] \in Nat
  <2>1. IInv /\ LogOK /\ SentOK /\ ServerType /\ actions \in Seq(Action)
    BY TypeSplit DEF FeedInv, IInv, GatherType
  <2> QED BY <2>1, InTransaction DEF RowGathered
<1>1. PICK a \in Action : a = [at |-> rows[x][pos], tx |-> x]
  BY <1>0 DEF Action
<1>2. /\ a.at = rows[x][pos] /\ a.tx = x
      /\ Len(actions) \in Nat /\ Len(actions') = Len(actions) + 1
      /\ actions'[Len(actions) + 1] = a
      /\ \A k \in 1..Len(actions) : actions'[k] = actions[k]
  BY <1>0, <1>1, AppendProperties, LenProperties DEF RowGathered
<1>3. Streamed(x)
  BY <1>0 DEF FeedInv, BegunOK
<1>4. RealOK'
  <2>1. ASSUME NEW k \in 1..Len(actions') PROVE actions'[k].tx \in Tx /\ IsRow(actions'[k])
    <3>1. CASE k = Len(actions) + 1
      BY <1>0, <1>2, <1>3, <3>1 DEF IsRow
    <3>2. CASE k # Len(actions) + 1
      <4>1. k \in 1..Len(actions)
        BY <1>2, <3>2
      <4> QED BY <1>2, <4>1 DEF FeedInv, RealOK
    <3> QED BY <3>1, <3>2
  <2> QED BY <2>1 DEF FeedInv, RealOK, IsRow, Streamed, database
<1>5. ASSUME NEW y \in Tx, NEW j \in 1..Len(rows[y]), Streamed(y), Earlier(y, j, a)
      PROVE  \/ rows[y][j] \in Published
             \/ \E k \in 1..Len(actions) : actions[k].at = rows[y][j]
  <2>0. j \in Nat /\ rows[y][j] \in Nat /\ commitAt[y] \in Nat /\ commitAt[y] # 0
    <3>1. rows[y] \in Seq(Nat) /\ origin \in Nat /\ commitAt[y] \in Nat
      BY <1>0 DEF ServerType
    <3>2. j \in Nat /\ rows[y][j] \in Nat
      BY <3>1, ElementOfSeq, LenProperties
    <3> QED BY <1>5, <3>1, <3>2 DEF Streamed
  <2>1. CASE commitAt[y] < commitAt[x]
    <3>0. LogOK
      BY <1>0
    <3>1. PICK i \in 1..Len(order) : order[i] = y
      BY <2>0, <3>0 DEF LogOK
    <3>2. i < next
      BY <1>0, <2>0, <2>1, <3>1 DEF LogOK
    <3>3. i \in 1..next - 1
      BY <1>0, <3>1, <3>2
    <3>4. rows[y][j] \in Published \/ rows[y][j] \in Gathered
      BY <1>0, <1>5, <3>1, <3>3 DEF SentOK
    <3> QED BY <3>4 DEF Gathered
  <2>2. CASE y = x /\ rows[x][j] < rows[x][pos]
    <3>1. j < pos
      BY <1>0, <2>0, <2>2 DEF FeedInv, RowsOK
    <3>2. rows[y][j] \in Published \/ rows[y][j] \in Gathered
      BY <1>0, <2>0, <2>2, <3>1 DEF SentOK
    <3> QED BY <3>2 DEF Gathered
  <2> QED BY <1>2, <1>5, <2>1, <2>2 DEF Earlier
<1>6. OrderOK'
  <2>1. ASSUME NEW l \in 1..Len(actions'), NEW y \in Tx, NEW j \in 1..Len(rows[y]), Streamed(y),
               Earlier(y, j, actions'[l])
        PROVE  \/ rows[y][j] \in Published
               \/ \E k \in 1..l - 1 : actions'[k].at = rows[y][j]
    <3>1. CASE l = Len(actions) + 1
      BY <1>2, <1>5, <2>1, <3>1
    <3>2. CASE l # Len(actions) + 1
      <4>1. l \in 1..Len(actions) /\ actions'[l] = actions[l]
        BY <1>2, <3>2
      <4>2. \/ rows[y][j] \in Published
            \/ \E k \in 1..l - 1 : actions[k].at = rows[y][j]
        BY <2>1, <4>1 DEF FeedInv, OrderOK
      <4> QED BY <1>2, <4>1, <4>2
    <3> QED BY <3>1, <3>2
  <2>2. Published' = Published
    BY DEF Published
  <2> QED BY <2>1, <2>2 DEF OrderOK, Earlier, Streamed, database
<1> QED BY <1>4, <1>6

LEMMA FeedReceive ==
    ASSUME FeedInv, Receive
    PROVE  FeedInv'
<1>0. IInv /\ IInv' /\ actions' \in Seq(Action) /\ txCommit' \in Tx \cup {NoTx}
  BY ReceiveOK, TypeSplit DEF FeedInv, IInv, GatherType, TypeOK
<1>1. PICK x \in Tx : x = order[next]
  BY <1>0, ReceiveCases, InTransaction
<1>2. /\ stream = "waiting" /\ next \in 1..Len(order) /\ next \in Nat /\ next <= Len(order)
      /\ Len(order) \in Nat
      /\ Begun(x) \/ Related(x) \/ RowGathered(x) \/ Committed(x)
      /\ \/ /\ stream' = "publishing" /\ txCommit' # NoTx
            /\ events' = CreateEventsWithFilter(actions', txCommit')
         \/ stream' = "acking"
  BY <1>0, <1>1, ReceiveCases, InTransaction
<1>3. UNCHANGED <<database, origin, confirmed, lsn, beat, handed>>
  BY DEF Receive, slot, nats
<1>4. RowsOK'
  BY <1>3 DEF FeedInv, RowsOK, database
<1>5. BegunOK'
  <2>1. next' = next \/ next' = next + 1
    BY <1>2 DEF Begun, Related, RowGathered, Committed
  <2>2. \A i \in next'..Len(order) : Streamed(order[i])
    BY <1>2, <2>1 DEF FeedInv, BegunOK
  <2> QED BY <1>2, <1>3, <2>2 DEF FeedInv, BegunOK, Streamed, database
<1>6. RealOK' /\ OrderOK'
  <2>1. CASE RowGathered(x)
    BY <1>1, <1>2, <1>3, <1>4, <2>1, FeedGathers
  <2>2. CASE Begun(x) \/ Related(x) \/ Committed(x)
    <3>1. actions' = actions /\ Published' = Published
      BY <1>3, <2>2 DEF Begun, Related, Committed, Published
    <3>2. RealOK /\ OrderOK
      BY DEF FeedInv
    <3>3. RealOK'
      BY <1>2, <1>3, <3>1, <3>2 DEF RealOK, IsRow, Streamed, database
    <3>4. OrderOK'
      BY <1>2, <1>3, <3>1, <3>2 DEF OrderOK, Earlier, Streamed, database
    <3> QED BY <3>3, <3>4
  <2> QED BY <1>2, <2>1, <2>2
<1>7. EventsOK'
  <2> SUFFICES ASSUME stream' = "publishing" PROVE EventsOK'
    BY DEF EventsOK
  <2>1. PICK as \in Seq(Action), c \in Tx :
          as = actions' /\ c = txCommit' /\ events' = CreateEventsWithFilter(as, c)
    BY <1>0, <1>2
  <2>2. /\ Len(events') = Len(actions') /\ Len(actions') \in Nat
        /\ \A k \in 1..Len(events') : /\ events'[k].at = actions'[k].at
                                      /\ events'[k].tx = actions'[k].tx
    BY <2>1, EventsOfActions, LenProperties
  <2>3. Done' = 0
    BY <2>2 DEF Done
  <2> QED BY <2>2, <2>3 DEF EventsOK
<1> QED BY <1>0, <1>4, <1>5, <1>6, <1>7 DEF FeedInv

LEMMA FeedStep == FeedInv /\ [Next]_vars => FeedInv'
<1> SUFFICES ASSUME FeedInv, [Next]_vars PROVE FeedInv'
  OBVIOUS
<1>1. CASE \E x \in Tx : Change(x) \/ Commit(x)
  BY <1>1, FeedChange, FeedCommit
<1>2. CASE ProcessStep \/ Crash
  BY <1>2, FeedStart, FeedStop DEF ProcessStep
<1>3. CASE \/ ReleaseSlot \/ Flush \/ Interrupt
           \/ LoseConnection \/ RepositoryLost \/ CheckConnection
           \/ ProcessHeartBeat \/ HeartbeatRead \/ HeartbeatSend \/ StreamEnds \/ AckWalMessage
  BY <1>3, FeedPositions
<1>4. CASE Receive \/ Publish \/ Clear
  BY <1>4, FeedReceive, FeedPublish, FeedClear
<1>5. CASE UNCHANGED vars
  <2>1. IInv'
    BY <1>5, StutterOK DEF FeedInv
  <2>2. UNCHANGED <<database, origin, next, actions, events, handed, stream, confirmed, lsn, beat>>
    BY <1>5 DEF vars, database
  <2>3. BegunOK /\ lsn \in Nat
    BY TypeSplit DEF FeedInv, IInv, GoroutineType
  <2> QED BY <2>1, <2>2, <2>3, FeedQuiet DEF BegunOK
<1> QED BY <1>1, <1>2, <1>3, <1>4, <1>5 DEF Next, StreamStep

LEMMA FeedAlways == Spec => []FeedInv
BY FeedInit, FeedStep, PTL DEF Spec
-----------------------------------------------------------------------------
(* Steps of the feed *)

\* In the log a row is known by its position.
LEMMA CommitsDiffer ==
    ASSUME FeedInv, NEW x \in Tx, NEW y \in Tx, commitAt[x] # 0, commitAt[x] = commitAt[y]
    PROVE  x = y
<1>1. LogOK /\ ServerType
  BY TypeSplit DEF FeedInv, IInv
<1>2. PICK i \in 1..Len(order) : order[i] = x
  BY <1>1 DEF LogOK
<1>3. PICK j \in 1..Len(order) : order[j] = y
  BY <1>1 DEF LogOK
<1>4. Len(order) \in Nat /\ commitAt[x] \in Nat
  BY <1>1, LenProperties DEF ServerType
<1>5. ~ (i < j) /\ ~ (j < i)
  BY <1>1, <1>2, <1>3, <1>4 DEF LogOK
<1>6. i \in Nat /\ j \in Nat
  BY <1>4
<1>7. i = j
  BY <1>5, <1>6
<1> QED BY <1>2, <1>3, <1>7

LEMMA LogIs ==
    \A c : c \in Log <=> \E x \in Tx : \E j \in 1..Len(rows[x]) :
                            Streamed(x) /\ c = [commit |-> commitAt[x], at |-> rows[x][j]]
BY DEF Log

\* A row is out when its position is published.
LEMMA OutIs ==
    ASSUME FeedInv, NEW x \in Tx, NEW j \in 1..Len(rows[x]), Streamed(x)
    PROVE  [commit |-> commitAt[x], at |-> rows[x][j]] \in Out <=> rows[x][j] \in Published
<1>1. ASSUME NEW e \in handed, e.at = rows[x][j] PROVE e.tx = x
  BY <1>1 DEF FeedInv, RealOK, RowsOK, IsRow
<1>2. ASSUME NEW e \in handed, [commit |-> commitAt[x], at |-> rows[x][j]]
                                = [commit |-> commitAt[e.tx], at |-> e.at]
      PROVE  e.at = rows[x][j]
  BY <1>2
<1> QED BY <1>1, <1>2 DEF Out, Published

LEMMA OutInLog == FeedInv => Out \subseteq Log
<1> SUFFICES ASSUME FeedInv, NEW e \in handed
             PROVE  [commit |-> commitAt[e.tx], at |-> e.at] \in Log
  BY DEF Out
<1> QED BY LogIs DEF FeedInv, RealOK, IsRow

\* What may be forgotten is published, and nothing is missing before it.
LEMMA AckedOK ==
    FeedInv => Acked \subseteq Out /\ Feed!Prefix(Acked)
<1> SUFFICES ASSUME FeedInv PROVE Acked \subseteq Out /\ Feed!Prefix(Acked)
  OBVIOUS
<1>1. ASSUME NEW c \in Log, c.commit < confirmed PROVE c \in Out
  <2>1. PICK x \in Tx : \E j \in 1..Len(rows[x]) :
                           Streamed(x) /\ c = [commit |-> commitAt[x], at |-> rows[x][j]]
    BY <1>1, LogIs
  <2>2. PICK j \in 1..Len(rows[x]) : Streamed(x) /\ c = [commit |-> commitAt[x], at |-> rows[x][j]]
    BY <2>1
  <2>3. commitAt[x] < confirmed
    BY <1>1, <2>2
  <2>4. rows[x][j] \in Published
    BY <2>2, <2>3 DEF FeedInv, IInv, PositionsOK, Safe, Handed, Published
  <2> QED BY <2>2, <2>4, OutIs
<1>2. ASSUME NEW c \in Acked, NEW d \in Log, Feed!Before(d, c) PROVE d \in Acked
  <2>1. c \in Log /\ c.commit < confirmed
    BY DEF Acked
  <2>2. c.commit \in Nat /\ d.commit \in Nat /\ confirmed \in Nat
    BY <2>1, LogIs, TypeSplit DEF FeedInv, IInv, ServerType
  <2> QED BY <1>2, <2>1, <2>2 DEF Feed!Before, Acked
<1> QED BY <1>1, <1>2 DEF Acked, Feed!Prefix

LEMMA LogSame ==
    ASSUME UNCHANGED <<rows, commitAt, origin>>
    PROVE  Log' = Log
BY DEF Log, Streamed

LEMMA OutSame ==
    ASSUME UNCHANGED <<commitAt, handed>>
    PROVE  Out' = Out
BY DEF Out

\* A step of the listener other than Publish and Commit acknowledges, or is none of the feed's.
LEMMA FeedAcknowledges ==
    ASSUME FeedInv', Log' = Log, Out' = Out
    PROVE  Feed!Acknowledge
<1>1. (Acked \subseteq Out /\ Feed!Prefix(Acked))'
  BY AckedOK, PTL
<1> QED BY <1>1 DEF Feed!Acknowledge, Feed!Prefix, Feed!Before

LEMMA FeedCommits ==
    ASSUME FeedInv, NEW x \in Tx, Commit(x)
    PROVE  [Feed!Next]_(Feed!feed)
<1>0. /\ IInv /\ ServerType /\ LogOK /\ origin \in Nat /\ confirmed \in Nat /\ walEnd \in Nat
      /\ confirmed <= walEnd
  BY TypeSplit DEF FeedInv, IInv, ServerType, PositionsOK, Safe
<1>1. /\ commitAt[x] = 0 /\ \A y \in Tx : commitAt'[y] = IF y = x THEN walEnd ELSE commitAt[y]
      /\ UNCHANGED <<rows, origin, confirmed, handed>>
  BY <1>0 DEF Commit, ServerType, slot, nats
<1>2. \A y \in Tx : commitAt[y] \in Nat /\ commitAt[y] < walEnd
  BY <1>0 DEF ServerType, LogOK
<1>3. \A y \in Tx : Streamed(y) => y # x /\ Streamed(y)' /\ commitAt'[y] = commitAt[y]
  BY <1>0, <1>1 DEF Streamed
<1>4. ASSUME NEW c \in Log PROVE c \in Log' /\ c.commit \in Nat /\ c.commit < walEnd
  <2>0. PICK y \in Tx : \E j \in 1..Len(rows[y]) :
          Streamed(y) /\ c = [commit |-> commitAt[y], at |-> rows[y][j]]
    BY LogIs
  <2>1. PICK j \in 1..Len(rows[y]) :
          Streamed(y) /\ c = [commit |-> commitAt[y], at |-> rows[y][j]]
    BY <2>0
  <2>2. c.commit = commitAt[y]
    BY <2>1
  <2>3. c = [commit |-> commitAt'[y], at |-> rows'[y][j]] /\ Streamed(y)'
    BY <1>1, <1>3, <2>1
  <2>4. c \in Log'
    BY <1>1, <2>3 DEF Log
  <2> QED BY <1>2, <2>2, <2>4
<1>5. ASSUME NEW c \in Log', c \notin Log PROVE c.commit = walEnd
  <2>0. PICK y \in Tx : \E j \in 1..Len(rows[y]) :
          Streamed(y)' /\ c = [commit |-> commitAt'[y], at |-> rows[y][j]]
    BY <1>1 DEF Log
  <2>1. PICK j \in 1..Len(rows[y]) :
          Streamed(y)' /\ c = [commit |-> commitAt'[y], at |-> rows[y][j]]
    BY <2>0
  <2>2. CASE y = x
    BY <1>1, <2>1, <2>2
  <2>3. CASE y # x
    <3>1. Streamed(y) /\ c = [commit |-> commitAt[y], at |-> rows[y][j]]
      BY <1>1, <2>1, <2>3 DEF Streamed
    <3> QED BY <1>5, <3>1, LogIs
  <2> QED BY <2>2, <2>3
<1>6. Out' = Out
  <2>1. \A e \in handed : commitAt'[e.tx] = commitAt[e.tx]
    BY <1>3 DEF FeedInv, RealOK, IsRow
  <2> QED BY <1>1, <2>1 DEF Out
<1>7. Acked' = Acked
  <2>1. \A c \in Log' : c.commit < confirmed => c \in Log
    BY <1>0, <1>5
  <2> QED BY <1>1, <1>4, <2>1 DEF Acked
<1>8. CASE Log' = Log
  BY <1>6, <1>7, <1>8 DEF Feed!feed
<1>9. CASE Log' # Log
  <2>1. \A c \in Log, d \in Log' \ Log : Feed!Before(c, d)
    BY <1>4, <1>5 DEF Feed!Before
  <2> QED BY <1>4, <1>6, <1>7, <1>9, <2>1 DEF Feed!Next, Feed!Commit
<1> QED BY <1>8, <1>9

\* An event that is handed over is that of the next change, or of one that was published.
LEMMA FeedPublishes ==
    ASSUME FeedInv, Publish
    PROVE  [Feed!Next]_(Feed!feed)
<1>0. IInv /\ ServerType /\ events \in Seq(Event)
  BY TypeSplit DEF FeedInv, IInv, GatherType
<1>1. /\ stream = "publishing" /\ events # <<>>
      /\ UNCHANGED <<rows, commitAt, origin, confirmed>>
      /\ handed' = handed \/ handed' = handed \cup {Head(events)}
  BY DEF Publish, slot, database, nats
<1>2. Log' = Log /\ Acked' = Acked
  <2>1. Log' = Log
    BY <1>1, LogSame
  <2> QED BY <1>1, <2>1 DEF Acked
<1>3. CASE handed' = handed
  BY <1>1, <1>2, <1>3, OutSame DEF Feed!feed
<1>4. CASE handed' = handed \cup {Head(events)}
  <2>1. 1 \in 1..Len(events) /\ Head(events) = events[1]
    <3>1. Len(events) \in Nat /\ Len(events) # 0
      BY <1>0, <1>1, LenProperties, EmptySeq
    <3> QED BY <1>0, <3>1
  <2>2. /\ Done \in Nat /\ Done + 1 \in 1..Len(actions)
        /\ events[1].at = actions[Done + 1].at /\ events[1].tx = actions[Done + 1].tx
    <3>1. Len(actions) \in Nat /\ Len(events) \in Nat
      BY <1>0, LenProperties, TypeSplit DEF IInv, GatherType
    <3> QED BY <1>1, <2>1, <3>1 DEF FeedInv, EventsOK, Done
  <2>3. PICK a \in Action : a = actions[Done + 1]
    BY <2>2, ElementOfSeq, TypeSplit DEF FeedInv, IInv, GatherType
  <2>3a. PICK x \in Tx : \E j \in 1..Len(rows[x]) :
          a.tx = x /\ Streamed(x) /\ a.at = rows[x][j]
    BY <1>1, <2>2, <2>3 DEF FeedInv, RealOK, IsRow
  <2>4. PICK j \in 1..Len(rows[x]) :
          a.tx = x /\ Streamed(x) /\ a.at = rows[x][j]
    BY <2>3a
  <2> DEFINE c == [commit |-> commitAt[x], at |-> rows[x][j]]
  <2>5. Out' = Out \cup {c}
    <3>1. c = [commit |-> commitAt[Head(events).tx], at |-> Head(events).at]
      BY <2>1, <2>2, <2>3, <2>4
    <3> HIDE DEF c
    <3> QED BY <1>1, <1>4, <3>1 DEF Out
  <2>6. c \in Log
    BY <2>4, LogIs
  <2>7. ASSUME NEW d \in Log, Feed!Before(d, c) PROVE d \in Out
    <3>0. PICK y \in Tx : \E i \in 1..Len(rows[y]) :
            Streamed(y) /\ d = [commit |-> commitAt[y], at |-> rows[y][i]]
      BY LogIs
    <3>1. PICK i \in 1..Len(rows[y]) :
            Streamed(y) /\ d = [commit |-> commitAt[y], at |-> rows[y][i]]
      BY <3>0
    <3>2. \/ commitAt[y] < commitAt[x]
          \/ commitAt[y] = commitAt[x] /\ rows[y][i] < rows[x][j]
      BY <2>7, <3>1 DEF Feed!Before
    <3>3. commitAt[x] # 0
      BY <1>0, <2>4 DEF Streamed, ServerType
    <3>4. Earlier(y, i, a)
      BY <2>4, <3>2, <3>3, CommitsDiffer DEF Earlier
    <3>5. \/ rows[y][i] \in Published
          \/ \E k \in 1..Done : actions[k].at = rows[y][i]
      BY <1>1, <2>2, <2>3, <3>1, <3>4 DEF FeedInv, OrderOK
    <3>6. rows[y][i] \in Published
      BY <1>1, <3>5 DEF FeedInv, EventsOK
    <3> QED BY <3>1, <3>6, OutIs
  <2> HIDE DEF c
  <2>8. CASE c \in Out
    <3>1. Out' = Out
      BY <2>5, <2>8
    <3> QED BY <1>2, <3>1 DEF Feed!feed
  <2>9. CASE c \notin Out
    BY <1>2, <2>5, <2>6, <2>7, <2>9 DEF Feed!Next, Feed!Publish
  <2> QED BY <2>8, <2>9
<1> QED BY <1>1, <1>3, <1>4

LEMMA FeedSteps == FeedInv /\ FeedInv' /\ [Next]_vars => [Feed!Next]_(Feed!feed)
<1> SUFFICES ASSUME FeedInv, FeedInv', [Next]_vars PROVE [Feed!Next]_(Feed!feed)
  OBVIOUS
<1>1. ASSUME NEW x \in Tx, Change(x) PROVE [Feed!Next]_(Feed!feed)
  <2>1. /\ UNCHANGED <<commitAt, origin, confirmed, handed>>
        /\ commitAt[x] = 0 /\ \A y \in Tx : y # x => rows'[y] = rows[y]
    BY <1>1, TypeSplit DEF Change, slot, nats, FeedInv, IInv, ServerType
  <2>2. \A y \in Tx : Streamed(y)' = Streamed(y) /\ (Streamed(y) => rows'[y] = rows[y])
    BY <2>1, TypeSplit DEF Streamed, FeedInv, IInv, ServerType
  <2>3. Log' = Log
    BY <2>1, <2>2 DEF Log
  <2>4. Out' = Out
    BY <2>1, OutSame
  <2> QED BY <2>3, <2>4, FeedAcknowledges DEF Feed!Next
<1>2. ASSUME NEW x \in Tx, Commit(x) PROVE [Feed!Next]_(Feed!feed)
  BY <1>2, FeedCommits
<1>3. CASE Publish
  BY <1>3, FeedPublishes
<1>4. CASE ProcessNewSlot
  <2>1. /\ origin = 0 /\ origin' = walEnd /\ UNCHANGED <<rows, commitAt, handed>>
        /\ \A y \in Tx : commitAt[y] \in Nat /\ commitAt[y] < walEnd /\ walEnd \in Nat
    BY <1>4, TypeSplit DEF ProcessNewSlot, database, nats, FeedInv, IInv, LogOK, ServerType
  <2>2. \A y \in Tx : ~ Streamed(y) /\ ~ Streamed(y)'
    BY <2>1 DEF Streamed
  <2>3. Log' = Log /\ Out' = Out
    BY <2>1, <2>2, OutSame DEF Log
  <2> QED BY <2>3, FeedAcknowledges DEF Feed!Next
<1>5. CASE UNCHANGED <<rows, commitAt, origin, handed>>
  BY <1>5, LogSame, OutSame, FeedAcknowledges DEF Feed!Next
<1>6. CASE \/ ReleaseSlot \/ Flush \/ Interrupt \/ Crash \/ Exit
           \/ LoseConnection \/ RepositoryLost \/ CheckConnection
           \/ \E r \in origin..confirmed : ProcessOldSlot(r)
  BY <1>5, <1>6 DEF ReleaseSlot, Flush, Interrupt, Crash, Exit, LoseConnection, RepositoryLost,
     CheckConnection, ProcessOldSlot, database, slot, nats
<1>7. CASE \/ ProcessHeartBeat \/ HeartbeatRead \/ HeartbeatSend \/ StreamEnds \/ AckWalMessage
           \/ Receive \/ Clear
  BY <1>5, <1>7 DEF ProcessHeartBeat, HeartbeatRead, HeartbeatSend, StreamEnds, AckWalMessage,
     Receive, Clear, database, slot, nats
<1>8. CASE UNCHANGED vars
  BY <1>5, <1>8 DEF vars
<1> QED BY <1>1, <1>2, <1>3, <1>4, <1>6, <1>7, <1>8 DEF Next, ProcessStep, StreamStep

\* The listener implements ChangeFeed: whatever fails to be published or acknowledged, and
\* wherever the process dies and starts again, each row is published for the first time in the
\* order of the commits, without a gap, and acknowledged only when it and all before it
\* are published (Stream, processMessage, CreateEventsWithFilter, AckWalMessage).
THEOREM ListenerIsAFeed == Spec => FeedSpec
<1>1. Init => Feed!Init
  BY DEF Init, Feed!Init, Log, Out, Acked, Streamed
<1>2. FeedInv /\ FeedInv' /\ [Next]_vars => [Feed!Next]_(Feed!feed)
  BY FeedSteps
<1> QED BY <1>1, <1>2, FeedAlways, PTL DEF Spec, FeedSpec, Feed!Spec
=============================================================================
