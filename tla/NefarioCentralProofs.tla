------------------------ MODULE NefarioCentralProofs ------------------------
(***************************************************************************)
(* Theorems about NefarioCentral, for any number of workers, services,     *)
(* runs, messages, failures and crashes.                                   *)
(***************************************************************************)
EXTENDS NefarioCentral, SequenceTheorems, TLAPS

Busy == {"handle", "update", "addStream", "ack"}

LEMMA FaultsType ==
    ASSUME TypeOK, NEW k, Fails(k) \/ NoFault
    PROVE  faults' \in Nat /\ crashes' \in Nat
BY DEF TypeOK, Fails, NoFault, bounds

LEMMA TypeInit == Init => TypeOK
<1> SUFFICES ASSUME Init PROVE TypeOK
  OBVIOUS
<1>1. <<>> \in Seq(Message) /\ <<>> \in Seq(Places) /\ Len(<<>>) = 0
  BY EmptySeq
<1>2. deliveries \in [Places -> 0..MaxDeliver] /\ next \in 1..Len(sent) + 1 /\ Len(sent) <= MaxSent
  BY <1>1, CentralAssumption DEF Init
<1>3. hand \in [Worker -> 0..next - 1]
  BY DEF Init
<1> QED BY <1>1, <1>2, <1>3 DEF Init, TypeOK
-----------------------------------------------------------------------------
(* Type correctness *)

LEMMA InHandType ==
    ASSUME TypeOK, NEW w \in Worker, pc[w] \in Busy
    PROVE  /\ hand[w] \in 1..next - 1 /\ hand[w] \in 1..Len(sent) /\ hand[w] \in Places
           /\ InHand(w) \in Run /\ sent[hand[w]] \in Message
<1>1. hand[w] \in 1..next - 1 /\ hand[w] \in 1..Len(sent)
  BY DEF TypeOK, Busy
<1>2. sent[hand[w]] \in Message
  BY <1>1, ElementOfSeq DEF TypeOK
<1> QED BY <1>1, <1>2, CentralAssumption DEF TypeOK, Places, Message, InHand

LEMMA PublishType ==
    ASSUME TypeOK, NEW m \in Message, Publish(m), life' \in [Run -> {"none", "open", "closed"}]
    PROVE  TypeOK'
<1>1. sent' \in Seq(Message) /\ Len(sent') <= MaxSent /\ next \in 1..Len(sent') + 1
  <2>1. CASE sent' = Append(sent, m)
    BY <2>1, AppendProperties, CentralAssumption DEF TypeOK, Publish
  <2>2. CASE sent' = sent
    BY <2>2 DEF TypeOK
  <2> QED BY <2>1, <2>2 DEF Publish
<1>2. faults' \in Nat /\ crashes' \in Nat
  BY FaultsType DEF Publish
<1>3. harmed' \subseteq Run
  BY DEF TypeOK, Publish, Harm, Message
<1> QED BY <1>1, <1>2, <1>3 DEF TypeOK, Publish, tables, central, Facts

LEMMA MinionType ==
    ASSUME TypeOK, NEW r \in Run, Minion(r)
    PROVE  TypeOK'
<1>1. CASE SendStart(r)
  BY <1>1, PublishType DEF SendStart, Message, TypeOK
<1>2. CASE SendCompleted(r)
  BY <1>2, PublishType DEF SendCompleted, Message, TypeOK
<1>3. ASSUME NEW k \in {"ping", "mailbox", "write"}, SendMore(r, k)
      PROVE  TypeOK'
  BY <1>3, PublishType DEF SendMore, Message, TypeOK
<1> QED BY <1>1, <1>2, <1>3 DEF Minion

LEMMA ProcessType ==
    ASSUME TypeOK, Start \/ Crash
    PROVE  TypeOK'
<1>1. CASE Start
  <2>1. faults' \in Nat /\ crashes' \in Nat
    BY <1>1, FaultsType DEF Start
  <2>2. pc' \in [Worker -> {"off", "connect", "idle", "handle", "update", "addStream", "ack", "ended"}]
    BY <1>1 DEF TypeOK, Start
  <2>3. \A w \in Worker : hand'[w] # 0 <=> pc'[w] \in {"handle", "update", "addStream", "ack"}
    BY <1>1 DEF TypeOK, Start
  <2> QED BY <1>1, <2>1, <2>2, <2>3 DEF TypeOK, Start, queue, tables, central, Facts
<1>2. CASE Crash
  <2>1. harmed' \subseteq Run
    BY <1>2, InHandType DEF TypeOK, Crash, Harm, Busy
  <2> QED BY <1>2, <2>1 DEF TypeOK, Crash, queue, tables, central, Facts
<1> QED BY <1>1, <1>2

\* The queue of the server, when a worker or a timer changes it.
QueueTypeOK ==
    /\ next \in 1..Len(sent) + 1
    /\ unacked \subseteq 1..next - 1 /\ due \subseteq 1..next - 1 /\ acked \subseteq 1..next - 1
    /\ deliveries \in [Places -> 0..MaxDeliver]
    /\ \A i \in due : deliveries[i] < MaxDeliver
    /\ \A i \in Places : i >= next => deliveries[i] = 0

\* A worker that goes from one place to another.
WorkTypeOK ==
    /\ pc \in [Worker -> {"off", "connect", "idle", "handle", "update", "addStream", "ack", "ended"}]
    /\ nefario = "down" => \A w \in Worker : pc[w] = "off"
    /\ hand \in [Worker -> 0..next - 1]
    /\ \A w \in Worker : hand[w] # 0 <=> pc[w] \in {"handle", "update", "addStream", "ack"}

LEMMA QueueStepType ==
    ASSUME TypeOK, QueueTypeOK', WorkTypeOK', Rest, faults' \in Nat, crashes' \in Nat
    PROVE  TypeOK'
BY DEF TypeOK, QueueTypeOK, WorkTypeOK, Rest, tables, central, Facts

LEMMA ConnectType ==
    ASSUME TypeOK, NEW w \in Worker, Connect(w) \/ FetchFails(w)
    PROVE  TypeOK'
<1>1. faults' \in Nat /\ crashes' \in Nat
  BY FaultsType DEF Connect, FetchFails
<1>2. QueueTypeOK'
  BY DEF TypeOK, QueueTypeOK, Connect, FetchFails, Rest
<1>3. WorkTypeOK'
  BY DEF TypeOK, WorkTypeOK, Connect, FetchFails, Rest
<1> QED BY <1>1, <1>2, <1>3, QueueStepType DEF Connect, FetchFails

LEMMA Widen ==
    ASSUME NEW m \in Nat, NEW n \in Nat, m <= n
    PROVE  /\ 1..m - 1 \subseteq 1..n - 1 /\ 0..m - 1 \subseteq 0..n - 1
           /\ 1..n - 1 \subseteq 0..n - 1
OBVIOUS

LEMMA FetchType ==
    ASSUME TypeOK, NEW w \in Worker, Fetch(w)
    PROVE  TypeOK'
<1>1. PICK i \in Places :
        /\ \/ i \in due /\ UNCHANGED next
           \/ due = {} /\ i = next /\ next <= Len(sent) /\ next' = next + 1
        /\ due' = due \ {i} /\ unacked' = unacked \cup {i}
        /\ deliveries' = [deliveries EXCEPT ![i] = @ + 1]
        /\ hand' = [hand EXCEPT ![w] = i]
  BY DEF Fetch
<1>2. /\ next \in Nat /\ next' \in Nat /\ Len(sent) \in Nat
      /\ next' \in 1..Len(sent) + 1
      /\ i \in 1..next' - 1 /\ next <= next'
  <2>1. next \in Nat /\ Len(sent) \in Nat /\ next >= 1 /\ next <= Len(sent) + 1
    BY LenProperties DEF TypeOK
  <2>2. CASE i \in due /\ UNCHANGED next
    <3>1. i \in 1..next - 1
      BY <2>2 DEF TypeOK
    <3> QED BY <2>1, <2>2, <3>1
  <2>3. CASE i = next /\ next <= Len(sent) /\ next' = next + 1
    BY <2>1, <2>3
  <2> QED BY <1>1, <2>1, <2>2, <2>3
<1>3. deliveries[i] \in Nat /\ deliveries[i] < MaxDeliver
  <2>1. CASE i \in due
    BY <2>1 DEF TypeOK
  <2>2. CASE i = next
    <3>1. deliveries[i] = 0
      BY <2>2, <1>2 DEF TypeOK
    <3> QED BY <3>1, CentralAssumption
  <2> QED BY <1>1, <2>1, <2>2
<1>w. /\ 1..next - 1 \subseteq 1..next' - 1 /\ 0..next - 1 \subseteq 0..next' - 1
      /\ 1..next' - 1 \subseteq 0..next' - 1
  BY <1>2, Widen
<1>4. QueueTypeOK'
  <2>1. deliveries' \in [Places -> 0..MaxDeliver]
    BY <1>1, <1>3, CentralAssumption DEF TypeOK
  <2>2. \A j \in due' : deliveries'[j] < MaxDeliver
    BY <1>1, <1>2 DEF TypeOK
  <2>3. \A j \in Places : j >= next' => deliveries'[j] = 0
    BY <1>1, <1>2 DEF TypeOK, Places
  <2>4. unacked' \subseteq 1..next' - 1 /\ due' \subseteq 1..next' - 1 /\ acked' \subseteq 1..next' - 1
    <3>2. unacked \subseteq 1..next - 1 /\ due \subseteq 1..next - 1 /\ acked \subseteq 1..next - 1
      BY DEF TypeOK
    <3> QED BY <1>1, <1>2, <1>w, <3>2 DEF Fetch
  <2> QED BY <1>2, <2>1, <2>2, <2>3, <2>4 DEF QueueTypeOK, Fetch, Rest
<1>5. WorkTypeOK'
  <2>1. hand' \in [Worker -> 0..next' - 1]
    <3>2. hand \in [Worker -> 0..next - 1]
      BY DEF TypeOK
    <3>3. i \in 0..next' - 1
      BY <1>2, <1>w
    <3> QED BY <1>1, <1>w, <3>2, <3>3
  <2>2. i # 0
    BY <1>2
  <2> QED BY <1>1, <2>1, <2>2 DEF TypeOK, WorkTypeOK, Fetch, Rest
<1>6. faults' \in Nat /\ crashes' \in Nat
  BY FaultsType DEF Fetch
<1> QED BY <1>4, <1>5, <1>6, QueueStepType DEF Fetch

LEMMA AckType ==
    ASSUME TypeOK, NEW w \in Worker, Ack(w)
    PROVE  TypeOK'
<1>1. faults' \in Nat /\ crashes' \in Nat
  BY FaultsType DEF Ack
<1>2. hand[w] \in 1..next - 1
  BY InHandType DEF Ack, Busy
<1>3. QueueTypeOK'
  BY <1>2 DEF TypeOK, QueueTypeOK, Ack, Rest
<1>4. 0 \in 0..next - 1
  BY <1>2 DEF TypeOK
<1>5. WorkTypeOK'
  BY <1>4 DEF TypeOK, WorkTypeOK, Ack, Rest
<1> QED BY <1>1, <1>3, <1>5, QueueStepType DEF Ack

LEMMA AckWaitEndsType ==
    ASSUME TypeOK, NEW i \in Places, AckWaitEnds(i)
    PROVE  TypeOK'
<1>1. faults' \in Nat /\ crashes' \in Nat
  BY FaultsType DEF AckWaitEnds
<1>2. QueueTypeOK'
  BY DEF TypeOK, QueueTypeOK, AckWaitEnds, Rest
<1>3. WorkTypeOK'
  BY DEF TypeOK, WorkTypeOK, AckWaitEnds, Rest
<1> QED BY <1>1, <1>2, <1>3, QueueStepType DEF AckWaitEnds

\* What a handler leaves alone, and where it goes.
LEMMA HandlerType ==
    ASSUME TypeOK, NEW w \in Worker, pc[w] \in Busy, NEW l \in Busy, Go(w, l),
           row' \in [Run -> SUBSET Facts], recent' \in [Service -> Run \cup {NoRun}],
           streams' \subseteq Run, stored' \in [Run -> Seq(Places)],
           replaced' \subseteq Run, harmed' \subseteq Run, faults' \in Nat, crashes' \in Nat
    PROVE  TypeOK'
<1>1. nefario # "down"
  BY DEF TypeOK, Busy
<1> QED BY <1>1 DEF TypeOK, Go, queue, Busy

LEMMA HarmType ==
    ASSUME TypeOK, NEW r \in Run, Harm({r}) \/ UNCHANGED harmed
    PROVE  harmed' \subseteq Run
BY DEF TypeOK, Harm

LEMMA PointToType ==
    ASSUME TypeOK, NEW r \in Run, PointTo(r) \/ UNCHANGED <<recent, replaced>>
    PROVE  recent' \in [Service -> Run \cup {NoRun}] /\ replaced' \subseteq Run
<1> DEFINE s == ServiceOf[r]
<1>1. CASE s \in Service /\ PointTo(r)
  <2>1. recent[s] \in Run \cup {NoRun}
    BY <1>1 DEF TypeOK
  <2>2. {recent[s]} \ {NoRun, r} \subseteq Run
    BY <2>1
  <2> QED BY <1>1, <2>2 DEF TypeOK, PointTo
<1>2. CASE UNCHANGED <<recent, replaced>>
  BY <1>2 DEF TypeOK
<1> QED BY <1>1, <1>2 DEF PointTo

LEMMA InsertStartDtoType ==
    ASSUME TypeOK, NEW w \in Worker, InsertStartDto(w)
    PROVE  TypeOK'
<1>1. pc[w] \in Busy /\ InHand(w) \in Run
  BY InHandType DEF InsertStartDto, Handles, Busy
<1>2. faults' \in Nat /\ crashes' \in Nat
  BY FaultsType DEF InsertStartDto
<1>3. harmed' \subseteq Run
  BY <1>1, HarmType DEF InsertStartDto
<1>4. row' \in [Run -> SUBSET Facts]
  <2>1. row' \in {row, [row EXCEPT ![InHand(w)] = {"started"}]}
    BY DEF InsertStartDto
  <2>2. row \in [Run -> SUBSET Facts]
    BY DEF TypeOK
  <2>3. {"started"} \in SUBSET Facts
    BY DEF Facts
  <2> HIDE DEF Facts
  <2> QED BY <1>1, <2>1, <2>2, <2>3
<1>5. PICK l \in Busy : Go(w, l)
  BY DEF InsertStartDto, Busy
<1> QED BY <1>1, <1>2, <1>3, <1>4, <1>5, HandlerType DEF InsertStartDto, TypeOK, central

LEMMA UpdateServiceType ==
    ASSUME TypeOK, NEW w \in Worker, UpdateService(w)
    PROVE  TypeOK'
<1>1. pc[w] \in Busy /\ InHand(w) \in Run
  BY InHandType DEF UpdateService, Busy
<1>2. faults' \in Nat /\ crashes' \in Nat
  BY FaultsType DEF UpdateService
<1>3. harmed' \subseteq Run
  BY <1>1, HarmType DEF UpdateService
<1>4. recent' \in [Service -> Run \cup {NoRun}] /\ replaced' \subseteq Run
  BY <1>1, PointToType DEF UpdateService
<1>5. PICK l \in Busy : Go(w, l)
  BY DEF UpdateService, Busy
<1> QED BY <1>1, <1>2, <1>3, <1>4, <1>5, HandlerType DEF UpdateService, TypeOK, central

LEMMA AddStreamType ==
    ASSUME TypeOK, NEW w \in Worker, AddStream(w)
    PROVE  TypeOK'
<1>1. pc[w] \in Busy /\ InHand(w) \in Run
  BY InHandType DEF AddStream, Busy
<1>2. faults' \in Nat /\ crashes' \in Nat
  BY FaultsType DEF AddStream
<1>3. harmed' \subseteq Run
  BY <1>1, HarmType DEF AddStream
<1>4. streams' \subseteq Run
  BY <1>1 DEF AddStream, Created, TypeOK
<1>5. Go(w, "ack") /\ "ack" \in Busy
  BY DEF AddStream, Busy
<1> QED BY <1>1, <1>2, <1>3, <1>4, <1>5, HandlerType DEF AddStream, TypeOK, tables

LEMMA UpdateRowType ==
    ASSUME TypeOK, NEW w \in Worker, NEW k \in {"ping", "mailbox", "completed"}, UpdateRow(w, k)
    PROVE  TypeOK'
<1>1. pc[w] \in Busy /\ InHand(w) \in Run
  BY InHandType DEF UpdateRow, Handles, Busy
<1>2. faults' \in Nat /\ crashes' \in Nat
  BY FaultsType DEF UpdateRow
<1>3. harmed' \subseteq Run
  BY <1>1, HarmType DEF UpdateRow
<1>4. row' \in [Run -> SUBSET Facts]
  BY <1>1 DEF UpdateRow, Learn, TypeOK, Facts
<1>5. Go(w, "ack") /\ "ack" \in Busy
  BY DEF UpdateRow, Busy
<1> QED BY <1>1, <1>2, <1>3, <1>4, <1>5, HandlerType DEF UpdateRow, TypeOK, central

LEMMA StreamWriteType ==
    ASSUME TypeOK, NEW w \in Worker, StreamWrite(w)
    PROVE  TypeOK'
<1>1. pc[w] \in Busy /\ InHand(w) \in Run /\ hand[w] \in Places
  BY InHandType DEF StreamWrite, Handles, Busy
<1>2. faults' \in Nat /\ crashes' \in Nat
  BY FaultsType DEF StreamWrite
<1>3. harmed' \subseteq Run
  BY <1>1, HarmType DEF StreamWrite
<1>4. Append(stored[InHand(w)], hand[w]) \in Seq(Places)
  BY <1>1, AppendProperties DEF TypeOK
<1>5. stored' \in [Run -> Seq(Places)]
  BY <1>1, <1>4 DEF StreamWrite, TypeOK
<1>6. Go(w, "ack") /\ "ack" \in Busy
  BY DEF StreamWrite, Busy
<1> QED BY <1>1, <1>2, <1>3, <1>5, <1>6, HandlerType DEF StreamWrite, TypeOK, tables

LEMMA StutterType ==
    ASSUME TypeOK, UNCHANGED vars
    PROVE  TypeOK'
BY DEF TypeOK, vars, queue, tables, central, bounds, Facts

LEMMA TypeStep ==
    ASSUME TypeOK, [Next]_vars
    PROVE  TypeOK'
<1>1. ASSUME NEW r \in Run, Minion(r) PROVE TypeOK'
  BY <1>1, MinionType
<1>2. CASE Start \/ Crash
  BY <1>2, ProcessType
<1>3. ASSUME NEW w \in Worker, Consumer(w) \/ FetchFails(w) PROVE TypeOK'
  <2>1. CASE Handler(w)
    BY <2>1, InsertStartDtoType, UpdateServiceType, AddStreamType, UpdateRowType, StreamWriteType
       DEF Handler
  <2> QED BY <1>3, <2>1, ConnectType, FetchType, AckType DEF Consumer
<1>4. ASSUME NEW i \in Places, AckWaitEnds(i) PROVE TypeOK'
  BY <1>4, AckWaitEndsType
<1>5. CASE UNCHANGED vars
  BY <1>5, StutterType
<1> QED BY <1>1, <1>2, <1>3, <1>4, <1>5 DEF Next

\* The type invariant of NefarioCentral: in particular what waits for its
\* acknowledgement was delivered, and only a busy worker has a message.
THEOREM TypeCorrect == Spec => []TypeOK
<1> QED BY TypeInit, TypeStep, PTL DEF Spec
-----------------------------------------------------------------------------
(* A run that was replaced never comes back *)

\* The database has made r the most recent run of its service, now or before.
Pointed(r) == r \in replaced \/ \E s \in Service : recent[s] = r

\* Only the worker that has inserted a run points its service to it, and it has not yet.
UpdatesOnce ==
    /\ \A w \in Worker : pc[w] = "update" => row[InHand(w)] # {} /\ ~ Pointed(InHand(w))
    /\ \A v, w \in Worker : pc[v] = "update" /\ pc[w] = "update" /\ v # w => InHand(v) # InHand(w)

PointedOK ==
    /\ \A r \in Run : Pointed(r) => row[r] # {}
    /\ \A s \in Service : recent[s] # NoRun => ServiceOf[recent[s]] = s

PointInv == TypeOK /\ UpdatesOnce /\ PointedOK /\ NeverBack

LEMMA PointInit == Init => PointInv
<1> SUFFICES ASSUME Init PROVE PointInv
  OBVIOUS
<1>1. TypeOK
  BY TypeInit
<1>2. UpdatesOnce
  BY DEF Init, UpdatesOnce
<1>3. PointedOK
  BY CentralAssumption DEF Init, PointedOK, Pointed
<1> QED BY <1>1, <1>2, <1>3 DEF Init, PointInv, NeverBack

\* A step that points no service elsewhere and starts no update.
LEMMA PointQuiet ==
    ASSUME PointInv, TypeOK', UNCHANGED <<recent, replaced>>,
           \A r \in Run : row[r] # {} => row'[r] # {},
           \A w \in Worker : pc'[w] = "update" => pc[w] = "update" /\ InHand(w)' = InHand(w)
    PROVE  PointInv'
<1>1. \A r : Pointed(r)' <=> Pointed(r)
  BY DEF Pointed
<1>2. \A w \in Worker : pc[w] = "update" => InHand(w) \in Run
  BY InHandType DEF PointInv, Busy
<1>3. UpdatesOnce'
  BY <1>1, <1>2 DEF PointInv, UpdatesOnce
<1>4. PointedOK'
  BY <1>1 DEF PointInv, PointedOK
<1> QED BY <1>3, <1>4 DEF PointInv, NeverBack

\* What a worker has in its hand stays where it is when the minions publish.
LEMMA InHandStays ==
    ASSUME TypeOK, NEW m \in Message, Publish(m), NEW w \in Worker, pc[w] \in Busy
    PROVE  InHand(w)' = InHand(w)
<1>1. hand[w] \in 1..Len(sent)
  BY InHandType
<1>2. sent \in Seq(Message)
  BY DEF TypeOK
<1> QED BY <1>1, <1>2, AppendProperties DEF Publish, InHand

LEMMA PointMinion ==
    ASSUME PointInv, TypeOK', NEW r \in Run, Minion(r)
    PROVE  PointInv'
<1>1. PICK m \in Message : Publish(m)
  BY DEF Minion, SendStart, SendCompleted, SendMore, Message
<1>2. \A w \in Worker : pc'[w] = "update" => pc[w] = "update" /\ InHand(w)' = InHand(w)
  BY <1>1, InHandStays DEF PointInv, Publish, Busy
<1> QED BY <1>1, <1>2, PointQuiet DEF Publish, tables

\* A step that leaves the tables and the messages alone, and gives no worker an update.
LEMMA PointElsewhere ==
    ASSUME PointInv, TypeOK', UNCHANGED <<row, recent, replaced, sent>>,
           \A v \in Worker : pc'[v] = "update" => pc[v] = "update" /\ hand'[v] = hand[v]
    PROVE  PointInv'
BY PointQuiet DEF InHand

\* The steps of nefario as a process, and of the timers.
LEMMA PointProcess ==
    ASSUME PointInv, TypeOK', Start \/ Crash \/ UNCHANGED vars \/ \E i \in Places : AckWaitEnds(i)
    PROVE  PointInv'
<1>1. UNCHANGED <<row, recent, replaced, sent>>
  BY DEF Start, Crash, AckWaitEnds, Rest, vars, queue, tables
<1>2. \A v \in Worker : pc'[v] = "update" => pc[v] = "update" /\ hand'[v] = hand[v]
  BY DEF PointInv, TypeOK, Start, Crash, AckWaitEnds, vars
<1> QED BY <1>1, <1>2, PointElsewhere

\* The steps of a worker that are not its handler's.
LEMMA PointQueue ==
    ASSUME PointInv, TypeOK', NEW w \in Worker, Connect(w) \/ FetchFails(w) \/ Fetch(w) \/ Ack(w)
    PROVE  PointInv'
<1>1. UNCHANGED <<row, recent, replaced, sent>>
  BY DEF Connect, FetchFails, Fetch, Ack, Rest, tables
<1>2. ASSUME NEW v \in Worker, pc'[v] = "update"
      PROVE  pc[v] = "update" /\ hand'[v] = hand[v]
  <2>1. CASE Connect(w) \/ FetchFails(w)
    BY <1>2, <2>1 DEF PointInv, TypeOK, Connect, FetchFails
  <2>2. CASE Fetch(w)
    <3>1. PICK j \in Places : hand' = [hand EXCEPT ![w] = j]
      BY <2>2 DEF Fetch
    <3> QED BY <1>2, <2>2, <3>1 DEF PointInv, TypeOK, Fetch
  <2>3. CASE Ack(w)
    BY <1>2, <2>3 DEF PointInv, TypeOK, Ack
  <2> QED BY <2>1, <2>2, <2>3
<1> QED BY <1>1, <1>2, PointElsewhere

\* A handler that starts no update.
LEMMA PointHandler ==
    ASSUME PointInv, TypeOK', NEW w \in Worker, Go(w, "ack") \/ Go(w, "addStream"),
           UNCHANGED <<recent, replaced>>, \A r \in Run : row[r] # {} => row'[r] # {}
    PROVE  PointInv'
<1>1. \A v \in Worker : pc'[v] = "update" => pc[v] = "update" /\ InHand(v)' = InHand(v)
  BY DEF PointInv, TypeOK, Go, queue, InHand
<1> QED BY <1>1, PointQuiet

LEMMA PointInsert ==
    ASSUME PointInv, TypeOK', NEW w \in Worker, InsertStartDto(w)
    PROVE  PointInv'
<1> DEFINE r == InHand(w)
<1>1. r \in Run
  BY InHandType DEF PointInv, InsertStartDto, Handles, Busy
<1>2. \A q \in Run : row[q] # {} => row'[q] # {}
  <2>1. row' \in {row, [row EXCEPT ![r] = {"started"}]}
    BY DEF InsertStartDto
  <2>2. row \in [Run -> SUBSET Facts]
    BY DEF PointInv, TypeOK
  <2> QED BY <1>1, <2>1, <2>2
<1>3. CASE Go(w, "ack")
  BY <1>2, <1>3, PointHandler DEF InsertStartDto
<1>4. CASE row[r] = {} /\ row' = [row EXCEPT ![r] = {"started"}] /\ Go(w, "update")
  <2>1. \A q : Pointed(q)' <=> Pointed(q)
    BY DEF InsertStartDto, Pointed
  <2>2. row'[r] # {} /\ ~ Pointed(r)
    BY <1>1, <1>4 DEF PointInv, TypeOK, PointedOK
  <2>3. \A v \in Worker : InHand(v)' = InHand(v) /\ (pc'[v] = "update" => v = w \/ pc[v] = "update")
    BY <1>4 DEF PointInv, TypeOK, Go, queue, InHand
  <2>4. \A v \in Worker : pc[v] = "update" => InHand(v) # r /\ InHand(v) \in Run
    BY <1>4, InHandType DEF PointInv, UpdatesOnce, Busy
  <2>5. UpdatesOnce'
    BY <1>2, <2>1, <2>2, <2>3, <2>4 DEF PointInv, UpdatesOnce
  <2>6. PointedOK'
    BY <1>2, <2>1 DEF PointInv, PointedOK, InsertStartDto
  <2> QED BY <2>5, <2>6 DEF PointInv, NeverBack, InsertStartDto
<1> QED BY <1>3, <1>4 DEF InsertStartDto

LEMMA PointUpdate ==
    ASSUME PointInv, TypeOK', NEW w \in Worker, UpdateService(w)
    PROVE  PointInv'
<1> DEFINE r == InHand(w)
           s == ServiceOf[r]
<1>1. r \in Run /\ ~ Pointed(r) /\ row[r] # {} /\ pc[w] = "update"
  BY InHandType DEF PointInv, UpdatesOnce, UpdateService, Busy
<1>2. Go(w, "ack") \/ Go(w, "addStream")
  BY DEF UpdateService
<1>3. CASE UNCHANGED <<recent, replaced>>
  BY <1>2, <1>3, PointHandler DEF UpdateService
<1>4. CASE PointTo(r) /\ s \in Service
  <2>1. recent' = [recent EXCEPT ![s] = r] /\ replaced' = replaced \cup ({recent[s]} \ {NoRun, r})
    BY <1>4 DEF PointTo
  <2>2. \A q \in Run : Pointed(q)' => Pointed(q) \/ q = r
    BY <1>4, <2>1 DEF PointInv, TypeOK, Pointed
  <2>3. \A v \in Worker : InHand(v)' = InHand(v) /\ (pc'[v] = "update" => v # w /\ pc[v] = "update")
    BY <1>2 DEF PointInv, TypeOK, Go, queue, InHand
  <2>4. \A v \in Worker : pc[v] = "update" => InHand(v) \in Run
    BY InHandType DEF PointInv, Busy
  <2>5. UpdatesOnce'
    BY <1>1, <2>2, <2>3, <2>4 DEF PointInv, UpdatesOnce, UpdateService
  <2>6. \A t \in Service : recent'[t] # NoRun => ServiceOf[recent'[t]] = t
    BY <1>4, <2>1 DEF PointInv, TypeOK, PointedOK
  <2>7. PointedOK'
    BY <1>1, <2>2, <2>6 DEF PointInv, PointedOK, UpdateService
  <2>8. ASSUME NEW t \in Service PROVE recent'[t] \notin replaced'
    <3>1. CASE t = s
      BY <1>1, <1>4, <2>1, <3>1 DEF PointInv, TypeOK, Pointed
    <3>2. CASE t # s
      <4>1. recent'[t] = recent[t] /\ recent[t] \notin replaced
        BY <2>1, <3>2 DEF PointInv, TypeOK, NeverBack
      <4>2. recent[t] = recent[s] => recent[s] = NoRun
        BY <1>4, <3>2 DEF PointInv, PointedOK
      <4> QED BY <2>1, <4>1, <4>2
    <3> QED BY <3>1, <3>2
  <2> QED BY <2>5, <2>7, <2>8 DEF PointInv, NeverBack
<1>5. CASE PointTo(r) /\ s \notin Service
  BY <1>3, <1>5 DEF PointTo
<1> QED BY <1>3, <1>4, <1>5 DEF UpdateService

LEMMA PointStep ==
    ASSUME PointInv, [Next]_vars
    PROVE  PointInv'
<1>1. TypeOK'
  BY TypeStep DEF PointInv
<1>2. ASSUME NEW r \in Run, Minion(r) PROVE PointInv'
  BY <1>1, <1>2, PointMinion
<1>3. CASE Start \/ Crash \/ UNCHANGED vars \/ \E i \in Places : AckWaitEnds(i)
  BY <1>1, <1>3, PointProcess
<1>4. ASSUME NEW w \in Worker, Consumer(w) \/ FetchFails(w) PROVE PointInv'
  <2>1. CASE AddStream(w)
    BY <1>1, <2>1, PointHandler DEF AddStream, tables
  <2>2. ASSUME NEW k \in {"ping", "mailbox", "completed"}, UpdateRow(w, k) PROVE PointInv'
    <3>1. \A q \in Run : row[q] # {} => row'[q] # {}
      BY <2>2 DEF UpdateRow, Learn, PointInv, TypeOK
    <3> QED BY <1>1, <2>2, <3>1, PointHandler DEF UpdateRow
  <2>3. CASE StreamWrite(w)
    BY <1>1, <2>3, PointHandler DEF StreamWrite, tables
  <2>4. CASE Connect(w) \/ FetchFails(w) \/ Fetch(w) \/ Ack(w)
    BY <1>1, <2>4, PointQueue
  <2> QED BY <1>1, <1>4, <2>1, <2>2, <2>3, <2>4, PointInsert, PointUpdate DEF Consumer, Handler
<1> QED BY <1>2, <1>3, <1>4 DEF Next

\* Once a run is replaced as the most recent of its service it never is again, for any
\* number of consumers, redeliveries, failures and deaths of nefario.
THEOREM NoRunReturns == Spec => []NeverBack
<1>1. PointInv => NeverBack
  BY DEF PointInv
<1> QED BY <1>1, PointInit, PointStep, PTL DEF Spec
-----------------------------------------------------------------------------
(* Nothing known of a run is taken back *)

Known == \A r \in Run : row[r] \subseteq row'[r]

LEMMA KnowledgeGrows ==
    ASSUME TypeOK, [Next]_vars
    PROVE  Known /\ streams \subseteq streams'
<1>t. row \in [Run -> SUBSET Facts]
  BY DEF TypeOK
<1>1. CASE UNCHANGED <<row, streams>>
  BY <1>1 DEF Known
<1>2. ASSUME NEW w \in Worker, InsertStartDto(w) PROVE Known /\ streams \subseteq streams'
  <2>1. row' \in {row, [row EXCEPT ![InHand(w)] = {"started"}]}
    BY <1>2 DEF InsertStartDto
  <2>2. row[InHand(w)] # {} => row' = row
    BY <1>2 DEF InsertStartDto
  <2>3. Known
    BY <1>t, <2>1, <2>2 DEF Known
  <2> QED BY <1>2, <2>3 DEF InsertStartDto, central
<1>3. ASSUME NEW w \in Worker, NEW k \in {"ping", "mailbox", "completed"}, UpdateRow(w, k)
      PROVE  Known /\ streams \subseteq streams'
  BY <1>3, <1>t DEF Known, UpdateRow, Learn, central
<1>4. ASSUME NEW w \in Worker, UpdateService(w) \/ AddStream(w) \/ StreamWrite(w)
      PROVE  Known /\ streams \subseteq streams'
  BY <1>4 DEF Known, UpdateService, AddStream, Created, StreamWrite, tables, central
<1>5. ASSUME NEW w \in Worker, Connect(w) \/ FetchFails(w) \/ Fetch(w) \/ Ack(w)
      PROVE  UNCHANGED <<row, streams>>
  BY <1>5 DEF Connect, FetchFails, Fetch, Ack, Rest, tables, central
<1>6. ASSUME Start \/ Crash \/ UNCHANGED vars \/ \E i \in Places : AckWaitEnds(i)
      PROVE  UNCHANGED <<row, streams>>
  BY <1>6 DEF Start, Crash, AckWaitEnds, Rest, vars, tables, central
<1>7. ASSUME NEW r \in Run, Minion(r) PROVE UNCHANGED <<row, streams>>
  BY <1>7 DEF Minion, SendStart, SendCompleted, SendMore, Publish, tables, central
<1> QED BY <1>1, <1>2, <1>3, <1>4, <1>5, <1>6, <1>7 DEF Next, Consumer, Handler

\* What the database knows of a run, and the streams made for it, stay whatever is
\* delivered again and however a handler ends.
THEOREM NothingForgotten == Spec => KnowledgeStays
<1>1. TypeOK /\ [Next]_vars => [/\ \A r \in Run : row[r] \subseteq row'[r]
                                /\ streams \subseteq streams']_vars
  BY KnowledgeGrows DEF Known
<1> QED BY <1>1, TypeCorrect, PTL DEF Spec, KnowledgeStays
-----------------------------------------------------------------------------
(* With one worker, what is gone from the stream took effect *)

OneWorker == \A v, w \in Worker : v = w

Working == {"handle", "update", "addStream"}

\* A message that is gone is not delivered again and is in no hand.
OffQueue ==
    /\ acked \cap (due \cup unacked) = {}
    /\ \A w \in Worker : hand[w] \notin acked

StartedIn(r, n) == \E j \in 1..n : sent[j] = [kind |-> "start", run |-> r]

\* Of a run that lost nothing, the start is the first message, and only a service writes.
StartFirst ==
    /\ \A r \in Run : life[r] # "none" /\ r \notin harmed => StartedIn(r, Len(sent))
    /\ \A i \in 1..Len(sent) : sent[i].run \notin harmed => StartedIn(sent[i].run, i)
    /\ \A i \in 1..Len(sent) : sent[i].kind = "write" => ServiceOf[sent[i].run] \in Service

Ready(r) == ServiceOf[r] \in Service => r \in replaced \cup {recent[ServiceOf[r]]}

Linked(r) == ServiceOf[r] \in Service => r \in streams

\* A run with a row is pointed to and has its stream, or the worker is about to see to it.
RowsDone ==
    /\ \A r \in Run : row[r] # {} /\ r \notin harmed =>
         \/ Ready(r) /\ Linked(r)
         \/ \E w \in Worker : pc[w] \in {"update", "addStream"} /\ InHand(w) = r
    /\ \A w \in Worker : pc[w] \in {"update", "addStream"} =>
         row[InHand(w)] # {} /\ sent[hand[w]].kind = "start"
    /\ \A w \in Worker : pc[w] = "addStream" => Ready(InHand(w))

\* Every message that was delivered took effect, acknowledged or not, unless it is being
\* handled.
Effects ==
    \A i \in 1..next - 1 : sent[i].run \notin harmed =>
        \/ TookEffect(i)
        \/ \E w \in Worker : pc[w] \in Working /\ hand[w] = i

EffectInv == TypeOK /\ OffQueue /\ StartFirst /\ RowsDone /\ Effects

LEMMA EffectInit == Init => EffectInv
<1> SUFFICES ASSUME Init PROVE EffectInv
  OBVIOUS
<1>1. TypeOK
  BY TypeInit
<1>2. OffQueue /\ RowsDone
  BY DEF Init, OffQueue, RowsDone
<1>3. Len(sent) = 0 /\ next - 1 = 0
  BY EmptySeq DEF Init
<1>4. StartFirst /\ Effects
  BY <1>3 DEF Init, StartFirst, Effects
<1> QED BY <1>1, <1>2, <1>4 DEF EffectInv

LEMMA EffectAnswers ==
    ASSUME EffectInv
    PROVE  AckedTookEffect
<1>1. SUFFICES ASSUME NEW i \in acked, sent[i].run \notin harmed PROVE TookEffect(i)
  BY DEF AckedTookEffect
<1>2. i \in 1..next - 1 /\ \A w \in Worker : hand[w] # i
  BY DEF EffectInv, TypeOK, OffQueue
<1> QED BY <1>1, <1>2 DEF EffectInv, Effects

\* The messages of the stream stay where they are.
SentStays ==
    /\ Len(sent) \in Nat /\ Len(sent') \in Nat /\ Len(sent) <= Len(sent')
    /\ \A i \in 1..Len(sent) : sent'[i] = sent[i]

LEMMA PublishStays ==
    ASSUME TypeOK, NEW m \in Message, Publish(m)
    PROVE  /\ SentStays
           /\ \/ sent' = sent /\ m.run \in harmed'
              \/ Len(sent') = Len(sent) + 1 /\ sent'[Len(sent')] = m /\ UNCHANGED harmed
           /\ harmed \subseteq harmed'
<1>1. sent \in Seq(Message) /\ Len(sent) \in Nat
  BY LenProperties DEF TypeOK
<1>2. CASE sent' = Append(sent, m) /\ UNCHANGED harmed
  BY <1>1, <1>2, AppendProperties DEF SentStays
<1>3. CASE sent' = sent /\ Harm({m.run})
  BY <1>1, <1>3 DEF SentStays, Harm
<1> QED BY <1>2, <1>3 DEF Publish

LEMMA StartFirstSend ==
    ASSUME TypeOK, StartFirst, NEW m \in Message, Publish(m),
           m.kind = "start" \/ life[m.run] # "none",
           m.kind = "write" => ServiceOf[m.run] \in Service,
           \A r \in Run : life'[r] # "none" => life[r] # "none" \/ r = m.run
    PROVE  StartFirst'
<1>1. /\ SentStays /\ harmed \subseteq harmed'
      /\ \/ sent' = sent /\ m.run \in harmed'
         \/ Len(sent') = Len(sent) + 1 /\ sent'[Len(sent')] = m /\ UNCHANGED harmed
  BY PublishStays
<1>2. m.run \in Run /\ m = [kind |-> m.kind, run |-> m.run]
  BY DEF Message
<1>3. ASSUME NEW r, NEW n \in 0..Len(sent), StartedIn(r, n)
      PROVE  \A l \in n..Len(sent') : \E j \in 1..l : sent'[j] = [kind |-> "start", run |-> r]
  BY <1>1, <1>3 DEF SentStays, StartedIn
<1>4. m.run \notin harmed'
         => \E j \in 1..Len(sent') : sent'[j] = [kind |-> "start", run |-> m.run]
  <2>1. SUFFICES ASSUME m.run \notin harmed'
                 PROVE  \E j \in 1..Len(sent') : sent'[j] = [kind |-> "start", run |-> m.run]
    OBVIOUS
  <2>2. Len(sent') = Len(sent) + 1 /\ sent'[Len(sent')] = m /\ UNCHANGED harmed
    BY <1>1, <2>1
  <2>3. CASE m.kind = "start"
    BY <1>1, <1>2, <2>2, <2>3 DEF SentStays
  <2>4. CASE life[m.run] # "none"
    <3>1. StartedIn(m.run, Len(sent))
      BY <1>2, <2>1, <2>2, <2>4 DEF StartFirst
    <3> QED BY <1>1, <1>3, <3>1 DEF SentStays
  <2> QED BY <2>3, <2>4
<1>5. ASSUME NEW r \in Run, life'[r] # "none", r \notin harmed'
      PROVE  \E j \in 1..Len(sent') : sent'[j] = [kind |-> "start", run |-> r]
  <2>1. CASE r = m.run
    BY <1>4, <1>5, <2>1
  <2>2. CASE life[r] # "none"
    <3>1. StartedIn(r, Len(sent))
      BY <1>1, <1>5, <2>2 DEF StartFirst
    <3> QED BY <1>1, <1>3, <3>1 DEF SentStays
  <2> QED BY <1>5, <2>1, <2>2
<1>6. ASSUME NEW i \in 1..Len(sent'), sent'[i].run \notin harmed'
      PROVE  \E j \in 1..i : sent'[j] = [kind |-> "start", run |-> sent'[i].run]
  <2>1. CASE i \in 1..Len(sent)
    <3>1. sent'[i] = sent[i] /\ sent[i].run \notin harmed
      BY <1>1, <1>6, <2>1 DEF SentStays
    <3>2. StartedIn(sent[i].run, i)
      BY <2>1, <3>1 DEF StartFirst
    <3> QED BY <1>1, <1>3, <2>1, <3>1, <3>2 DEF SentStays
  <2>2. CASE i \notin 1..Len(sent)
    <3>1. i = Len(sent') /\ sent'[i] = m
      BY <1>1, <2>2 DEF SentStays
    <3> QED BY <1>4, <1>6, <3>1
  <2> QED BY <2>1, <2>2
<1>7. ASSUME NEW i \in 1..Len(sent'), sent'[i].kind = "write"
      PROVE  ServiceOf[sent'[i].run] \in Service
  <2>1. CASE i \in 1..Len(sent)
    BY <1>1, <1>7, <2>1 DEF SentStays, StartFirst
  <2>2. CASE i \notin 1..Len(sent)
    BY <1>1, <1>7, <2>2 DEF SentStays
  <2> QED BY <2>1, <2>2
<1> QED BY <1>5, <1>6, <1>7 DEF StartFirst, StartedIn

\* A step that sends nothing.
LEMMA StartFirstQuiet ==
    ASSUME StartFirst, UNCHANGED <<life, sent>>, harmed \subseteq harmed'
    PROVE  StartFirst'
BY DEF StartFirst, StartedIn

LEMMA StartFirstMinion ==
    ASSUME TypeOK, StartFirst, NEW r \in Run, Minion(r)
    PROVE  StartFirst'
<1>1. CASE SendStart(r)
  BY <1>1, StartFirstSend DEF SendStart, Message, TypeOK
<1>2. CASE SendCompleted(r)
  BY <1>2, StartFirstSend DEF SendCompleted, Message, TypeOK
<1>3. ASSUME NEW k \in {"ping", "mailbox", "write"}, SendMore(r, k) PROVE StartFirst'
  <2>1. k = "write" => ServiceOf[r] \in Service
    BY <1>3, CentralAssumption DEF SendMore
  <2> QED BY <1>3, <2>1, StartFirstSend DEF SendMore, Message
<1> QED BY <1>1, <1>2, <1>3 DEF Minion

\* What a step may not undo of what the messages did.
Grows ==
    /\ SentStays
    /\ Known /\ streams \subseteq streams' /\ harmed \subseteq harmed'
    /\ \A r \in Run : Ready(r) => Ready(r)'
    /\ \A r \in Run : /\ Len(stored[r]) <= Len(stored'[r])
                      /\ \A j \in 1..Len(stored[r]) : stored'[r][j] = stored[r][j]

LEMMA EffectStays ==
    ASSUME TypeOK, TypeOK', Grows, NEW i \in 1..Len(sent), TookEffect(i)
    PROVE  TookEffect(i)'
<1> DEFINE r == sent[i].run
           k == sent[i].kind
<1>0. sent[i] \in Message
  BY ElementOfSeq DEF TypeOK
<1>1. r \in Run /\ sent'[i] = sent[i]
  BY <1>0 DEF Message, Grows, SentStays
<1>2. row[r] \subseteq row'[r] /\ (Ready(r) => Ready(r)') /\ streams \subseteq streams'
  BY <1>1 DEF Grows, Known
<1>3. CASE k = "start"
  BY <1>1, <1>2, <1>3 DEF TookEffect, Ready
<1>4. CASE k = "write"
  <2>1. PICK j \in 1..Len(stored[r]) : stored[r][j] = i
    BY <1>4 DEF TookEffect, Stored
  <2>2. stored'[r][j] = i /\ Len(stored[r]) <= Len(stored'[r])
    BY <1>1, <2>1 DEF Grows
  <2>3. Len(stored[r]) \in Nat /\ Len(stored'[r]) \in Nat
    BY <1>1, LenProperties DEF TypeOK
  <2>4. j \in 1..Len(stored'[r])
    BY <2>2, <2>3
  <2> QED BY <1>1, <1>4, <2>2, <2>4 DEF TookEffect, Stored
<1>5. CASE k # "start" /\ k # "write"
  BY <1>1, <1>2, <1>5 DEF TookEffect
<1> QED BY <1>3, <1>4, <1>5

\* The steps that leave the database and the central server alone.
LEMMA GrowsElsewhere ==
    ASSUME TypeOK, SentStays, harmed \subseteq harmed', UNCHANGED <<tables, central>>
    PROVE  Grows
<1>1. \A r \in Run : Len(stored[r]) \in Nat
  BY LenProperties DEF TypeOK
<1> QED BY <1>1 DEF Grows, Known, Ready, tables, central

LEMMA GrowsPointing ==
    ASSUME TypeOK, NEW q \in Run, PointTo(q), NEW r \in Run, Ready(r)
    PROVE  Ready(r)'
<1>1. CASE ServiceOf[q] \in Service
  <2>1. recent' = [recent EXCEPT ![ServiceOf[q]] = q]
        /\ replaced' = replaced \cup ({recent[ServiceOf[q]]} \ {NoRun, q})
    BY <1>1 DEF PointTo
  <2>2. r # NoRun /\ recent \in [Service -> Run \cup {NoRun}]
    BY CentralAssumption DEF TypeOK
  <2> QED BY <1>1, <2>1, <2>2 DEF Ready
<1>2. CASE ServiceOf[q] \notin Service
  BY <1>2 DEF PointTo, Ready
<1> QED BY <1>1, <1>2

LEMMA GrowsWriting ==
    ASSUME TypeOK, NEW w \in Worker, StreamWrite(w), NEW r \in Run
    PROVE  /\ Len(stored[r]) <= Len(stored'[r])
           /\ \A j \in 1..Len(stored[r]) : stored'[r][j] = stored[r][j]
<1>1. stored[r] \in Seq(Places) /\ Len(stored[r]) \in Nat /\ stored \in [Run -> Seq(Places)]
  BY LenProperties DEF TypeOK
<1>2. hand[w] \in Places /\ InHand(w) \in Run
  BY InHandType DEF StreamWrite, Handles, Busy
<1>3. CASE stored'[r] = stored[r]
  BY <1>1, <1>3
<1>4. CASE stored'[r] = Append(stored[r], hand[w])
  BY <1>1, <1>2, <1>4, AppendProperties
<1> QED BY <1>1, <1>2, <1>3, <1>4 DEF StreamWrite

LEMMA SentStaysUnchanged ==
    ASSUME TypeOK, UNCHANGED sent
    PROVE  SentStays
BY LenProperties DEF TypeOK, SentStays

LEMMA GrowsHandler ==
    ASSUME TypeOK, NEW w \in Worker, Handler(w)
    PROVE  Grows
<1>1. InHand(w) \in Run
  BY InHandType DEF Handler, InsertStartDto, UpdateService, AddStream, UpdateRow, StreamWrite,
     Handles, Busy
<1>2. SentStays
  BY SentStaysUnchanged DEF Handler, InsertStartDto, UpdateService, AddStream, UpdateRow,
     StreamWrite, Go, queue
<1>3. Known /\ streams \subseteq streams'
  BY KnowledgeGrows DEF Next, Consumer
<1>4. harmed \subseteq harmed'
  BY DEF Handler, InsertStartDto, UpdateService, AddStream, UpdateRow, StreamWrite, Harm
<1>5. ASSUME NEW r \in Run, Ready(r) PROVE Ready(r)'
  <2>1. CASE PointTo(InHand(w))
    BY <1>1, <1>5, <2>1, GrowsPointing
  <2>2. CASE UNCHANGED <<recent, replaced>>
    BY <1>5, <2>2 DEF Ready
  <2> QED BY <2>1, <2>2 DEF Handler, InsertStartDto, UpdateService, AddStream, UpdateRow,
     StreamWrite, tables
<1>6. ASSUME NEW r \in Run
      PROVE  /\ Len(stored[r]) <= Len(stored'[r])
             /\ \A j \in 1..Len(stored[r]) : stored'[r][j] = stored[r][j]
  <2>1. CASE StreamWrite(w)
    BY <2>1, GrowsWriting
  <2>2. CASE UNCHANGED stored
    BY <2>2, LenProperties DEF TypeOK
  <2> QED BY <2>1, <2>2 DEF Handler, InsertStartDto, UpdateService, AddStream, UpdateRow, central
<1> QED BY <1>2, <1>3, <1>4, <1>5, <1>6 DEF Grows

LEMMA GrowsStep ==
    ASSUME TypeOK, [Next]_vars
    PROVE  Grows
<1>1. ASSUME NEW r \in Run, Minion(r) PROVE Grows
  <2>1. PICK m \in Message : Publish(m)
    BY <1>1 DEF Minion, SendStart, SendCompleted, SendMore, Message
  <2> QED BY <2>1, PublishStays, GrowsElsewhere DEF Publish
<1>2. CASE Start \/ Crash \/ UNCHANGED vars
  BY <1>2, SentStaysUnchanged, GrowsElsewhere DEF Start, Crash, Harm, vars, queue
<1>3. ASSUME NEW w \in Worker, Connect(w) \/ FetchFails(w) \/ Fetch(w) \/ Ack(w) PROVE Grows
  BY <1>3, SentStaysUnchanged, GrowsElsewhere DEF Connect, FetchFails, Fetch, Ack, Rest
<1>4. ASSUME NEW i \in Places, AckWaitEnds(i) PROVE Grows
  BY <1>4, SentStaysUnchanged, GrowsElsewhere DEF AckWaitEnds, Rest
<1> QED BY <1>1, <1>2, <1>3, <1>4, GrowsHandler DEF Next, Consumer

LEMMA OffQueueStep ==
    ASSUME TypeOK, OffQueue, OneWorker, [Next]_vars
    PROVE  OffQueue'
<1>1. CASE UNCHANGED <<acked, due, unacked, hand>>
  BY <1>1 DEF OffQueue
<1>2. ASSUME NEW w \in Worker, Fetch(w) PROVE OffQueue'
  <2>1. PICK i \in Places :
          /\ i \in due \/ i = next
          /\ due' = due \ {i} /\ unacked' = unacked \cup {i} /\ hand' = [hand EXCEPT ![w] = i]
    BY <1>2 DEF Fetch
  <2>2. next \notin acked
    BY LenProperties DEF TypeOK
  <2>3. i \notin acked
    BY <2>1, <2>2 DEF OffQueue
  <2>4. \A v \in Worker : hand'[v] \in {i, hand[v]}
    BY <2>1 DEF TypeOK
  <2> QED BY <1>2, <2>1, <2>3, <2>4 DEF OffQueue, Fetch
<1>3. ASSUME NEW w \in Worker, Ack(w) PROVE OffQueue'
  <2>1. hand' = [v \in Worker |-> 0]
    BY <1>3 DEF Ack, TypeOK, OneWorker
  <2>2. 0 \notin acked'
    <3>1. hand[w] # 0
      BY <1>3 DEF Ack, TypeOK
    <3> QED BY <1>3, <3>1 DEF Ack, TypeOK
  <2> QED BY <1>3, <2>1, <2>2 DEF OffQueue, Ack
<1>4. ASSUME NEW i \in Places, AckWaitEnds(i) PROVE OffQueue'
  BY <1>4 DEF OffQueue, AckWaitEnds
<1>5. CASE Crash
  <2>1. 0 \notin acked
    BY DEF TypeOK
  <2> QED BY <1>5, <2>1 DEF OffQueue, Crash, queue
<1>6. ASSUME NEW r \in Run, Minion(r) PROVE UNCHANGED <<acked, due, unacked, hand>>
  BY <1>6 DEF Minion, SendStart, SendCompleted, SendMore, Publish
<1>7. ASSUME NEW w \in Worker, Handler(w) PROVE UNCHANGED <<acked, due, unacked, hand>>
  BY <1>7 DEF Handler, InsertStartDto, UpdateService, AddStream, UpdateRow, StreamWrite, Go, queue
<1>8. ASSUME NEW w \in Worker, Connect(w) \/ FetchFails(w)
      PROVE  UNCHANGED <<acked, due, unacked, hand>>
  BY <1>8 DEF Connect, FetchFails
<1>9. ASSUME Start \/ UNCHANGED vars PROVE UNCHANGED <<acked, due, unacked, hand>>
  BY <1>9 DEF Start, vars, queue
<1> QED BY <1>1, <1>2, <1>3, <1>4, <1>5, <1>6, <1>7, <1>8, <1>9 DEF Next, Consumer

\* What a worker has in its hand is the same message after a step that leaves it there.
LEMMA SameMessage ==
    ASSUME TypeOK, SentStays, NEW v \in Worker, pc[v] \in Busy, hand'[v] = hand[v]
    PROVE  InHand(v)' = InHand(v) /\ sent'[hand'[v]] = sent[hand[v]]
BY InHandType DEF InHand, SentStays

\* A step that makes no row, and starts and ends nothing a start still needs.
LEMMA RowsDoneQuiet ==
    ASSUME TypeOK, RowsDone, Grows,
           \A r \in Run : row'[r] # {} => row[r] # {},
           \A v \in Worker : pc'[v] \in {"update", "addStream"} =>
             pc'[v] = pc[v] /\ hand'[v] = hand[v],
           \A v \in Worker : pc[v] \in {"update", "addStream"} =>
             \/ pc'[v] = pc[v] /\ hand'[v] = hand[v]
             \/ InHand(v) \in harmed'
    PROVE  RowsDone'
<1>1. ASSUME NEW v \in Worker, pc'[v] \in {"update", "addStream"}
      PROVE  /\ pc[v] = pc'[v] /\ InHand(v)' = InHand(v) /\ sent'[hand'[v]] = sent[hand[v]]
             /\ InHand(v) \in Run
  BY <1>1, SameMessage, InHandType DEF Busy, Grows
<1>2. ASSUME NEW r \in Run, row'[r] # {}, r \notin harmed'
      PROVE  \/ Ready(r)' /\ Linked(r)'
             \/ \E v \in Worker : pc'[v] \in {"update", "addStream"} /\ InHand(v)' = r
  <2>1. CASE Ready(r) /\ Linked(r)
    BY <2>1 DEF Grows, Linked
  <2>2. CASE \E v \in Worker : pc[v] \in {"update", "addStream"} /\ InHand(v) = r
    BY <1>1, <1>2, <2>2
  <2> QED BY <1>2, <2>1, <2>2 DEF RowsDone, Grows
<1>3. ASSUME NEW v \in Worker, pc'[v] \in {"update", "addStream"}
      PROVE  row'[InHand(v)'] # {} /\ sent'[hand'[v]].kind = "start"
  BY <1>1, <1>3 DEF RowsDone, Grows, Known
<1>4. ASSUME NEW v \in Worker, pc'[v] = "addStream" PROVE Ready(InHand(v))'
  <2>1. PICK r \in Run : r = InHand(v)
    BY <1>1, <1>4
  <2>2. Ready(r)'
    BY <1>1, <1>4, <2>1 DEF RowsDone, Grows
  <2> QED BY <1>1, <1>4, <2>1, <2>2 DEF Ready
<1> QED BY <1>2, <1>3, <1>4 DEF RowsDone

\* A step after which what a worker was handling took effect, or is still in its hand.
LEMMA EffectsKept ==
    ASSUME TypeOK, TypeOK', Effects, Grows,
           \A v \in Worker : pc[v] \in Working =>
             \/ pc'[v] \in Working /\ hand'[v] = hand[v]
             \/ InHand(v) \in harmed'
             \/ \A i \in 1..next - 1 : i = hand[v] => TookEffect(i)',
           \A i \in 1..next' - 1 :
             i \in 1..next - 1 \/ \E w \in Worker : pc'[w] \in Working /\ hand'[w] = i
    PROVE  Effects'
<1>1. SUFFICES ASSUME NEW i \in 1..next' - 1, sent'[i].run \notin harmed'
               PROVE  TookEffect(i)' \/ \E w \in Worker : pc'[w] \in Working /\ hand'[w] = i
  BY DEF Effects
<1>2. CASE i \in 1..next - 1
  <2>1. i \in 1..Len(sent)
    BY <1>2, LenProperties DEF TypeOK
  <2>2. sent'[i] = sent[i] /\ sent[i].run \notin harmed
    BY <1>1, <2>1 DEF Grows, SentStays
  <2>3. CASE TookEffect(i)
    BY <2>1, <2>3, EffectStays
  <2>4. CASE \E w \in Worker : pc[w] \in Working /\ hand[w] = i
    BY <1>1, <1>2, <2>2, <2>4 DEF InHand
  <2> QED BY <1>2, <2>2, <2>3, <2>4 DEF Effects
<1> QED BY <1>1, <1>2

\* A message that is no start finds the row of its run and the stream it needs.
LEMMA StartTook ==
    ASSUME EffectInv, OneWorker, NEW w \in Worker, pc[w] = "handle",
           sent[hand[w]].kind # "start", InHand(w) \notin harmed
    PROVE  row[InHand(w)] # {} /\ Linked(InHand(w))
<1>1. hand[w] \in 1..next - 1 /\ hand[w] \in 1..Len(sent) /\ InHand(w) \in Run
  BY InHandType DEF EffectInv, Busy
<1>2. PICK j \in 1..hand[w] : sent[j] = [kind |-> "start", run |-> InHand(w)]
  BY <1>1 DEF EffectInv, StartFirst, StartedIn, InHand
<1>3. j \in 1..next - 1
  BY <1>1, LenProperties DEF EffectInv, TypeOK
<1>4. j # hand[w]
  BY <1>2
<1>5. \A v \in Worker : hand[v] # j
  BY <1>4 DEF OneWorker
<1>6. TookEffect(j)
  BY <1>2, <1>3, <1>5 DEF EffectInv, Effects
<1> QED BY <1>2, <1>6 DEF TookEffect, Linked

\* Where a worker goes that handles a message, and what it leaves alone.
LEMMA GoesOn ==
    ASSUME TypeOK, OneWorker, NEW w \in Worker, pc[w] \in Busy, NEW l \in Busy, Go(w, l)
    PROVE  /\ sent' = sent /\ next' = next
           /\ \A v \in Worker : v = w /\ pc'[v] = l /\ hand'[v] = hand[v] /\ InHand(v)' = InHand(v)
BY DEF TypeOK, OneWorker, Go, queue, InHand

\* The end of a handler.
LEMMA HandlerEnds ==
    ASSUME EffectInv, TypeOK', OneWorker, Grows, NEW w \in Worker, pc[w] \in Working, Go(w, "ack"),
           \A r \in Run : row'[r] # {} => row[r] # {} \/ r \in harmed',
           InHand(w) \in harmed' \/ \A i \in 1..next - 1 : i = hand[w] => TookEffect(i)',
           \A r \in Run : pc[w] \in {"update", "addStream"} /\ r = InHand(w) /\ r \notin harmed'
             => Ready(r)' /\ Linked(r)'
    PROVE  RowsDone' /\ Effects'
<1>1. /\ sent' = sent /\ next' = next
      /\ \A v \in Worker : v = w /\ pc'[v] = "ack" /\ hand'[v] = hand[v] /\ InHand(v)' = InHand(v)
  BY GoesOn DEF EffectInv, Busy, Working
<1>2. Effects'
  BY <1>1, EffectsKept DEF EffectInv
<1>3. ASSUME NEW r \in Run, row'[r] # {}, r \notin harmed' PROVE Ready(r)' /\ Linked(r)'
  <2>1. CASE Ready(r) /\ Linked(r)
    BY <2>1 DEF Grows, Linked
  <2>2. CASE pc[w] \in {"update", "addStream"} /\ InHand(w) = r
    BY <1>3, <2>2
  <2>3. row[r] # {} /\ r \notin harmed
    BY <1>3 DEF Grows
  <2> QED BY <2>1, <2>2, <2>3, <1>1 DEF EffectInv, RowsDone
<1>4. RowsDone'
  BY <1>1, <1>3 DEF RowsDone
<1> QED BY <1>2, <1>4

LEMMA InsertTakesEffect ==
    ASSUME EffectInv, TypeOK', OneWorker, Grows, NEW w \in Worker, InsertStartDto(w)
    PROVE  RowsDone' /\ Effects'
<1> DEFINE r == InHand(w)
<1>1. /\ pc[w] \in Working /\ pc[w] = "handle" /\ pc[w] \in Busy
      /\ r \in Run /\ hand[w] \in 1..next - 1 /\ sent[hand[w]].kind = "start"
  BY InHandType DEF EffectInv, InsertStartDto, Handles, Busy, Working
<1>2. CASE row[r] = {} /\ row' = [row EXCEPT ![r] = {"started"}] /\ Go(w, "update")
           /\ UNCHANGED harmed
  <2>1. /\ sent' = sent /\ next' = next
        /\ \A v \in Worker :
             v = w /\ pc'[v] = "update" /\ hand'[v] = hand[v] /\ InHand(v)' = InHand(v)
    BY <1>1, <1>2, GoesOn DEF EffectInv, Busy
  <2>2. Effects'
    BY <2>1, EffectsKept DEF EffectInv, Working
  <2>3. ASSUME NEW q \in Run, row'[q] # {}, q \notin harmed'
        PROVE  \/ Ready(q)' /\ Linked(q)'
               \/ \E v \in Worker : pc'[v] \in {"update", "addStream"} /\ InHand(v)' = q
    <3>1. CASE q = r
      BY <2>1, <3>1
    <3>2. CASE q # r
      <4>1. row[q] # {}
        BY <1>2, <2>3, <3>2 DEF EffectInv, TypeOK
      <4>2. Ready(q) /\ Linked(q)
        BY <1>1, <1>2, <2>1, <2>3, <4>1 DEF EffectInv, RowsDone
      <4> QED BY <4>2 DEF Grows, Linked
    <3> QED BY <3>1, <3>2
  <2>4. row'[r] # {}
    BY <1>1, <1>2 DEF EffectInv, TypeOK
  <2>5. RowsDone'
    BY <1>1, <2>1, <2>3, <2>4 DEF RowsDone
  <2> QED BY <2>2, <2>5
<1>3. CASE row[r] # {} /\ UNCHANGED <<row, harmed>> /\ Go(w, "ack")
  <2>1. \A i \in 1..next - 1 : i = hand[w] => TookEffect(i)' \/ r \in harmed'
    <3>1. SUFFICES ASSUME NEW i \in 1..next - 1, i = hand[w], r \notin harmed PROVE TookEffect(i)
      <4>1. \A i \in 1..next - 1 : i \in 1..Len(sent)
        BY LenProperties DEF EffectInv, TypeOK
      <4> QED BY <1>3, <3>1, <4>1, EffectStays DEF EffectInv
    <3>2. Ready(r) /\ Linked(r)
      BY <1>1, <1>3, <3>1 DEF EffectInv, RowsDone, OneWorker
    <3> QED BY <1>1, <1>3, <3>1, <3>2 DEF TookEffect, Ready, Linked, InHand
  <2> QED BY <1>1, <1>3, <2>1, HandlerEnds
<1>4. CASE Harm({r}) /\ Go(w, "ack") /\ row' \in {row, [row EXCEPT ![r] = {"started"}]}
  <2>1. r \in harmed'
    BY <1>4 DEF Harm
  <2>2. \A q \in Run : row'[q] # {} => row[q] # {} \/ q \in harmed'
    BY <1>4, <2>1 DEF EffectInv, TypeOK
  <2> QED BY <1>1, <1>4, <2>1, <2>2, HandlerEnds
<1> QED BY <1>2, <1>3, <1>4 DEF InsertStartDto

LEMMA UpdateTakesEffect ==
    ASSUME EffectInv, TypeOK', OneWorker, Grows, NEW w \in Worker, UpdateService(w)
    PROVE  RowsDone' /\ Effects'
<1> DEFINE r == InHand(w)
<1>1. /\ pc[w] \in Working /\ pc[w] = "update" /\ pc[w] \in Busy
      /\ r \in Run /\ hand[w] \in 1..next - 1
      /\ sent[hand[w]].kind = "start" /\ row[r] # {} /\ row' = row
  BY InHandType DEF EffectInv, UpdateService, RowsDone, Busy, Working
<1>2. CASE Harm({r}) /\ Go(w, "ack")
  <2>1. r \in harmed'
    BY <1>2 DEF Harm
  <2> QED BY <1>1, <1>2, <2>1, HandlerEnds
<1>3. CASE PointTo(r) /\ Go(w, "addStream")
  <2>1. /\ sent' = sent /\ next' = next
        /\ \A v \in Worker :
             v = w /\ pc'[v] = "addStream" /\ hand'[v] = hand[v] /\ InHand(v)' = InHand(v)
    BY <1>1, <1>3, GoesOn DEF EffectInv, Busy
  <2>2. Effects'
    BY <2>1, EffectsKept DEF EffectInv, Working
  <2>3. Ready(r)'
    <3>1. recent \in [Service -> Run \cup {NoRun}]
      BY DEF EffectInv, TypeOK
    <3>2. ServiceOf[r] \in Service => recent'[ServiceOf[r]] = r
      BY <1>3, <3>1 DEF PointTo
    <3> QED BY <2>1, <3>2 DEF Ready
  <2>4. ASSUME NEW q \in Run, row'[q] # {}, q \notin harmed'
        PROVE  \/ Ready(q)' /\ Linked(q)'
               \/ \E v \in Worker : pc'[v] \in {"update", "addStream"} /\ InHand(v)' = q
    <3>1. CASE q = r
      BY <2>1, <3>1
    <3>2. CASE q # r
      <4>1. q \notin harmed
        BY <2>4 DEF Grows
      <4>2. Ready(q) /\ Linked(q)
        BY <1>1, <2>1, <2>4, <3>2, <4>1 DEF EffectInv, RowsDone
      <4> QED BY <4>2 DEF Grows, Linked
    <3> QED BY <3>1, <3>2
  <2>5. RowsDone'
    BY <1>1, <2>1, <2>3, <2>4 DEF RowsDone
  <2> QED BY <2>2, <2>5
<1> QED BY <1>2, <1>3 DEF UpdateService

LEMMA AddStreamTakesEffect ==
    ASSUME EffectInv, TypeOK', OneWorker, Grows, NEW w \in Worker, AddStream(w)
    PROVE  RowsDone' /\ Effects'
<1> DEFINE r == InHand(w)
<1>1. /\ pc[w] \in Working /\ pc[w] \in Busy /\ Go(w, "ack")
      /\ r \in Run /\ hand[w] \in 1..next - 1
      /\ sent[hand[w]].kind = "start" /\ row[r] # {} /\ row' = row /\ Ready(r)
      /\ recent' = recent /\ replaced' = replaced
  BY InHandType DEF EffectInv, AddStream, RowsDone, Busy, Working, tables
<1>2. r \in harmed' \/ r \in streams' \/ ServiceOf[r] \notin Service
  BY DEF AddStream, Created, Harm
<1>3. \A i \in 1..next - 1 : i = hand[w] /\ r \notin harmed' => TookEffect(i)'
  <2>1. sent' = sent
    BY <1>1 DEF Go, queue
  <2> QED BY <1>1, <1>2, <2>1 DEF TookEffect, Ready, InHand
<1>4. \A q \in Run : q = r /\ q \notin harmed' => Ready(q)' /\ Linked(q)'
  BY <1>1, <1>2 DEF Ready, Linked
<1> QED BY <1>1, <1>3, <1>4, HandlerEnds

LEMMA UpdateRowTakesEffect ==
    ASSUME EffectInv, TypeOK', OneWorker, Grows, NEW w \in Worker,
           NEW k \in {"ping", "mailbox", "completed"}, UpdateRow(w, k)
    PROVE  RowsDone' /\ Effects'
<1> DEFINE r == InHand(w)
<1>1. /\ pc[w] \in Working /\ pc[w] = "handle" /\ pc[w] \in Busy /\ Go(w, "ack")
      /\ r \in Run /\ hand[w] \in 1..next - 1 /\ sent[hand[w]].kind = k
  BY InHandType DEF EffectInv, UpdateRow, Handles, Busy, Working
<1>2. row \in [Run -> SUBSET Facts]
  BY DEF EffectInv, TypeOK
<1>3. \A q \in Run : row'[q] # {} => row[q] # {}
  BY <1>1, <1>2 DEF UpdateRow, Learn
<1>4. \A i \in 1..next - 1 : i = hand[w] => TookEffect(i)' \/ r \in harmed'
  <2>1. CASE r \in harmed'
    BY <2>1
  <2>2. CASE r \notin harmed'
    <3>1. row[r] # {}
      BY <1>1, <2>2, StartTook DEF Grows
    <3>2. k \in row'[r]
      BY <1>1, <1>2, <2>2, <3>1 DEF UpdateRow, Learn, Harm
    <3>3. sent' = sent
      BY <1>1 DEF Go, queue
    <3> QED BY <1>1, <3>2, <3>3 DEF TookEffect, InHand
  <2> QED BY <2>1, <2>2
<1> QED BY <1>1, <1>3, <1>4, HandlerEnds

LEMMA WriteTakesEffect ==
    ASSUME EffectInv, TypeOK', OneWorker, Grows, NEW w \in Worker, StreamWrite(w)
    PROVE  RowsDone' /\ Effects'
<1> DEFINE r == InHand(w)
<1>1. /\ pc[w] \in Working /\ pc[w] = "handle" /\ pc[w] \in Busy /\ Go(w, "ack")
      /\ r \in Run /\ hand[w] \in 1..next - 1 /\ hand[w] \in Places /\ hand[w] \in 1..Len(sent)
      /\ sent[hand[w]].kind = "write"
  BY InHandType DEF EffectInv, StreamWrite, Handles, Busy, Working
<1>2. row' = row
  BY DEF StreamWrite, tables
<1>3. \A i \in 1..next - 1 : i = hand[w] => TookEffect(i)' \/ r \in harmed'
  <2>1. CASE r \in harmed'
    BY <2>1
  <2>2. CASE r \notin harmed'
    <3>1. r \in streams
      <4>1. ServiceOf[r] \in Service
        BY <1>1 DEF EffectInv, StartFirst, InHand
      <4>2. Linked(r)
        BY <1>1, <2>2, StartTook DEF Grows
      <4> QED BY <4>1, <4>2 DEF Linked
    <3>2. stored' = [stored EXCEPT ![r] = Append(@, hand[w])]
      BY <2>2, <3>1 DEF StreamWrite, Harm
    <3>3. stored[r] \in Seq(Places) /\ stored \in [Run -> Seq(Places)]
      BY <1>1 DEF EffectInv, TypeOK
    <3>4. stored'[r] = Append(stored[r], hand[w])
      BY <1>1, <3>2, <3>3
    <3>5. Len(stored'[r]) \in Nat /\ Len(stored'[r]) = Len(stored[r]) + 1
          /\ stored'[r][Len(stored'[r])] = hand[w] /\ Len(stored[r]) \in Nat
      BY <1>1, <3>3, <3>4, AppendProperties, LenProperties
    <3>6. \E j \in 1..Len(stored'[r]) : stored'[r][j] = hand[w]
      BY <3>5
    <3>7. sent' = sent
      BY <1>1 DEF Go, queue
    <3> QED BY <1>1, <3>6, <3>7 DEF TookEffect, Stored, InHand
  <2> QED BY <2>1, <2>2
<1> QED BY <1>1, <1>2, <1>3, HandlerEnds

\* The minions, nefario as a process, the timers, and a worker between two messages.
LEMMA ElsewhereTakesEffect ==
    ASSUME EffectInv, TypeOK', Grows, UNCHANGED <<row, next>>,
           \A v \in Worker : pc'[v] \in {"update", "addStream"} =>
             pc'[v] = pc[v] /\ hand'[v] = hand[v],
           \A v \in Worker : pc[v] \in Working =>
             \/ pc'[v] = pc[v] /\ hand'[v] = hand[v]
             \/ InHand(v) \in harmed'
    PROVE  RowsDone' /\ Effects'
<1>1. RowsDone'
  BY RowsDoneQuiet DEF EffectInv, Working
<1>2. Effects'
  BY EffectsKept DEF EffectInv
<1> QED BY <1>1, <1>2

LEMMA FetchTakesEffect ==
    ASSUME EffectInv, TypeOK', Grows, OneWorker, NEW w \in Worker, Fetch(w)
    PROVE  RowsDone' /\ Effects'
<1>1. PICK i \in Places :
        /\ \/ i \in due /\ UNCHANGED next
           \/ i = next /\ next' = next + 1
        /\ hand' = [hand EXCEPT ![w] = i]
  BY DEF Fetch
<1>2. \A v \in Worker : v = w /\ pc[v] = "idle" /\ pc'[v] = "handle" /\ hand'[v] = i
  BY <1>1 DEF EffectInv, TypeOK, OneWorker, Fetch
<1>3. RowsDone'
  BY <1>2, RowsDoneQuiet DEF EffectInv, Fetch, Rest, tables
<1>4. \A j \in 1..next' - 1 : j \in 1..next - 1 \/ j = i
  <2>1. next \in Nat
    BY LenProperties DEF EffectInv, TypeOK
  <2> QED BY <1>1, <2>1
<1>5. Effects'
  BY <1>2, <1>4, EffectsKept DEF EffectInv, Working
<1> QED BY <1>3, <1>5

LEMMA EffectStep ==
    ASSUME EffectInv, OneWorker, [Next]_vars
    PROVE  EffectInv'
<1>1. TypeOK' /\ Grows /\ OffQueue'
  BY TypeStep, GrowsStep, OffQueueStep DEF EffectInv
<1>2. StartFirst'
  <2>1. CASE UNCHANGED <<life, sent>>
    BY <1>1, <2>1, StartFirstQuiet DEF EffectInv, Grows
  <2>2. ASSUME NEW r \in Run, Minion(r) PROVE StartFirst'
    BY <2>2, StartFirstMinion DEF EffectInv
  <2>3. CASE Start \/ Crash \/ UNCHANGED vars \/ \E i \in Places : AckWaitEnds(i)
    BY <2>1, <2>3 DEF Start, Crash, AckWaitEnds, Rest, vars, queue
  <2>4. ASSUME NEW w \in Worker, Handler(w) PROVE StartFirst'
    BY <2>1, <2>4 DEF Handler, InsertStartDto, UpdateService, AddStream, UpdateRow, StreamWrite,
       Go, queue
  <2>5. ASSUME NEW w \in Worker, Connect(w) \/ FetchFails(w) \/ Fetch(w) \/ Ack(w)
        PROVE  StartFirst'
    BY <2>1, <2>5 DEF Connect, FetchFails, Fetch, Ack, Rest
  <2> QED BY <2>2, <2>3, <2>4, <2>5 DEF Next, Consumer
<1>3. RowsDone' /\ Effects'
  <2>1. ASSUME NEW r \in Run, Minion(r) PROVE RowsDone' /\ Effects'
    <3>1. UNCHANGED <<row, next, pc, hand>>
      BY <2>1 DEF Minion, SendStart, SendCompleted, SendMore, Publish, tables
    <3> QED BY <1>1, <3>1, ElsewhereTakesEffect
  <2>2. CASE Start \/ UNCHANGED vars \/ \E i \in Places : AckWaitEnds(i)
    <3>1. UNCHANGED <<row, next, hand>>
      BY <2>2 DEF Start, AckWaitEnds, Rest, vars, queue, tables
    <3>2. \A v \in Worker : pc'[v] = pc[v] \/ (pc[v] = "off" /\ pc'[v] = "connect")
      BY <2>2 DEF Start, AckWaitEnds, Rest, vars, EffectInv, TypeOK
    <3> QED BY <1>1, <3>1, <3>2, ElsewhereTakesEffect DEF Working
  <2>3. CASE Crash
    <3>1. UNCHANGED <<row, next>> /\ \A v \in Worker : pc'[v] = "off"
      BY <2>3 DEF Crash, queue, tables
    <3>2. \A v \in Worker : pc[v] \in Working => InHand(v) \in harmed'
      BY <2>3 DEF Crash, Harm, Working
    <3> QED BY <1>1, <3>1, <3>2, ElsewhereTakesEffect
  <2>4. ASSUME NEW w \in Worker, Connect(w) \/ FetchFails(w) \/ Ack(w)
        PROVE  RowsDone' /\ Effects'
    <3>1. UNCHANGED <<row, next>>
      BY <2>4 DEF Connect, FetchFails, Ack, Rest, tables
    <3>2. \A v \in Worker : v = w /\ pc[v] \in {"connect", "idle", "ack"}
                                  /\ pc'[v] \in {"idle", "ended"}
      BY <2>4 DEF Connect, FetchFails, Ack, EffectInv, TypeOK, OneWorker
    <3> QED BY <1>1, <3>1, <3>2, ElsewhereTakesEffect DEF Working
  <2>5. ASSUME NEW w \in Worker, Handler(w) PROVE RowsDone' /\ Effects'
    BY <1>1, <2>5, InsertTakesEffect, UpdateTakesEffect, AddStreamTakesEffect,
       UpdateRowTakesEffect, WriteTakesEffect DEF Handler
  <2> QED BY <1>1, <2>1, <2>2, <2>3, <2>4, <2>5, FetchTakesEffect DEF Next, Consumer
<1> QED BY <1>1, <1>2, <1>3 DEF EffectInv

\* With one worker on the stream, every message that is gone from it took effect, for any
\* number of runs, services, redeliveries, failed calls and deaths of nefario, but of runs
\* that lost a message, a call or nefario in the middle of a handler.
THEOREM NothingAckedInVain ==
    ASSUME \A v, w \in Worker : v = w
    PROVE  Spec => []AckedTookEffect
<1>1. EffectInv /\ [Next]_vars => EffectInv'
  BY EffectStep DEF OneWorker
<1> QED BY <1>1, EffectInit, EffectAnswers, PTL DEF Spec
=============================================================================
