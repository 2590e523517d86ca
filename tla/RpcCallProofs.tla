---------------------------- MODULE RpcCallProofs ----------------------------
(***************************************************************************)
(* Theorems about RpcCall, for any number of calls, faults and deliveries  *)
(* and for any values of byValue and leaf.                                 *)
(***************************************************************************)
EXTENDS RpcCall, FiniteSetTheorems, FunctionTheorems, SequenceTheorems, TLAPS
-----------------------------------------------------------------------------
(* How often a message is in a queue *)

\* The places of x in s.
PlacesOf(s, x) == {i \in 1..Len(s) : s[i] = x}

Times(s, x) == Cardinality(PlacesOf(s, x))

One(b) == IF b THEN 1 ELSE 0

LEMMA OneType == \A b : One(b) \in 0..1
BY DEF One

LEMMA TimesType ==
    ASSUME NEW S, NEW s \in Seq(S), NEW x
    PROVE  Times(s, x) \in Nat /\ IsFiniteSet(PlacesOf(s, x))
<1>1. IsFiniteSet(1..Len(s))
  BY LenProperties, FS_Interval
<1>2. IsFiniteSet(PlacesOf(s, x))
  BY <1>1, FS_Subset DEF PlacesOf
<1> QED BY <1>2, FS_CardinalityType DEF Times

LEMMA TimesEmpty == \A x : Times(<<>>, x) = 0
<1>1. \A x : PlacesOf(<<>>, x) = {}
  BY EmptySeq DEF PlacesOf
<1> QED BY <1>1, FS_EmptySet DEF Times

LEMMA TimesAppend ==
    ASSUME NEW S, NEW s \in Seq(S), NEW y \in S, NEW x
    PROVE  Times(Append(s, y), x) = Times(s, x) + One(y = x)
<1> DEFINE t == Append(s, y)
           n == Len(s) + 1
<1>1. /\ Len(s) \in Nat /\ Len(t) = n /\ t[n] = y
      /\ \A i \in 1..Len(s) : t[i] = s[i]
  BY AppendProperties, LenProperties
<1>2. IsFiniteSet(PlacesOf(s, x)) /\ n \notin PlacesOf(s, x) /\ Times(s, x) \in Nat
  BY <1>1, TimesType DEF PlacesOf
<1>3. PlacesOf(t, x) = IF y = x THEN PlacesOf(s, x) \cup {n} ELSE PlacesOf(s, x)
  <2> HIDE DEF t
  <2> QED BY <1>1 DEF PlacesOf
<1> HIDE DEF t, n
<1>4. Cardinality(PlacesOf(s, x) \cup {n}) = Cardinality(PlacesOf(s, x)) + 1
  BY <1>2, FS_AddElement
<1>5. Times(t, x) = Times(s, x) + One(y = x)
  BY <1>2, <1>3, <1>4 DEF Times, One
<1> QED BY <1>5 DEF t

\* Behind the head: its places are one further on in the whole.
LEMMA TimesTail ==
    ASSUME NEW S, NEW s \in Seq(S), s # <<>>, NEW x
    PROVE  /\ Times(s, x) = Times(Tail(s), x) + One(Head(s) = x)
           /\ Tail(s) \in Seq(S) /\ Head(s) \in S
<1> DEFINE t == Tail(s)
           Up == {i + 1 : i \in PlacesOf(t, x)}
           f == [i \in PlacesOf(t, x) |-> i + 1]
<1>1. /\ t \in Seq(S) /\ Head(s) \in S /\ Head(s) = s[1]
      /\ Len(s) \in Nat \ {0} /\ Len(t) = Len(s) - 1
      /\ \A i \in 1..Len(t) : t[i] = s[i + 1]
  BY HeadTailProperties, LenProperties, EmptySeq
<1> HIDE DEF t
<1>2. PlacesOf(s, x) = IF Head(s) = x THEN Up \cup {1} ELSE Up
  <2>1. ASSUME NEW i \in PlacesOf(s, x), i # 1 PROVE i \in Up
    <3>1. i - 1 \in PlacesOf(t, x) /\ i = (i - 1) + 1
      BY <1>1, <2>1 DEF PlacesOf
    <3> QED BY <3>1
  <2>2. \A i \in PlacesOf(t, x) : i + 1 \in PlacesOf(s, x) /\ i + 1 # 1
    BY <1>1 DEF PlacesOf
  <2>3. 1 \in PlacesOf(s, x) <=> Head(s) = x
    BY <1>1 DEF PlacesOf
  <2> QED BY <2>1, <2>2, <2>3
<1>3. /\ IsFiniteSet(PlacesOf(t, x)) /\ Times(t, x) \in Nat
      /\ \A i \in PlacesOf(t, x) : i \in Nat /\ i # 0
  <2>1. IsFiniteSet(PlacesOf(t, x)) /\ Times(t, x) \in Nat
    BY <1>1, TimesType
  <2>2. \A i \in PlacesOf(t, x) : i \in Nat /\ i # 0
    BY <1>1 DEF PlacesOf
  <2> QED BY <2>1, <2>2
<1>4. f \in Bijection(PlacesOf(t, x), Up)
  <2>1. f \in [PlacesOf(t, x) -> Up] /\ \A u \in Up : \E i \in PlacesOf(t, x) : f[i] = u
    OBVIOUS
  <2>2. \A i, j \in PlacesOf(t, x) : f[i] = f[j] => i = j
    BY <1>3
  <2> HIDE DEF f, Up
  <2> QED BY <2>1, <2>2, Fun_IsBij
<1>5. 1 \notin Up
  BY <1>3
<1> HIDE DEF Up, f
<1>6. IsFiniteSet(Up) /\ Cardinality(Up) = Times(t, x)
  BY <1>3, <1>4, FS_Bijection DEF ExistsBijection, Times
<1>7. Cardinality(Up \cup {1}) = Cardinality(Up) + 1
  BY <1>5, <1>6, FS_AddElement
<1>8. Times(s, x) = Times(t, x) + One(Head(s) = x)
  BY <1>2, <1>3, <1>6, <1>7 DEF Times, One
<1> QED BY <1>1, <1>8 DEF t
-----------------------------------------------------------------------------
(* Type correctness *)

Places == {"idle", "publish", "synthesize", "wait", "leave", "close", "done"}

CallType ==
    /\ byValue \in BOOLEAN /\ leaf \subseteq {"caller", "server"} /\ caller \in {"up", "dead"}
    /\ pc \in [Call -> Places] /\ result \in [Call -> {"none", "answer", "timeout", "failed"}]
    /\ correlations \subseteq Call /\ closed \subseteq Call

StreamsType ==
    /\ inbox \in Seq(Message) /\ \A i \in 1..Len(inbox) : inbox[i].kind # "request"
    /\ requests \in Seq(Call) /\ answers \in [Call -> Nat]

ReaderType ==
    /\ letter \in Message \cup {NoMsg} /\ reader \in {"idle", "load", "send", "ended"}
    /\ reader \in {"load", "send"} <=> letter # NoMsg

ServerType ==
    /\ server \in {"off", "idle", "handle", "publish", "ended"}
    /\ task \in Message \cup {NoMsg}
    /\ server \in {"handle", "publish"} <=> task # NoMsg

HopType ==
    /\ queue \in Seq(Message) /\ hop \in {"idle", "forward", "synthesize", "ack", "ended"}
    /\ hop \in {"forward", "synthesize", "ack"} => queue # <<>>
    /\ delivered \in 0..MaxDeliver

CountType == handled \in [Call -> Nat] /\ repeats \in [Call -> Nat] /\ faults \in 0..MaxFaults

LEMMA TypeSplit ==
    TypeOK <=> CallType /\ StreamsType /\ ReaderType /\ ServerType /\ HopType /\ CountType
BY DEF TypeOK, CallType, StreamsType, ReaderType, ServerType, HopType, CountType, Places

\* What TypeOK leaves out: the head of the work queue can be delivered once more, a handler
\* has a request and a publisher an answer in hand, the client's reader an answer.
KindsOK ==
    /\ hop = "idle" => delivered < MaxDeliver
    /\ server = "handle" => task.kind = "request"
    /\ server = "publish" => task.kind = "answer"
    /\ letter # NoMsg => letter.kind = "answer"

LEMMA MsgType ==
    ASSUME NEW c \in Call, NEW k \in {"request", "answer"}
    PROVE  /\ Msg(k, c) \in Message /\ Msg(k, c) # NoMsg
           /\ Msg(k, c).kind = k /\ Msg(k, c).call = c
BY RpcAssumption DEF Msg, Message

LEMMA MessageParts ==
    ASSUME NEW m \in Message
    PROVE  /\ m.call \in Call /\ m.kind \in {"request", "answer"} /\ m # NoMsg
           /\ m = Msg(m.kind, m.call)
BY RpcAssumption DEF Msg, Message

LEMMA StoredType ==
    ASSUME StreamsType, NEW m \in Message, Stored(m) \/ UNCHANGED streams
    PROVE  StreamsType'
<1>1. m.call \in Call /\ m.kind \in {"request", "answer"}
  BY MessageParts
<1>2. CASE m.kind = "request" /\ Stored(m)
  <2>1. requests' \in Seq(Call)
    <3>1. requests \in Seq(Call) /\ requests' = Append(requests, m.call)
      BY <1>2 DEF Stored, StreamsType
    <3> QED BY <1>1, <3>1, AppendProperties
  <2> QED BY <1>2, <2>1 DEF Stored, StreamsType
<1>3. CASE m.kind # "request" /\ Stored(m)
  <2>1. /\ inbox' \in Seq(Message) /\ Len(inbox') = Len(inbox) + 1 /\ inbox'[Len(inbox')] = m
        /\ Len(inbox) \in Nat /\ \A i \in 1..Len(inbox) : inbox'[i] = inbox[i]
    <3>1. inbox \in Seq(Message) /\ inbox' = Append(inbox, m)
      BY <1>3 DEF Stored, StreamsType
    <3> QED BY <3>1, AppendProperties, LenProperties
  <2>2. ASSUME NEW i \in 1..Len(inbox') PROVE inbox'[i].kind # "request"
    <3>1. CASE i = Len(inbox')
      BY <1>3, <2>1, <3>1
    <3>2. CASE i # Len(inbox')
      <4>1. i \in 1..Len(inbox)
        BY <2>1, <3>2
      <4> QED BY <2>1, <4>1 DEF StreamsType
    <3> QED BY <3>1, <3>2
  <2>3. answers' \in [Call -> Nat]
    BY <1>1, <1>3 DEF Stored, StreamsType, Bump
  <2> QED BY <1>3, <2>1, <2>2, <2>3 DEF Stored, StreamsType
<1>4. CASE UNCHANGED streams
  BY <1>4 DEF streams, StreamsType
<1> QED BY <1>2, <1>3, <1>4

LEMMA FaultsType ==
    ASSUME CountType, NEW op, Fails(op) \/ NoFault
    PROVE  faults' \in 0..MaxFaults
BY RpcAssumption DEF CountType, Fails, NoFault

LEMMA TriedType ==
    ASSUME StreamsType, CountType, NEW m \in Message, Tried(m) \/ Refused(m)
    PROVE  StreamsType' /\ faults' \in 0..MaxFaults
<1>1. (Stored(m) \/ UNCHANGED streams) /\ (Fails("publish") \/ NoFault)
  BY DEF Tried, Refused
<1> QED BY <1>1, StoredType, FaultsType

LEMMA QueuedType ==
    ASSUME HopType, CountType, NEW m \in Message, Queued(m)
    PROVE  /\ queue' \in Seq(Message) /\ faults' \in 0..MaxFaults
           /\ queue # <<>> => queue' # <<>>
<1>1. queue' \in Seq(Message) /\ (queue # <<>> => queue' # <<>>)
  BY AppendProperties DEF HopType, Queued
<1>2. faults' \in 0..MaxFaults
  BY FaultsType DEF Queued
<1> QED BY <1>1, <1>2

LEMMA BumpType ==
    ASSUME NEW f \in [Call -> Nat], NEW c \in Call
    PROVE  /\ Bump(f, c) \in [Call -> Nat] /\ Bump(f, c)[c] = f[c] + 1
           /\ \A d \in Call : d # c => Bump(f, c)[d] = f[d]
BY DEF Bump

\* What a step of one part leaves alone.
LEMMA StepType ==
    ASSUME TypeOK, KindsOK,
           CallType' \/ UNCHANGED <<config, caller, calls>>,
           StreamsType' \/ UNCHANGED streams,
           ReaderType' \/ UNCHANGED <<reader, letter>>,
           ServerType' \/ UNCHANGED <<server, task>>,
           HopType' \/ UNCHANGED hermes,
           CountType' \/ UNCHANGED <<handled, repeats, faults>>
    PROVE  TypeOK'
<1>1. CallType'
  BY TypeSplit DEF CallType, config, calls
<1>2. StreamsType'
  BY TypeSplit DEF StreamsType, streams
<1>3. ReaderType'
  BY TypeSplit DEF ReaderType
<1>4. ServerType'
  BY TypeSplit DEF ServerType
<1>5. HopType'
  BY TypeSplit DEF HopType, hermes
<1>6. CountType'
  BY TypeSplit DEF CountType
<1> QED BY <1>1, <1>2, <1>3, <1>4, <1>5, <1>6 DEF TypeOK, CallType, StreamsType, ReaderType,
     ServerType, HopType, CountType, Places

GroupsType == CallType /\ StreamsType /\ ReaderType /\ ServerType /\ HopType /\ CountType

LEMMA CallStepType ==
    ASSUME TypeOK, KindsOK, NEW c \in Call, RpcCallOf(c)
    PROVE  TypeOK' /\ KindsOK'
<1> USE DEF GroupsType
<1>t. GroupsType
  BY TypeSplit
<1>m. /\ Msg("request", c) \in Message /\ Msg("answer", c) \in Message
      /\ Msg("answer", c).kind = "answer"
  BY MsgType
<1>p. \A p \in Places, r \in {"answer", "timeout", "failed"} :
        /\ Goto(c, p) => pc' \in [Call -> Places]
        /\ Leave(c, r) => /\ pc' \in [Call -> Places]
                          /\ result' \in [Call -> {"none", "answer", "timeout", "failed"}]
  BY <1>t DEF CallType, Goto, Leave, Places
<1>1. CASE Register(c)
  <2>1. CallType'
    BY <1>t, <1>p, <1>1 DEF Register, CallType, config, Places
  <2> QED BY <1>1, <2>1, StepType DEF Register, mail, serving, hermes, counts, streams, KindsOK
<1>2. CASE PublishRequest(c)
  <2>1. CallType'
    BY <1>t, <1>p, <1>2 DEF PublishRequest, CallType, config, Places
  <2>2. StreamsType' /\ faults' \in 0..MaxFaults
    BY <1>t, <1>m, <1>2, TriedType DEF PublishRequest, Tried
  <2>3. CountType'
    BY <1>t, <1>2, <2>2 DEF PublishRequest, CountType
  <2> QED BY <1>2, <2>1, <2>2, <2>3, StepType DEF PublishRequest, hermes, KindsOK
<1>3. CASE Synthesize(c)
  <2>1. CallType'
    BY <1>t, <1>p, <1>3 DEF Synthesize, CallType, config, Places
  <2>2. StreamsType' /\ faults' \in 0..MaxFaults
    BY <1>t, <1>m, <1>3, TriedType DEF Synthesize
  <2>3. CountType'
    BY <1>t, <1>3, <2>2 DEF Synthesize, CountType
  <2> QED BY <1>3, <2>1, <2>2, <2>3, StepType DEF Synthesize, hermes, KindsOK
<1>4. CASE QueueRequest(c)
  <2>1. CallType'
    BY <1>t, <1>p, <1>4 DEF QueueRequest, CallType, config, Places
  <2>2. queue' \in Seq(Message) /\ faults' \in 0..MaxFaults /\ (queue # <<>> => queue' # <<>>)
    <3>1. CASE Queued(Msg("request", c))
      BY <1>t, <1>m, <3>1, QueuedType
    <3>2. CASE Fails("connection") /\ UNCHANGED queue
      BY <1>t, <3>2, FaultsType DEF HopType
    <3> QED BY <1>4, <3>1, <3>2 DEF QueueRequest
  <2>3. CountType' /\ HopType'
    BY <1>t, <1>4, <2>2 DEF QueueRequest, CountType, HopType, counts
  <2> QED BY <1>4, <2>1, <2>3, StepType DEF QueueRequest, mail, serving, counts, streams, KindsOK
<1>5. CASE Receive(c)
  <2>1. CallType' /\ ReaderType'
    BY <1>t, <1>p, <1>5 DEF Receive, CallType, ReaderType, config, Places
  <2> QED BY <1>5, <2>1, StepType DEF Receive, serving, hermes, counts, streams, KindsOK
<1>6. CASE TimeOut(c) \/ RemoveCorrelation(c) \/ CloseCallback(c)
  <2>1. CallType'
    BY <1>t, <1>p, <1>6 DEF TimeOut, RemoveCorrelation, CloseCallback, CallType, config, Places
  <2>2. UNCHANGED <<streams, reader, letter, server, task, hermes, handled, repeats, faults>>
    BY <1>6 DEF TimeOut, RemoveCorrelation, CloseCallback, mail, serving, hermes, counts, streams
  <2> QED BY <2>1, <2>2, StepType DEF KindsOK, hermes
<1> QED BY <1>1, <1>2, <1>3, <1>4, <1>5, <1>6 DEF RpcCallOf

LEMMA ReaderTakeType ==
    ASSUME TypeOK, KindsOK, ReaderTake
    PROVE  TypeOK' /\ KindsOK'
<1> USE DEF GroupsType
<1>t. GroupsType
  BY TypeSplit
<1> DEFINE h == Head(inbox)
           t == Tail(inbox)
<1>1. /\ inbox \in Seq(Message) /\ inbox # <<>>
      /\ h \in Message /\ t \in Seq(Message) /\ h = inbox[1]
      /\ Len(inbox) \in Nat \ {0} /\ Len(t) = Len(inbox) - 1
      /\ \A i \in 1..Len(t) : t[i] = inbox[i + 1]
  <2>1. inbox \in Seq(Message) /\ inbox # <<>>
    BY <1>t DEF ReaderTake, StreamsType
  <2> QED BY <2>1, HeadTailProperties, LenProperties, EmptySeq
<1>2. h.kind = "answer" /\ h.call \in Call /\ h # NoMsg
  BY <1>t, <1>1, MessageParts DEF StreamsType
<1>3. \A i \in 1..Len(t) : t[i].kind # "request"
  BY <1>t, <1>1 DEF StreamsType
<1> HIDE DEF h, t
<1>4. /\ letter' = h /\ reader' = "load" /\ requests' = requests
      /\ \/ inbox' = t /\ answers' = answers
         \/ inbox' = Append(t, h) /\ answers' = Bump(answers, h.call)
  BY DEF ReaderTake, h, t, serving
<1>5. inbox' \in Seq(Message) /\ \A i \in 1..Len(inbox') : inbox'[i].kind # "request"
  <2>1. CASE inbox' = Append(t, h)
    <3>1. /\ inbox' \in Seq(Message) /\ Len(inbox') = Len(t) + 1 /\ inbox'[Len(t) + 1] = h
          /\ Len(t) \in Nat /\ \A i \in 1..Len(t) : inbox'[i] = t[i]
      BY <1>1, <2>1, AppendProperties, LenProperties
    <3> QED BY <1>2, <1>3, <3>1
  <2> QED BY <1>1, <1>3, <1>4, <2>1
<1>6. StreamsType'
  <2>1. answers \in [Call -> Nat] /\ requests' \in Seq(Call)
    BY <1>t, <1>4 DEF StreamsType
  <2>2. answers' \in [Call -> Nat]
    BY <1>2, <1>4, <2>1, BumpType
  <2> QED BY <1>5, <2>1, <2>2 DEF StreamsType
<1>7. ReaderType'
  BY <1>1, <1>2, <1>4 DEF ReaderType
<1>8. CountType'
  BY <1>t, FaultsType DEF ReaderTake, CountType, NoFault
<1> QED BY <1>2, <1>4, <1>6, <1>7, <1>8, StepType DEF ReaderTake, serving, hermes, KindsOK

LEMMA ReaderLoadType ==
    ASSUME TypeOK, KindsOK, ReaderLoad
    PROVE  TypeOK' /\ KindsOK'
<1>1. ReaderType'
  BY TypeSplit DEF ReaderLoad, ReaderType
<1> QED BY <1>1, StepType DEF ReaderLoad, serving, hermes, counts, streams, KindsOK

LEMMA ServerStepType ==
    ASSUME TypeOK, KindsOK, RpcServer \/ ServerCrash
    PROVE  TypeOK' /\ KindsOK'
<1> USE DEF GroupsType
<1>t. GroupsType
  BY TypeSplit
<1>1. CASE ServerStart
  <2>1. ServerType'
    BY <1>t, <1>1 DEF ServerStart, ServerType, ReaderBegins
  <2> QED BY <1>1, <2>1, StepType
      DEF ServerStart, ReaderBegins, mail, hermes, counts, streams, KindsOK
<1>2. CASE ServerTake
  <2>1. /\ requests \in Seq(Call) /\ Head(requests) \in Call /\ Tail(requests) \in Seq(Call)
        /\ Append(Tail(requests), Head(requests)) \in Seq(Call)
    <3>1. requests \in Seq(Call) /\ requests # <<>>
      BY <1>t, <1>2 DEF ServerTake, StreamsType
    <3>2. Head(requests) \in Call /\ Tail(requests) \in Seq(Call)
      BY <3>1, HeadTailProperties
    <3> QED BY <3>1, <3>2, AppendProperties
  <2>2. StreamsType'
    BY <1>t, <1>2, <2>1 DEF ServerTake, StreamsType, mail
  <2>3. task' \in Message /\ task' # NoMsg /\ task'.kind = "request"
    BY <1>2, <2>1, MsgType DEF ServerTake
  <2>4. ServerType'
    BY <1>2, <2>3 DEF ServerTake, ServerType
  <2>5. CountType'
    <3>1. faults' \in 0..MaxFaults
      BY <1>t, <1>2, FaultsType DEF ServerTake
    <3>2. repeats' \in [Call -> Nat]
      BY <1>t, <1>2, <2>1, BumpType DEF ServerTake, CountType
    <3> QED BY <1>t, <1>2, <3>1, <3>2 DEF ServerTake, CountType
  <2> QED BY <1>2, <2>2, <2>3, <2>4, <2>5, StepType DEF ServerTake, mail, hermes, KindsOK
<1>3. CASE ServerHandle
  <2>1. task \in Message /\ task.call \in Call
    BY <1>t, <1>3, MessageParts DEF ServerHandle, ServerType
  <2>2. task' \in Message /\ task' # NoMsg /\ task'.kind = "answer"
    BY <1>3, <2>1, MsgType DEF ServerHandle
  <2>3. ServerType'
    BY <1>3, <2>2 DEF ServerHandle, ServerType
  <2>4. CountType'
    BY <1>t, <1>3, <2>1, BumpType DEF ServerHandle, CountType
  <2> QED BY <1>3, <2>2, <2>3, <2>4, StepType DEF ServerHandle, mail, hermes, streams, KindsOK
<1>4. CASE ServerPublish
  <2>1. task \in Message
    BY <1>t, <1>4 DEF ServerPublish, ServerType
  <2>2. ServerType'
    BY <1>4 DEF ServerPublish, ServerType
  <2>3. StreamsType' /\ HopType' /\ faults' \in 0..MaxFaults
    <3>1. CASE Queued(task) /\ UNCHANGED streams
      <4>1. queue' \in Seq(Message) /\ faults' \in 0..MaxFaults /\ (queue # <<>> => queue' # <<>>)
        BY <1>t, <2>1, <3>1, QueuedType
      <4> QED BY <1>t, <1>4, <3>1, <4>1 DEF ServerPublish, StreamsType, streams, HopType
    <3>2. CASE Fails("connection") /\ UNCHANGED queue /\ UNCHANGED streams
      <4>1. faults' \in 0..MaxFaults
        BY <1>t, <3>2, FaultsType
      <4> QED BY <1>t, <1>4, <3>2, <4>1 DEF ServerPublish, StreamsType, streams, HopType
    <3>3. CASE Tried(task) /\ UNCHANGED queue
      <4>1. StreamsType' /\ faults' \in 0..MaxFaults
        BY <1>t, <2>1, <3>3, TriedType
      <4> QED BY <1>t, <1>4, <3>3, <4>1 DEF ServerPublish, HopType
    <3> QED BY <1>4, <3>1, <3>2, <3>3 DEF ServerPublish
  <2>4. CountType'
    BY <1>t, <1>4, <2>3 DEF ServerPublish, CountType
  <2> QED BY <1>4, <2>2, <2>3, <2>4, StepType DEF ServerPublish, KindsOK
<1>5. CASE ServerCrash
  <2>1. ServerType'
    BY <1>5 DEF ServerCrash, ServerType
  <2>2. CountType'
    BY <1>t, <1>5, FaultsType DEF ServerCrash, CountType, counts
  <2> QED BY <1>5, <2>1, <2>2, StepType DEF ServerCrash, mail, hermes, counts, streams, KindsOK
<1> QED BY <1>1, <1>2, <1>3, <1>4, <1>5 DEF RpcServer

\* The head of a queue that is not empty, and what is left without it or with it at the end.
LEMMA HeadType ==
    ASSUME HopType, queue # <<>>
    PROVE  /\ queue \in Seq(Message) /\ Head(queue) \in Message /\ Tail(queue) \in Seq(Message)
           /\ Append(Tail(queue), Head(queue)) \in Seq(Message)
           /\ Head(queue).call \in Call /\ Head(queue) = queue[1]
<1>1. queue \in Seq(Message)
  BY DEF HopType
<1>2. Head(queue) \in Message /\ Tail(queue) \in Seq(Message) /\ Head(queue) = queue[1]
  BY <1>1, HeadTailProperties
<1> QED BY <1>1, <1>2, AppendProperties, MessageParts

LEMMA RedeliverType ==
    ASSUME HopType, CountType, queue # <<>>, Redeliver
    PROVE  HopType' /\ repeats' \in [Call -> Nat] /\ hop' = "idle" /\ delivered' < MaxDeliver
<1>1. /\ queue \in Seq(Message) /\ Tail(queue) \in Seq(Message)
      /\ Append(Tail(queue), Head(queue)) \in Seq(Message) /\ Head(queue).call \in Call
  BY HeadType
<1>2. hop' = "idle" /\ queue' \in Seq(Message) /\ delivered' \in 0..MaxDeliver
      /\ delivered' < MaxDeliver
  BY <1>1, RpcAssumption DEF Redeliver, HopType
<1>3. repeats' \in [Call -> Nat]
  <2>1. repeats' \in {repeats, Bump(repeats, Head(queue).call)} /\ repeats \in [Call -> Nat]
    BY DEF Redeliver, CountType
  <2> QED BY <1>1, <2>1, BumpType
<1> QED BY <1>2, <1>3 DEF HopType

LEMMA HopStepType ==
    ASSUME TypeOK, KindsOK, Consumer \/ HopCrash \/ HopEnds
    PROVE  TypeOK' /\ KindsOK'
<1> USE DEF GroupsType
<1>t. GroupsType
  BY TypeSplit
<1>1. CASE HopTake
  <2>1. HopType'
    BY <1>t, <1>1, RpcAssumption DEF HopTake, HopType, KindsOK
  <2> QED BY <1>1, <2>1, StepType DEF HopTake, mail, serving, counts, streams, KindsOK
<1>2. CASE HopForward
  <2>0. queue # <<>>
    BY <1>t, <1>2 DEF HopForward, HopType
  <2>1. Head(queue) \in Message
    BY <1>t, <2>0, HeadType
  <2>2. /\ StreamsType' /\ HopType' /\ repeats' \in [Call -> Nat] /\ faults' \in 0..MaxFaults
        /\ hop' = "idle" => delivered' < MaxDeliver
    <3>1. CASE Fails("fetch") /\ Redeliver /\ UNCHANGED streams
      BY <1>t, <2>0, <3>1, RedeliverType, FaultsType DEF StreamsType, streams
    <3>2. CASE /\ (Stored(Head(queue)) /\ NoFault) \/ Refused(Head(queue))
               /\ hop' \in {"synthesize", "ack"} /\ UNCHANGED <<queue, delivered, repeats>>
      <4>1. StreamsType' /\ faults' \in 0..MaxFaults
        BY <1>t, <2>1, <3>2, TriedType DEF Tried
      <4> QED BY <1>t, <2>0, <3>2, <4>1 DEF HopType, CountType
    <3> QED BY <1>2, <3>1, <3>2 DEF HopForward
  <2>3. CountType'
    BY <1>t, <1>2, <2>2 DEF HopForward, CountType
  <2> QED BY <1>2, <2>2, <2>3, StepType DEF HopForward, KindsOK
<1>3. CASE HopSynthesize
  <2>1. queue # <<>>
    BY <1>t, <1>3 DEF HopSynthesize, HopType
  <2>2. Msg("answer", Head(queue).call) \in Message
    BY <1>t, <2>1, HeadType, MsgType
  <2>3. StreamsType' /\ faults' \in 0..MaxFaults
    BY <1>t, <1>3, <2>2, TriedType DEF HopSynthesize
  <2>4. HopType' /\ CountType'
    BY <1>t, <1>3, <2>1, <2>3 DEF HopSynthesize, HopType, CountType
  <2> QED BY <1>3, <2>3, <2>4, StepType DEF HopSynthesize, KindsOK
<1>4. CASE HopAck \/ HopCrash
  <2>0. queue # <<>>
    BY <1>t, <1>4 DEF HopAck, HopCrash, HopType
  <2>1. /\ HopType' /\ repeats' \in [Call -> Nat] /\ faults' \in 0..MaxFaults
        /\ hop' = "idle" => delivered' < MaxDeliver
    <3>1. CASE (Fails("ack") \/ Fails("death")) /\ Redeliver
      BY <1>t, <2>0, <3>1, RedeliverType, FaultsType
    <3>2. CASE /\ hop' = "idle" /\ queue' = Tail(queue) /\ delivered' = 0
               /\ UNCHANGED <<faults, repeats>>
      BY <1>t, <2>0, <3>2, HeadType, RpcAssumption DEF HopType, CountType
    <3> QED BY <1>4, <3>1, <3>2 DEF HopAck, HopCrash, NoFault
  <2>2. CountType'
    BY <1>t, <1>4, <2>1 DEF HopAck, HopCrash, CountType
  <2> QED BY <1>4, <2>1, <2>2, StepType DEF HopAck, HopCrash, mail, serving, streams, KindsOK
<1>5. CASE HopEnds
  <2>1. faults' \in 0..MaxFaults
    BY <1>t, <1>5, FaultsType DEF HopEnds
  <2>2. HopType' /\ CountType'
    BY <1>t, <1>5, <2>1 DEF HopEnds, HopType, CountType, counts
  <2> QED BY <1>5, <2>2, StepType DEF HopEnds, mail, serving, counts, streams, KindsOK
<1> QED BY <1>1, <1>2, <1>3, <1>4, <1>5 DEF Consumer

LEMMA TypeStep ==
    ASSUME TypeOK, KindsOK, [Next]_vars
    PROVE  TypeOK' /\ KindsOK'
<1>1. CASE UNCHANGED vars
  BY <1>1, StepType DEF vars, config, calls, mail, serving, hermes, counts, streams, KindsOK
<1>2. ASSUME NEW c \in Call, RpcCallOf(c) PROVE TypeOK' /\ KindsOK'
  BY <1>2, CallStepType
<1> QED BY <1>1, <1>2, ReaderTakeType, ReaderLoadType, ServerStepType, HopStepType DEF Next

LEMMA TypeInit == Init => TypeOK /\ KindsOK
<1> SUFFICES ASSUME Init PROVE TypeOK /\ KindsOK
  OBVIOUS
<1>1. /\ inbox \in Seq(Message) /\ requests \in Seq(Call) /\ queue \in Seq(Message)
      /\ Len(inbox) = 0
  BY EmptySeq DEF Init
<1> QED BY <1>1, RpcAssumption DEF Init, ReaderBegins, TypeOK, KindsOK

\* The type invariant of RpcCall, with what each reader has in its hand: in particular only
\* requests reach the server, only answers the client, and no message of the work queue is
\* delivered more often than its limit.
THEOREM TypeCorrect == Spec => [](TypeOK /\ KindsOK)
<1> QED BY TypeInit, TypeStep, PTL DEF Spec
-----------------------------------------------------------------------------
(* A handler runs once for a call, unless its request was repeated *)

\* The messages of the work queue that hermes has not put into their mailbox yet.
Pending == IF hop \in {"synthesize", "ack"} THEN Tail(queue) ELSE queue

\* Where the request of a call can be: not sent yet, in the server's inbox, in the hand of
\* the server, or on its way through the work queue.
Unsent(c) == One(pc[c] \in {"idle", "publish"})
Waiting(c) == Times(requests, c)
Tasked(c) == One(task = Msg("request", c))
Forwarded(c) == Times(Pending, Msg("request", c))

\* Each place a request is in may lead to one more run of its handler.
RunsBounded ==
    \A c \in Call :
        handled[c] + Unsent(c) + Waiting(c) + Tasked(c) + Forwarded(c) <= 1 + repeats[c]

CallInv == TypeOK /\ KindsOK /\ RunsBounded

PartsNat ==
    \A c \in Call : /\ Unsent(c) \in Nat /\ Waiting(c) \in Nat
                    /\ Tasked(c) \in Nat /\ Forwarded(c) \in Nat
                    /\ handled[c] \in Nat /\ repeats[c] \in Nat

LEMMA PendingType == TypeOK => Pending \in Seq(Message)
BY HeadType, TypeSplit DEF Pending, TypeOK

LEMMA PartsType == TypeOK => PartsNat
<1> SUFFICES ASSUME TypeOK PROVE PartsNat
  OBVIOUS
<1>1. requests \in Seq(Call) /\ Pending \in Seq(Message)
  BY PendingType DEF TypeOK
<1>2. \A x : Times(requests, x) \in Nat /\ Times(Pending, x) \in Nat
  BY <1>1, TimesType
<1>3. handled \in [Call -> Nat] /\ repeats \in [Call -> Nat]
  BY DEF TypeOK
<1> QED BY <1>2, <1>3, OneType DEF PartsNat, Unsent, Waiting, Tasked, Forwarded

LEMMA PartsTypeNext == TypeOK' => PartsNat'
BY PartsType, PTL

\* The balance a step has to keep.
LEMMA RunsKept ==
    ASSUME CallInv, TypeOK', KindsOK',
           \A c \in Call :
             handled'[c] + Unsent(c)' + Waiting(c)' + Tasked(c)' + Forwarded(c)' + repeats[c]
               <= handled[c] + Unsent(c) + Waiting(c) + Tasked(c) + Forwarded(c) + repeats'[c]
    PROVE  CallInv'
<1>1. PartsNat /\ PartsNat'
  BY PartsType, PartsTypeNext DEF CallInv
<1>2. RunsBounded'
  BY <1>1 DEF CallInv, RunsBounded, PartsNat
<1> QED BY <1>2 DEF CallInv

LEMMA RunsQuiet ==
    ASSUME CallInv, TypeOK', KindsOK', handled' = handled, repeats' = repeats,
           \A c \in Call : /\ Unsent(c)' <= Unsent(c) /\ Waiting(c)' <= Waiting(c)
                           /\ Tasked(c)' <= Tasked(c) /\ Forwarded(c)' <= Forwarded(c)
    PROVE  CallInv'
<1>1. PartsNat /\ PartsNat'
  BY PartsType, PartsTypeNext DEF CallInv
<1> QED BY <1>1, RunsKept DEF PartsNat

\* A part that a step does not touch.
LEMMA SameParts ==
    ASSUME TypeOK
    PROVE  \A c \in Call :
             /\ UNCHANGED pc => Unsent(c)' <= Unsent(c) /\ Unsent(c)' = Unsent(c)
             /\ UNCHANGED requests => Waiting(c)' <= Waiting(c) /\ Waiting(c)' = Waiting(c)
             /\ UNCHANGED task => Tasked(c)' <= Tasked(c) /\ Tasked(c)' = Tasked(c)
             /\ UNCHANGED <<queue, hop>> =>
                  Forwarded(c)' <= Forwarded(c) /\ Forwarded(c)' = Forwarded(c)
<1>1. PartsNat
  BY PartsType
<1> QED BY <1>1 DEF PartsNat, Unsent, Waiting, Tasked, Forwarded, Pending

LEMMA StoredTimes ==
    ASSUME StreamsType, NEW m \in Message, Stored(m) \/ UNCHANGED streams, NEW c \in Call
    PROVE  /\ Waiting(c)' <= Waiting(c) + One(m = Msg("request", c))
           /\ m.kind # "request" => Waiting(c)' = Waiting(c)
<1>1. requests \in Seq(Call) /\ Times(requests, c) \in Nat
  BY TimesType DEF StreamsType
<1>2. m.call \in Call /\ m = Msg(m.kind, m.call) /\ One(m = Msg("request", c)) \in 0..1
  BY MessageParts, OneType
<1>3. CASE m.kind = "request" /\ Stored(m)
  <2>1. Times(requests', c) = Times(requests, c) + One(m.call = c)
    <3>1. requests' = Append(requests, m.call)
      BY <1>3 DEF Stored
    <3> QED BY <1>1, <1>2, <3>1, TimesAppend
  <2>2. m.call = c <=> m = Msg("request", c)
    BY <1>2, <1>3, MsgType
  <2> QED BY <1>1, <1>3, <2>1, <2>2 DEF Waiting, One
<1>4. CASE UNCHANGED requests
  BY <1>1, <1>2, <1>4 DEF Waiting
<1> QED BY <1>3, <1>4 DEF Stored, streams

LEMMA QueuedTimes ==
    ASSUME TypeOK, NEW m \in Message, Queued(m) \/ UNCHANGED queue, UNCHANGED hop, NEW c \in Call
    PROVE  Forwarded(c)' <= Forwarded(c) + One(m = Msg("request", c))
<1> DEFINE x == Msg("request", c)
<1>1. queue \in Seq(Message) /\ Times(queue, x) \in Nat /\ One(m = x) \in 0..1
  BY TimesType, OneType DEF TypeOK
<1>2. CASE UNCHANGED queue
  <2>1. Forwarded(c)' = Forwarded(c) /\ Forwarded(c) \in Nat
    BY <1>2, SameParts, PartsType DEF PartsNat
  <2> QED BY <1>1, <2>1
<1>3. CASE queue' = Append(queue, m)
  <2>1. queue' \in Seq(Message) /\ queue' # <<>> /\ Times(queue', x) = Times(queue, x) + One(m = x)
    BY <1>1, <1>3, TimesAppend, AppendProperties
  <2>2. CASE hop \in {"synthesize", "ack"}
    <3>1. queue # <<>>
      BY <2>2 DEF TypeOK
    <3>2. /\ Times(queue, x) = Times(Tail(queue), x) + One(Head(queue) = x)
          /\ Times(queue', x) = Times(Tail(queue'), x) + One(Head(queue') = x)
          /\ Tail(queue) \in Seq(Message) /\ Tail(queue') \in Seq(Message)
      BY <1>1, <2>1, <3>1, TimesTail
    <3>3. Head(queue') = Head(queue)
      BY <1>1, <1>3, <3>1, AppendProperties, HeadTailProperties, LenProperties, EmptySeq
    <3>4. /\ Times(Tail(queue), x) \in Nat /\ Times(Tail(queue'), x) \in Nat
          /\ One(Head(queue) = x) \in 0..1
      BY <3>2, TimesType, OneType
    <3>5. Times(Tail(queue'), x) = Times(Tail(queue), x) + One(m = x)
      BY <1>1, <2>1, <3>2, <3>3, <3>4
    <3> QED BY <1>1, <2>2, <3>4, <3>5 DEF Forwarded, Pending
  <2>3. CASE hop \notin {"synthesize", "ack"}
    BY <1>1, <2>1, <2>3 DEF Forwarded, Pending
  <2> QED BY <2>2, <2>3
<1> QED BY <1>2, <1>3 DEF Queued

\* A message that is delivered again counts as repeated when it is a request.
LEMMA RedeliverTimes ==
    ASSUME TypeOK, Redeliver, hop \in {"forward", "synthesize", "ack"}, NEW c \in Call
    PROVE  Forwarded(c)' + repeats[c] <= Forwarded(c) + repeats'[c]
<1> DEFINE x == Msg("request", c)
           h == Head(queue)
           t == Tail(queue)
<1>0. queue # <<>>
  BY DEF TypeOK
<1>1. /\ queue \in Seq(Message) /\ h \in Message /\ t \in Seq(Message)
      /\ Times(queue, x) = Times(t, x) + One(h = x)
      /\ h.call \in Call /\ repeats \in [Call -> Nat]
  BY <1>0, TimesTail, MessageParts DEF TypeOK
<1>2. Times(queue, x) \in Nat /\ Times(t, x) \in Nat /\ One(h = x) \in 0..1
  BY <1>1, TimesType, OneType
<1>3. h = x <=> h.kind = "request" /\ h.call = c
  BY <1>1, MessageParts, MsgType
<1>4. Times(t, x) <= Forwarded(c) /\ Forwarded(c) \in Nat
  BY <1>1, <1>2 DEF Forwarded, Pending
<1>5. Forwarded(c)' = Times(queue', x)
  BY DEF Redeliver, Forwarded, Pending
<1>r. repeats[c] \in Nat
  BY <1>1
<1> HIDE DEF h, t, x
<1>a. Times(Append(t, h), x) = Times(t, x) + One(h = x)
  BY <1>1, TimesAppend
<1>6. CASE queue' \in {queue, Append(t, h)}
           /\ repeats' = IF h.kind = "request" THEN Bump(repeats, h.call) ELSE repeats
  <2>1. Times(queue', x) = Times(t, x) + One(h = x)
    BY <1>1, <1>6, <1>a
  <2>2. repeats'[c] = repeats[c] + One(h = x)
    BY <1>1, <1>3, <1>6, BumpType DEF One
  <2> QED BY <1>2, <1>4, <1>5, <1>r, <2>1, <2>2
<1>7. CASE queue' = t /\ UNCHANGED repeats
  BY <1>2, <1>4, <1>5, <1>7, <1>r
<1> QED BY <1>6, <1>7 DEF Redeliver, h, t

LEMMA UnsentFalls ==
    ASSUME \A c \in Call : pc'[c] \in {"idle", "publish"} => pc[c] \in {"idle", "publish"}
    PROVE  \A c \in Call : Unsent(c)' <= Unsent(c)
<1> SUFFICES ASSUME NEW c \in Call PROVE Unsent(c)' <= Unsent(c)
  OBVIOUS
<1>1. CASE pc[c] \in {"idle", "publish"}
  BY <1>1 DEF Unsent, One
<1>2. CASE ~ (pc[c] \in {"idle", "publish"} \/ pc'[c] \in {"idle", "publish"})
  BY <1>2 DEF Unsent, One
<1> QED BY <1>1, <1>2

LEMMA CallRuns ==
    ASSUME CallInv, TypeOK', KindsOK', NEW c \in Call, RpcCallOf(c)
    PROVE  CallInv'
<1>s. CallInv => PartsNat /\ PartsNat'
  BY PartsType, PartsTypeNext DEF CallInv
<1>m. Msg("request", c) \in Message /\ Msg("answer", c) \in Message
      /\ Msg("answer", c).kind = "answer"
  BY MsgType
<1>t. StreamsType
  BY TypeSplit DEF CallInv
<1>o. \A d \in Call : d # c => One(Msg("request", c) = Msg("request", d)) = 0
  BY DEF One, Msg
<1>1. CASE Register(c)
  <2>1. \A d \in Call : Unsent(d)' <= Unsent(d)
    BY <1>1, UnsentFalls DEF CallInv, TypeOK, Register, Goto
  <2> QED BY <1>1, <2>1, SameParts, RunsQuiet
      DEF CallInv, Register, serving, hermes, counts
<1>2. CASE PublishRequest(c) \/ QueueRequest(c)
  <2>1. /\ UNCHANGED <<task, hop, handled, repeats>>
        /\ pc[c] = "publish"
        /\ pc' \in {[pc EXCEPT ![c] = p] : p \in {"wait", "synthesize", "leave"}}
    BY <1>2 DEF PublishRequest, QueueRequest, Goto, Leave, serving, hermes, counts
  <2>2. Unsent(c) = 1 /\ Unsent(c)' = 0 /\ \A d \in Call : d # c => Unsent(d)' = Unsent(d)
    BY <2>1 DEF CallInv, TypeOK, Unsent, One
  <2>3. ASSUME NEW d \in Call
        PROVE  Waiting(d)' + Forwarded(d)'
                 <= Waiting(d) + Forwarded(d) + One(Msg("request", c) = Msg("request", d))
    <3>1. CASE PublishRequest(c)
      <4>1. Stored(Msg("request", c)) \/ UNCHANGED streams
        BY <3>1 DEF PublishRequest, Refused
      <4>2. Waiting(d)' <= Waiting(d) + One(Msg("request", c) = Msg("request", d))
        BY <1>m, <1>t, <4>1, StoredTimes
      <4>3. Forwarded(d)' = Forwarded(d)
        BY <3>1, SameParts DEF CallInv, PublishRequest, hermes
      <4> QED BY <1>s, <4>2, <4>3, OneType DEF PartsNat
    <3>2. CASE QueueRequest(c)
      <4>1. Forwarded(d)' <= Forwarded(d) + One(Msg("request", c) = Msg("request", d))
        BY <1>m, <3>2, QueuedTimes DEF CallInv, QueueRequest
      <4>2. Waiting(d)' = Waiting(d)
        BY <3>2, SameParts DEF CallInv, QueueRequest, serving
      <4> QED BY <1>s, <4>1, <4>2, OneType DEF PartsNat
    <3> QED BY <1>2, <3>1, <3>2
  <2>4. \A d \in Call : Tasked(d)' = Tasked(d)
    BY <2>1, SameParts DEF CallInv
  <2>5. ASSUME NEW d \in Call
        PROVE  handled'[d] + Unsent(d)' + Waiting(d)' + Tasked(d)' + Forwarded(d)' + repeats[d]
                 <= handled[d] + Unsent(d) + Waiting(d) + Tasked(d) + Forwarded(d) + repeats'[d]
    <3>1. One(Msg("request", c) = Msg("request", d)) + Unsent(d)' <= Unsent(d)
      <4>1. CASE d = c
        BY <2>2, <4>1 DEF One
      <4>2. CASE d # c
        BY <1>o, <1>s, <2>2, <4>2 DEF PartsNat
      <4> QED BY <4>1, <4>2
    <3> QED BY <1>s, <2>1, <2>3, <2>4, <3>1, OneType DEF PartsNat
  <2> QED BY <2>5, RunsKept
<1>3. CASE Synthesize(c)
  <2>1. Stored(Msg("answer", c)) \/ UNCHANGED streams
    BY <1>3 DEF Synthesize, Tried, Refused
  <2>2. \A d \in Call : Waiting(d)' = Waiting(d)
    BY <1>m, <1>t, <2>1, StoredTimes DEF streams, Waiting
  <2>3. \A d \in Call : Unsent(d)' <= Unsent(d)
    BY <1>3, UnsentFalls DEF CallInv, TypeOK, Synthesize, Goto
  <2> QED BY <1>3, <1>s, <2>2, <2>3, SameParts, RunsQuiet DEF CallInv, PartsNat, Synthesize, hermes
<1>4. CASE Receive(c) \/ TimeOut(c) \/ RemoveCorrelation(c) \/ CloseCallback(c)
  <2>1. \A d \in Call : Unsent(d)' <= Unsent(d)
    BY <1>4, UnsentFalls
       DEF CallInv, TypeOK, Receive, TimeOut, RemoveCorrelation, CloseCallback, Goto, Leave
  <2> QED BY <1>4, <1>s, <2>1, SameParts, RunsQuiet
      DEF CallInv, PartsNat, Receive, TimeOut, RemoveCorrelation, CloseCallback, serving, hermes,
          counts
<1> QED BY <1>1, <1>2, <1>3, <1>4 DEF RpcCallOf

LEMMA ReaderRuns ==
    ASSUME CallInv, TypeOK', KindsOK', ReaderTake \/ ReaderLoad
    PROVE  CallInv'
BY SameParts, RunsQuiet DEF CallInv, ReaderTake, ReaderLoad, calls, serving, hermes, counts

LEMMA ServerRuns ==
    ASSUME CallInv, TypeOK', KindsOK', RpcServer \/ ServerCrash
    PROVE  CallInv'
<1>s. PartsNat /\ PartsNat'
  BY PartsType, PartsTypeNext DEF CallInv
<1>1. CASE ServerStart
  BY <1>1, SameParts, RunsQuiet DEF CallInv, ServerStart, calls, hermes, counts
<1>2. CASE ServerTake
  <2> DEFINE h == Head(requests)
             t == Tail(requests)
  <2>1. /\ requests \in Seq(Call) /\ t \in Seq(Call) /\ h \in Call
        /\ \A x : Times(requests, x) = Times(t, x) + One(h = x)
        /\ repeats \in [Call -> Nat]
    <3>1. requests \in Seq(Call) /\ requests # <<>> /\ repeats \in [Call -> Nat]
      BY <1>2 DEF CallInv, TypeOK, ServerTake
    <3> QED BY <3>1, TimesTail
  <2> HIDE DEF h, t
  <2>2. ASSUME NEW d \in Call
        PROVE  handled'[d] + Unsent(d)' + Waiting(d)' + Tasked(d)' + Forwarded(d)' + repeats[d]
                 <= handled[d] + Unsent(d) + Waiting(d) + Tasked(d) + Forwarded(d) + repeats'[d]
    <3>1. Tasked(d) = 0
      <4>1. task = NoMsg
        BY <1>2 DEF CallInv, TypeOK, ServerTake
      <4> QED BY <4>1, MsgType DEF Tasked, One
    <3>2. Tasked(d)' = One(h = d)
      BY <1>2, <2>1 DEF ServerTake, Tasked, One, Msg, h
    <3>3. Times(t, d) \in Nat /\ One(h = d) \in 0..1 /\ repeats[d] \in Nat
      BY <2>1, TimesType, OneType
    <3>4. Waiting(d)' + repeats[d] + One(h = d) <= Waiting(d) + repeats'[d]
      <4>1. CASE requests' = t /\ UNCHANGED repeats
        BY <2>1, <3>3, <4>1 DEF Waiting
      <4>2. CASE requests' = Append(t, h) /\ repeats' = Bump(repeats, h)
        <5>1. Times(Append(t, h), d) = Times(t, d) + One(h = d)
          BY <2>1, TimesAppend
        <5>2. repeats'[d] = repeats[d] + One(h = d)
          <6>1. Bump(repeats, h)[h] = repeats[h] + 1
                /\ \A e \in Call : e # h => Bump(repeats, h)[e] = repeats[e]
            BY <2>1, BumpType
          <6> QED BY <2>1, <3>3, <4>2, <6>1 DEF One
        <5> QED BY <2>1, <3>3, <4>2, <5>1, <5>2 DEF Waiting
      <4> QED BY <1>2, <4>1, <4>2 DEF ServerTake, h, t
    <3>5. Unsent(d)' = Unsent(d) /\ Forwarded(d)' = Forwarded(d) /\ handled'[d] = handled[d]
      BY <1>2, SameParts DEF CallInv, ServerTake, calls, hermes
    <3> QED BY <1>s, <3>1, <3>2, <3>3, <3>4, <3>5 DEF PartsNat
  <2> QED BY <2>2, RunsKept
<1>3. CASE ServerHandle
  <2>1. /\ task \in Message /\ task.kind = "request" /\ task.call \in Call
        /\ handled \in [Call -> Nat]
    BY <1>3, MessageParts DEF CallInv, TypeOK, KindsOK, ServerHandle
  <2>2. ASSUME NEW d \in Call
        PROVE  handled'[d] + Unsent(d)' + Waiting(d)' + Tasked(d)' + Forwarded(d)' + repeats[d]
                 <= handled[d] + Unsent(d) + Waiting(d) + Tasked(d) + Forwarded(d) + repeats'[d]
    <3>1. Tasked(d) = One(task.call = d)
      <4>1. task = Msg("request", d) <=> task.call = d
        BY <2>1, MessageParts, MsgType
      <4> QED BY <4>1 DEF Tasked, One
    <3>2. Tasked(d)' = 0
      BY <1>3, <2>1, MsgType DEF ServerHandle, Tasked, One
    <3>3. handled'[d] <= handled[d] + One(task.call = d)
      BY <1>3, <2>1, BumpType DEF ServerHandle, One
    <3>4. /\ Unsent(d)' = Unsent(d) /\ Forwarded(d)' = Forwarded(d) /\ Waiting(d)' = Waiting(d)
          /\ repeats'[d] = repeats[d]
      BY <1>3, SameParts DEF CallInv, ServerHandle, calls, hermes
    <3> QED BY <1>s, <3>1, <3>2, <3>3, <3>4 DEF PartsNat
  <2> QED BY <2>2, RunsKept
<1>4. CASE ServerPublish
  <2>1. task \in Message /\ task.kind = "answer"
    BY <1>4 DEF CallInv, TypeOK, KindsOK, ServerPublish
  <2>2. ASSUME NEW d \in Call
        PROVE  /\ Unsent(d)' <= Unsent(d) /\ Waiting(d)' <= Waiting(d)
               /\ Tasked(d)' <= Tasked(d) /\ Forwarded(d)' <= Forwarded(d)
    <3>1. task # Msg("request", d)
      BY <2>1, MsgType
    <3>2. Stored(task) \/ UNCHANGED streams
      BY <1>4 DEF ServerPublish, Tried, Refused
    <3>3. Waiting(d)' = Waiting(d)
      BY <2>1, <3>2, StoredTimes, TypeSplit DEF CallInv, Waiting, streams
    <3>4. Forwarded(d)' <= Forwarded(d) + One(task = Msg("request", d))
      BY <1>4, <2>1, QueuedTimes DEF CallInv, ServerPublish
    <3>5. One(task = Msg("request", d)) = 0
      BY <3>1 DEF One
    <3>6. Tasked(d)' = 0
      BY <1>4, MsgType DEF ServerPublish, Tasked, One
    <3>7. Unsent(d)' = Unsent(d)
      BY <1>4, SameParts DEF CallInv, ServerPublish, calls
    <3> QED BY <1>s, <3>3, <3>4, <3>5, <3>6, <3>7 DEF PartsNat
  <2> QED BY <1>4, <2>2, RunsQuiet DEF ServerPublish
<1>5. CASE ServerCrash
  <2>1. \A d \in Call : Tasked(d)' = 0
    BY <1>5, MsgType DEF ServerCrash, Tasked, One
  <2> QED BY <1>5, <1>s, <2>1, SameParts, RunsQuiet
      DEF CallInv, PartsNat, ServerCrash, calls, hermes, counts
<1> QED BY <1>1, <1>2, <1>3, <1>4, <1>5 DEF RpcServer

LEMMA HopRuns ==
    ASSUME CallInv, TypeOK', KindsOK', Consumer \/ HopCrash \/ HopEnds
    PROVE  CallInv'
<1>s. PartsNat /\ PartsNat'
  BY PartsType, PartsTypeNext DEF CallInv
<1>1. CASE HopTake \/ HopEnds
  <2>1. \A d \in Call : Forwarded(d)' = Forwarded(d)
    BY <1>1 DEF HopTake, HopEnds, Forwarded, Pending
  <2> QED BY <1>1, <1>s, <2>1, SameParts, RunsQuiet
      DEF CallInv, PartsNat, HopTake, HopEnds, calls, serving, counts
<1>2. CASE HopForward /\ hop' \in {"synthesize", "ack"}
  <2>1. queue # <<>> /\ hop = "forward"
    BY <1>2 DEF CallInv, TypeOK, HopForward
  <2>2. /\ UNCHANGED <<queue, delivered, repeats, pc, task, handled>>
        /\ Stored(Head(queue)) \/ UNCHANGED streams
    BY <1>2 DEF HopForward, Refused, Redeliver, calls
  <2>3. Head(queue) \in Message /\ queue \in Seq(Message) /\ Tail(queue) \in Seq(Message)
    BY <2>1, HeadType, TypeSplit DEF CallInv
  <2>4. ASSUME NEW d \in Call
        PROVE  handled'[d] + Unsent(d)' + Waiting(d)' + Tasked(d)' + Forwarded(d)' + repeats[d]
                 <= handled[d] + Unsent(d) + Waiting(d) + Tasked(d) + Forwarded(d) + repeats'[d]
    <3> DEFINE x == Msg("request", d)
    <3>1. Waiting(d)' <= Waiting(d) + One(Head(queue) = x)
      BY <2>2, <2>3, StoredTimes, TypeSplit DEF CallInv
    <3>2. Times(queue, x) = Times(Tail(queue), x) + One(Head(queue) = x)
      BY <2>1, <2>3, TimesTail
    <3>3. Forwarded(d) = Times(queue, x) /\ Forwarded(d)' = Times(Tail(queue), x)
      BY <1>2, <2>1, <2>2 DEF Forwarded, Pending
    <3>4. Unsent(d)' = Unsent(d) /\ Tasked(d)' = Tasked(d)
      BY <2>2, SameParts DEF CallInv
    <3>5. One(Head(queue) = x) \in 0..1
      BY OneType
    <3> HIDE DEF x
    <3> QED BY <1>s, <2>2, <3>1, <3>2, <3>3, <3>4, <3>5 DEF PartsNat
  <2> QED BY <2>4, RunsKept
<1>3. CASE HopSynthesize
  <2>1. /\ Msg("answer", Head(queue).call) \in Message
        /\ Msg("answer", Head(queue).call).kind # "request"
    <3>1. queue # <<>>
      BY <1>3 DEF CallInv, TypeOK, HopSynthesize
    <3> QED BY <3>1, HeadType, TypeSplit, MsgType DEF CallInv
  <2>2. \A d \in Call : Waiting(d)' = Waiting(d)
    BY <1>3, <2>1, StoredTimes, TypeSplit
       DEF CallInv, HopSynthesize, Tried, Refused, streams, Waiting
  <2>3. \A d \in Call : Forwarded(d)' = Forwarded(d)
    BY <1>3 DEF HopSynthesize, Forwarded, Pending
  <2> QED BY <1>3, <1>s, <2>2, <2>3, SameParts, RunsQuiet
      DEF CallInv, PartsNat, HopSynthesize, calls
<1>4. CASE HopAck /\ queue' = Tail(queue) /\ hop' = "idle" /\ UNCHANGED repeats
  <2>1. \A d \in Call : Forwarded(d)' = Forwarded(d)
    BY <1>4 DEF HopAck, Forwarded, Pending
  <2> QED BY <1>4, <1>s, <2>1, SameParts, RunsQuiet
      DEF CallInv, PartsNat, HopAck, calls, serving
<1>5. CASE Redeliver /\ (HopCrash \/ HopAck \/ (HopForward /\ UNCHANGED streams))
  <2>1. /\ hop \in {"forward", "synthesize", "ack"}
        /\ UNCHANGED <<pc, requests, task, handled>>
    BY <1>5 DEF HopCrash, HopAck, HopForward, calls, serving, streams
  <2>2. ASSUME NEW d \in Call
        PROVE  handled'[d] + Unsent(d)' + Waiting(d)' + Tasked(d)' + Forwarded(d)' + repeats[d]
                 <= handled[d] + Unsent(d) + Waiting(d) + Tasked(d) + Forwarded(d) + repeats'[d]
    <3>1. Forwarded(d)' + repeats[d] <= Forwarded(d) + repeats'[d]
      BY <1>5, <2>1, RedeliverTimes DEF CallInv
    <3>2. Unsent(d)' = Unsent(d) /\ Tasked(d)' = Tasked(d) /\ Waiting(d)' = Waiting(d)
      BY <2>1, SameParts DEF CallInv
    <3> QED BY <1>s, <2>1, <3>1, <3>2 DEF PartsNat
  <2> QED BY <2>2, RunsKept
<1> QED BY <1>1, <1>2, <1>3, <1>4, <1>5 DEF Consumer, HopForward, HopAck, HopCrash

LEMMA RunsInit == Init => CallInv
<1> SUFFICES ASSUME Init PROVE CallInv
  OBVIOUS
<1>1. TypeOK /\ KindsOK
  BY TypeInit
<1>2. ASSUME NEW c \in Call
      PROVE  /\ handled[c] = 0 /\ repeats[c] = 0 /\ Unsent(c) <= 1 /\ Unsent(c) \in Nat
             /\ Waiting(c) = 0 /\ Tasked(c) = 0 /\ Forwarded(c) = 0
  BY TimesEmpty, MsgType DEF Init, Unsent, Waiting, Tasked, Forwarded, Pending, One
<1> QED BY <1>1, <1>2 DEF CallInv, RunsBounded

LEMMA RunsStep ==
    ASSUME CallInv, [Next]_vars
    PROVE  CallInv'
<1>1. TypeOK' /\ KindsOK'
  BY TypeStep DEF CallInv
<1>2. CASE UNCHANGED vars
  BY <1>1, <1>2, SameParts, RunsQuiet DEF CallInv, vars, calls, serving, hermes, counts
<1>3. ASSUME NEW c \in Call, RpcCallOf(c) PROVE CallInv'
  BY <1>1, <1>3, CallRuns
<1> QED BY <1>1, <1>2, <1>3, ReaderRuns, ServerRuns, HopRuns DEF Next

\* A handler runs once for a call, and again only for a request that an acknowledgement or
\* hermes made come twice: for any number of calls, faults and deliveries.
THEOREM HandlersRunOnce == Spec => []HandledOnce
<1>1. CallInv => HandledOnce
  <2> SUFFICES ASSUME CallInv, NEW c \in Call PROVE handled[c] <= 1 + repeats[c]
    BY DEF HandledOnce
  <2>1. PartsNat
    BY PartsType DEF CallInv
  <2> QED BY <2>1 DEF CallInv, RunsBounded, PartsNat
<1> QED BY <1>1, RunsInit, RunsStep, PTL DEF Spec
-----------------------------------------------------------------------------
(* The process dies of a late answer only *)

Holds(s, x) == \E i \in 1..Len(s) : s[i] = x

LEMMA HoldsAppend ==
    ASSUME NEW S, NEW s \in Seq(S), NEW y \in S, NEW x, Holds(Append(s, y), x)
    PROVE  Holds(s, x) \/ x = y
BY AppendProperties, LenProperties DEF Holds

LEMMA HoldsTail ==
    ASSUME NEW S, NEW s \in Seq(S), s # <<>>
    PROVE  /\ Holds(s, Head(s))
           /\ \A x : Holds(Tail(s), x) => Holds(s, x)
           /\ \A x : Holds(Append(Tail(s), Head(s)), x) => Holds(s, x)
<1>0. Tail(s) \in Seq(S) /\ Head(s) \in S
  BY HeadTailProperties
<1>1. /\ Len(s) \in Nat \ {0} /\ Len(Tail(s)) = Len(s) - 1 /\ Head(s) = s[1]
      /\ \A i \in 1..Len(Tail(s)) : Tail(s)[i] = s[i + 1]
  BY HeadTailProperties, LenProperties, EmptySeq
<1>2. Holds(s, Head(s)) /\ \A x : Holds(Tail(s), x) => Holds(s, x)
  BY <1>1 DEF Holds
<1>3. ASSUME NEW x, Holds(Append(Tail(s), Head(s)), x) PROVE Holds(s, x)
  <2>1. Holds(Tail(s), x) \/ x = Head(s)
    BY <1>0, <1>3, HoldsAppend
  <2> QED BY <1>2, <2>1
<1> QED BY <1>2, <1>3

\* A message of the call is somewhere.
Abroad(c) ==
    \/ Holds(requests, c)
    \/ \E k \in {"request", "answer"} :
         \/ Holds(queue, Msg(k, c)) \/ Holds(inbox, Msg(k, c))
         \/ task = Msg(k, c) \/ letter = Msg(k, c)

Silent(c) == pc[c] \in {"idle", "publish"} \/ result[c] = "failed"

\* Nothing is heard of a call that sent nothing or could not.
NothingHeard == \A c \in Call : Silent(c) => ~ Abroad(c)

\* A call has a result when its select is over.
ResultsOK == \A c \in Call : result[c] # "none" <=> pc[c] \in {"leave", "close", "done"}

Answer(c) == Msg("answer", c)

\* Every answer that was taken or waits was put into the inbox.
AnswersCounted ==
    \A c \in Call :
      One(result[c] = "answer") + Times(inbox, Answer(c)) + One(letter = Answer(c)) <= answers[c]

PanicInv ==
    /\ TypeOK /\ KindsOK
    /\ NothingHeard /\ ResultsOK /\ AnswersCounted /\ PanicNeedsLateAnswer

LEMMA AnswersNat ==
    TypeOK => \A c \in Call : /\ Times(inbox, Answer(c)) \in Nat /\ answers[c] \in Nat
                              /\ Answer(c) \in Message /\ Answer(c) # NoMsg
<1> SUFFICES ASSUME TypeOK, NEW c \in Call
             PROVE  /\ Times(inbox, Answer(c)) \in Nat /\ answers[c] \in Nat
                    /\ Answer(c) \in Message /\ Answer(c) # NoMsg
  OBVIOUS
<1>1. inbox \in Seq(Message) /\ answers[c] \in Nat
  BY DEF TypeOK
<1> QED BY <1>1, TimesType, MsgType DEF Answer

LEMMA AnswersNatNext ==
    TypeOK' => \A c \in Call : Times(inbox', Answer(c)) \in Nat /\ answers'[c] \in Nat
<1> SUFFICES ASSUME TypeOK', NEW c \in Call
             PROVE  Times(inbox', Answer(c)) \in Nat /\ answers'[c] \in Nat
  OBVIOUS
<1>1. inbox' \in Seq(Message) /\ answers'[c] \in Nat
  BY DEF TypeOK
<1> QED BY <1>1, TimesType

\* What a message adds where it is stored, and where it is queued.
LEMMA StoredAbroad ==
    ASSUME TypeOK, NEW m \in Message, Stored(m) \/ UNCHANGED streams, NEW c \in Call
    PROVE  /\ Holds(requests', c) => Holds(requests, c) \/ c = m.call
           /\ \A k \in {"request", "answer"} :
                Holds(inbox', Msg(k, c)) => Holds(inbox, Msg(k, c)) \/ c = m.call
<1>1. /\ requests \in Seq(Call) /\ inbox \in Seq(Message) /\ m.call \in Call
      /\ \A k \in {"request", "answer"} : Msg(k, c).call = c
  BY MessageParts, MsgType DEF TypeOK
<1>2. \/ requests' = requests
      \/ requests' = Append(requests, m.call)
  BY DEF Stored, streams
<1>3. \/ inbox' = inbox
      \/ inbox' = Append(inbox, m)
  BY DEF Stored, streams
<1>4. Holds(requests', c) => Holds(requests, c) \/ c = m.call
  BY <1>1, <1>2, HoldsAppend
<1>5. ASSUME NEW k \in {"request", "answer"}, Holds(inbox', Msg(k, c))
      PROVE  Holds(inbox, Msg(k, c)) \/ c = m.call
  <2>1. CASE inbox' = Append(inbox, m)
    <3>1. Holds(inbox, Msg(k, c)) \/ Msg(k, c) = m
      BY <1>1, <1>5, <2>1, HoldsAppend
    <3> QED BY <1>1, <3>1
  <2> QED BY <1>3, <1>5, <2>1
<1> QED BY <1>4, <1>5

LEMMA QueuedAbroad ==
    ASSUME TypeOK, NEW m \in Message, Queued(m) \/ UNCHANGED queue, NEW c \in Call,
           NEW k \in {"request", "answer"}, Holds(queue', Msg(k, c))
    PROVE  Holds(queue, Msg(k, c)) \/ c = m.call
<1>1. queue \in Seq(Message) /\ Msg(k, c).call = c
  BY MsgType DEF TypeOK
<1>2. CASE queue' = Append(queue, m)
  <2>1. Holds(queue, Msg(k, c)) \/ Msg(k, c) = m
    BY <1>1, <1>2, HoldsAppend
  <2> QED BY <1>1, <2>1
<1> QED BY <1>2 DEF Queued

LEMMA StoredAnswers ==
    ASSUME TypeOK, NEW m \in Message, Stored(m) \/ UNCHANGED streams, NEW c \in Call
    PROVE  /\ answers'[c] + Times(inbox, Answer(c)) = answers[c] + Times(inbox', Answer(c))
           /\ answers[c] <= answers'[c]
<1>1. /\ inbox \in Seq(Message) /\ answers \in [Call -> Nat]
      /\ Times(inbox, Answer(c)) \in Nat /\ answers[c] \in Nat
  BY AnswersNat DEF TypeOK
<1>2. CASE inbox' = Append(inbox, m) /\ answers' = Bump(answers, m.call) /\ m.kind = "answer"
  <2>1. Times(inbox', Answer(c)) = Times(inbox, Answer(c)) + One(m = Answer(c))
    BY <1>1, <1>2, TimesAppend
  <2>2. m.call \in Call /\ (m = Answer(c) <=> m.call = c)
    BY <1>2, MessageParts, MsgType DEF Answer
  <2>3. answers'[c] = answers[c] + One(m = Answer(c))
    <3>1. /\ Bump(answers, m.call)[m.call] = answers[m.call] + 1
          /\ \A e \in Call : e # m.call => Bump(answers, m.call)[e] = answers[e]
      BY <1>1, <2>2, BumpType
    <3> QED BY <1>1, <1>2, <2>2, <3>1 DEF One
  <2>4. One(m = Answer(c)) \in 0..1
    BY OneType
  <2> QED BY <1>1, <2>1, <2>3, <2>4
<1>3. CASE UNCHANGED <<inbox, answers>>
  BY <1>1, <1>3
<1> QED BY <1>2, <1>3, MessageParts DEF Stored, streams

\* A step that is not the calls' own.
LEMMA PanicElsewhere ==
    ASSUME PanicInv, TypeOK', KindsOK', UNCHANGED <<caller, calls>>,
           \A c \in Call : Abroad(c)' => Abroad(c),
           \A c \in Call :
             /\ answers[c] <= answers'[c]
             /\ Times(inbox', Answer(c)) + One(letter' = Answer(c)) + answers[c]
                  <= Times(inbox, Answer(c)) + One(letter = Answer(c)) + answers'[c]
    PROVE  PanicInv'
<1>1. NothingHeard' /\ ResultsOK'
  BY DEF PanicInv, NothingHeard, Silent, ResultsOK, calls
<1>2. ASSUME NEW c \in Call
      PROVE  One(result'[c] = "answer") + Times(inbox', Answer(c)) + One(letter' = Answer(c))
               <= answers'[c]
  <2>1. result' = result
    BY DEF calls
  <2>2. /\ Times(inbox, Answer(c)) \in Nat /\ answers[c] \in Nat
        /\ Times(inbox', Answer(c)) \in Nat /\ answers'[c] \in Nat
    BY AnswersNat, AnswersNatNext DEF PanicInv
  <2>3. /\ One(result[c] = "answer") \in 0..1 /\ One(letter = Answer(c)) \in 0..1
        /\ One(letter' = Answer(c)) \in 0..1
    BY OneType
  <2> QED BY <2>1, <2>2, <2>3 DEF PanicInv, AnswersCounted
<1>3. PanicNeedsLateAnswer'
  <2>1. \A c \in Call : answers[c] > 1 => answers'[c] > 1
    BY AnswersNat, AnswersNatNext DEF PanicInv
  <2>2. closed \subseteq Call
    BY DEF PanicInv, TypeOK
  <2> QED BY <2>1, <2>2 DEF PanicInv, PanicNeedsLateAnswer, calls
<1> QED BY <1>1, <1>2, <1>3 DEF PanicInv, AnswersCounted

LEMMA ReaderPanics ==
    ASSUME PanicInv, TypeOK', KindsOK', ReaderTake \/ ReaderLoad
    PROVE  PanicInv'
<1>1. CASE ReaderTake
  <2> DEFINE h == Head(inbox)
             t == Tail(inbox)
  <2>1. /\ inbox \in Seq(Message) /\ t \in Seq(Message) /\ h \in Message
        /\ \A x : Times(inbox, x) = Times(t, x) + One(h = x)
        /\ Holds(inbox, h) /\ \A x : Holds(t, x) => Holds(inbox, x)
        /\ \A x : Holds(Append(t, h), x) => Holds(inbox, x)
        /\ answers \in [Call -> Nat]
    <3>1. inbox \in Seq(Message) /\ inbox # <<>> /\ answers \in [Call -> Nat]
      BY <1>1 DEF PanicInv, TypeOK, ReaderTake
    <3> QED BY <3>1, TimesTail, HoldsTail
  <2> HIDE DEF h, t
  <2>2. /\ letter = NoMsg /\ letter' = h /\ h.kind = "answer" /\ h.call \in Call
        /\ UNCHANGED <<caller, calls, requests, queue, task>>
        /\ \/ inbox' = t /\ answers' = answers
           \/ inbox' = Append(t, h) /\ answers' = Bump(answers, h.call)
    BY <1>1, <2>1, MessageParts
       DEF PanicInv, TypeOK, KindsOK, ReaderTake, h, t, calls, serving, hermes
  <2>3. ASSUME NEW c \in Call, Abroad(c)' PROVE Abroad(c)
    <3>1. \A x : Holds(inbox', x) => Holds(inbox, x)
      BY <2>1, <2>2
    <3>2. \A k \in {"request", "answer"} : letter' = Msg(k, c) => Holds(inbox, Msg(k, c))
      BY <2>1, <2>2
    <3> QED BY <2>2, <2>3, <3>1, <3>2 DEF Abroad
  <2>4. ASSUME NEW c \in Call
        PROVE  /\ answers[c] <= answers'[c]
               /\ Times(inbox', Answer(c)) + One(letter' = Answer(c)) + answers[c]
                    <= Times(inbox, Answer(c)) + One(letter = Answer(c)) + answers'[c]
    <3>1. /\ Times(t, Answer(c)) \in Nat /\ One(h = Answer(c)) \in 0..1 /\ answers[c] \in Nat
          /\ Times(inbox, Answer(c)) = Times(t, Answer(c)) + One(h = Answer(c))
      BY <2>1, TimesType, OneType
    <3>2. One(letter = Answer(c)) = 0 /\ One(letter' = Answer(c)) = One(h = Answer(c))
      <4>1. Answer(c) # NoMsg
        BY MsgType DEF Answer
      <4> QED BY <2>2, <4>1 DEF One
    <3>3. CASE inbox' = t /\ answers' = answers
      BY <3>1, <3>2, <3>3
    <3>4. CASE inbox' = Append(t, h) /\ answers' = Bump(answers, h.call)
      <4>1. Times(inbox', Answer(c)) = Times(t, Answer(c)) + One(h = Answer(c))
        BY <2>1, <3>4, TimesAppend
      <4>2. h = Answer(c) <=> h.call = c
        BY <2>1, <2>2, MessageParts, MsgType DEF Answer
      <4>3. answers'[c] = answers[c] + One(h = Answer(c))
        <5>1. /\ Bump(answers, h.call)[h.call] = answers[h.call] + 1
              /\ \A e \in Call : e # h.call => Bump(answers, h.call)[e] = answers[e]
          BY <2>1, <2>2, BumpType
        <5> QED BY <2>1, <3>1, <3>4, <4>2, <5>1 DEF One
      <4> QED BY <3>1, <3>2, <4>1, <4>3
    <3> QED BY <2>2, <3>3, <3>4
  <2> QED BY <2>2, <2>3, <2>4, PanicElsewhere
<1>2. CASE ReaderLoad
  <2>1. /\ letter' \in {letter, NoMsg}
        /\ UNCHANGED <<caller, calls, inbox, answers, requests, queue, task>>
    BY <1>2 DEF ReaderLoad, serving, hermes, counts
  <2>2. ASSUME NEW c \in Call, Abroad(c)' PROVE Abroad(c)
    BY <2>1, <2>2, MsgType DEF Abroad
  <2>3. ASSUME NEW c \in Call
        PROVE  /\ answers[c] <= answers'[c]
               /\ Times(inbox', Answer(c)) + One(letter' = Answer(c)) + answers[c]
                    <= Times(inbox, Answer(c)) + One(letter = Answer(c)) + answers'[c]
    <3>1. Times(inbox, Answer(c)) \in Nat /\ answers[c] \in Nat /\ Answer(c) # NoMsg
      BY AnswersNat DEF PanicInv
    <3>2. One(letter' = Answer(c)) <= One(letter = Answer(c)) /\ One(letter = Answer(c)) \in 0..1
          /\ One(letter' = Answer(c)) \in 0..1
      BY <2>1, <3>1 DEF One
    <3> QED BY <2>1, <3>1, <3>2
  <2> QED BY <2>1, <2>2, <2>3, PanicElsewhere
<1> QED BY <1>1, <1>2

\* A step of the server or of hermes, which puts an answer of a call into the inbox at most.
LEMMA PanicServing ==
    ASSUME PanicInv, TypeOK', KindsOK', UNCHANGED <<caller, calls, letter>>,
           UNCHANGED <<inbox, answers>>
             \/ \E m \in Message : Stored(m) \/ UNCHANGED streams,
           \A c \in Call : Abroad(c)' => Abroad(c)
    PROVE  PanicInv'
<1>1. ASSUME NEW c \in Call
      PROVE  /\ answers[c] <= answers'[c]
             /\ Times(inbox', Answer(c)) + One(letter' = Answer(c)) + answers[c]
                  <= Times(inbox, Answer(c)) + One(letter = Answer(c)) + answers'[c]
  <2>1. /\ Times(inbox, Answer(c)) \in Nat /\ answers[c] \in Nat
        /\ Times(inbox', Answer(c)) \in Nat /\ answers'[c] \in Nat
        /\ One(letter = Answer(c)) \in 0..1
    BY AnswersNat, AnswersNatNext, OneType DEF PanicInv
  <2>2. CASE UNCHANGED <<inbox, answers>>
    BY <2>1, <2>2
  <2>3. CASE \E m \in Message : Stored(m) \/ UNCHANGED streams
    <3>1. /\ answers'[c] + Times(inbox, Answer(c)) = answers[c] + Times(inbox', Answer(c))
          /\ answers[c] <= answers'[c]
      BY <2>3, StoredAnswers DEF PanicInv
    <3>2. letter' = letter
      OBVIOUS
    <3> QED BY <2>1, <3>1, <3>2
  <2> QED BY <2>2, <2>3
<1> QED BY <1>1, PanicElsewhere

LEMMA ServerPanics ==
    ASSUME PanicInv, TypeOK', KindsOK', RpcServer \/ ServerCrash
    PROVE  PanicInv'
<1>1. CASE ServerStart \/ ServerCrash
  <2>1. /\ task' \in {task, NoMsg}
        /\ UNCHANGED <<caller, calls, letter, inbox, answers, requests, queue>>
    BY <1>1 DEF ServerStart, ServerCrash, mail, hermes, counts
  <2>2. ASSUME NEW c \in Call, Abroad(c)' PROVE Abroad(c)
    BY <2>1, <2>2, MsgType DEF Abroad
  <2> QED BY <2>1, <2>2, PanicServing
<1>2. CASE ServerTake
  <2>1. /\ requests \in Seq(Call) /\ Tail(requests) \in Seq(Call) /\ Head(requests) \in Call
        /\ Holds(requests, Head(requests))
        /\ \A x : Holds(Tail(requests), x) => Holds(requests, x)
        /\ \A x : Holds(Append(Tail(requests), Head(requests)), x) => Holds(requests, x)
    <3>1. requests \in Seq(Call) /\ requests # <<>>
      BY <1>2 DEF PanicInv, TypeOK, ServerTake
    <3> QED BY <3>1, TimesTail, HoldsTail
  <2>2. /\ task' = Msg("request", Head(requests))
        /\ UNCHANGED <<caller, calls, letter, inbox, answers, queue>>
        /\ requests' \in {Tail(requests), Append(Tail(requests), Head(requests))}
    BY <1>2 DEF ServerTake, mail, hermes
  <2>3. \A x : Holds(requests', x) => Holds(requests, x)
    BY <2>1, <2>2
  <2>4. ASSUME NEW c \in Call, Abroad(c)' PROVE Abroad(c)
    <3>1. \A k \in {"request", "answer"} : task' = Msg(k, c) => Holds(requests, c)
      BY <2>1, <2>2, MsgType
    <3> QED BY <2>2, <2>3, <2>4, <3>1 DEF Abroad
  <2> QED BY <2>2, <2>4, PanicServing
<1>3. CASE ServerHandle
  <2>1. /\ task' = Msg("answer", task.call) /\ task \in Message
        /\ UNCHANGED <<caller, calls, letter, inbox, answers, requests, queue>>
    BY <1>3 DEF PanicInv, TypeOK, ServerHandle, mail, hermes
  <2>2. ASSUME NEW c \in Call, Abroad(c)' PROVE Abroad(c)
    <3>1. ASSUME NEW k \in {"request", "answer"}, task' = Msg(k, c) PROVE Abroad(c)
      <4>1. task.call = c /\ task = Msg(task.kind, c) /\ task.kind \in {"request", "answer"}
        BY <2>1, <3>1, MessageParts, MsgType
      <4> QED BY <4>1 DEF Abroad
    <3> QED BY <2>1, <2>2, <3>1 DEF Abroad
  <2> QED BY <2>1, <2>2, PanicServing
<1>4. CASE ServerPublish
  <2>1. /\ task \in Message /\ task' = NoMsg /\ UNCHANGED <<caller, calls, letter>>
        /\ Stored(task) \/ UNCHANGED streams
        /\ Queued(task) \/ UNCHANGED queue
    BY <1>4 DEF PanicInv, TypeOK, ServerPublish, Tried, Refused
  <2>2. ASSUME NEW c \in Call, Abroad(c)' PROVE Abroad(c)
    <3>1. task.call = c => Abroad(c)
      BY <2>1, MessageParts DEF Abroad
    <3>2. Holds(requests', c) => Holds(requests, c) \/ c = task.call
      BY <2>1, StoredAbroad DEF PanicInv
    <3>3. \A k \in {"request", "answer"} :
            /\ Holds(inbox', Msg(k, c)) => Holds(inbox, Msg(k, c)) \/ c = task.call
            /\ Holds(queue', Msg(k, c)) => Holds(queue, Msg(k, c)) \/ c = task.call
      BY <2>1, StoredAbroad, QueuedAbroad DEF PanicInv
    <3>4. \A k \in {"request", "answer"} : task' # Msg(k, c)
      BY <2>1, MsgType
    <3> QED BY <2>1, <2>2, <3>1, <3>2, <3>3, <3>4 DEF Abroad
  <2> QED BY <2>1, <2>2, PanicServing
<1> QED BY <1>1, <1>2, <1>3, <1>4 DEF RpcServer

LEMMA HopPanics ==
    ASSUME PanicInv, TypeOK', KindsOK', Consumer \/ HopCrash \/ HopEnds
    PROVE  PanicInv'
<1>1. CASE HopTake \/ HopEnds
  <2>1. UNCHANGED <<caller, calls, letter, inbox, answers, requests, queue, task>>
    BY <1>1 DEF HopTake, HopEnds, mail, serving, counts
  <2>2. ASSUME NEW c \in Call, Abroad(c)' PROVE Abroad(c)
    BY <2>1, <2>2 DEF Abroad
  <2> QED BY <2>1, <2>2, PanicServing
<1>2. CASE HopForward \/ HopSynthesize \/ HopAck \/ HopCrash
  <2> DEFINE h == Head(queue)
             t == Tail(queue)
  <2>0. queue # <<>> /\ queue \in Seq(Message)
    BY <1>2 DEF PanicInv, TypeOK, HopForward, HopSynthesize, HopAck, HopCrash
  <2>1. /\ h \in Message /\ t \in Seq(Message)
        /\ Holds(queue, h) /\ \A x : Holds(t, x) => Holds(queue, x)
        /\ \A x : Holds(Append(t, h), x) => Holds(queue, x)
    BY <2>0, TimesTail, HoldsTail
  <2>2. queue' \in {queue, t, Append(t, h)} /\ UNCHANGED <<caller, calls, letter, task>>
    BY <1>2 DEF HopForward, HopSynthesize, HopAck, HopCrash, Redeliver, mail, serving
  <2>3. PICK m \in Message : m.call = h.call /\ (Stored(m) \/ UNCHANGED streams)
    <3>1. Msg("answer", h.call) \in Message /\ Msg("answer", h.call).call = h.call
      BY <2>1, MessageParts, MsgType
    <3>2. CASE HopForward
      BY <2>1, <3>2 DEF HopForward, Refused
    <3>3. CASE HopSynthesize
      BY <3>1, <3>3 DEF HopSynthesize, Tried, Refused
    <3>4. CASE HopAck \/ HopCrash
      BY <2>1, <3>4 DEF HopAck, HopCrash, streams, mail, serving
    <3> QED BY <1>2, <3>2, <3>3, <3>4
  <2> HIDE DEF h, t
  <2>4. \A x : Holds(queue', x) => Holds(queue, x)
    BY <2>1, <2>2
  <2>5. ASSUME NEW c \in Call, Abroad(c)' PROVE Abroad(c)
    <3>1. h.call = c => Abroad(c)
      BY <2>1, MessageParts DEF Abroad
    <3>2. Holds(requests', c) => Holds(requests, c) \/ c = h.call
      BY <2>3, StoredAbroad DEF PanicInv
    <3>3. \A k \in {"request", "answer"} :
            Holds(inbox', Msg(k, c)) => Holds(inbox, Msg(k, c)) \/ c = h.call
      BY <2>3, StoredAbroad DEF PanicInv
    <3> QED BY <2>2, <2>4, <2>5, <3>1, <3>2, <3>3 DEF Abroad
  <2> QED BY <2>2, <2>3, <2>5, PanicServing
<1> QED BY <1>1, <1>2 DEF Consumer

\* The steps of a call.  What it says of itself, what it does to the answers, and why a send
\* on its closed channel was a late answer.
LEMMA CallPanics ==
    ASSUME PanicInv, TypeOK', KindsOK', NEW c \in Call, RpcCallOf(c)
    PROVE  PanicInv'
<1>t. /\ pc \in [Call -> Places] /\ result \in [Call -> {"none", "answer", "timeout", "failed"}]
      /\ closed \subseteq Call
  BY DEF PanicInv, TypeOK, Places
<1>g. \A p \in Places : Goto(c, p) => /\ pc'[c] = p
                                      /\ \A d \in Call : d # c => pc'[d] = pc[d]
  BY <1>t DEF Goto
<1>l. \A r \in {"answer", "timeout", "failed"} :
        Leave(c, r) => /\ pc'[c] = "leave" /\ result'[c] = r
                       /\ \A d \in Call : d # c => pc'[d] = pc[d] /\ result'[d] = result[d]
  BY <1>t DEF Leave, Goto
<1>1. \A d \in Call : d # c => pc'[d] = pc[d] /\ result'[d] = result[d]
  BY <1>g, <1>l DEF RpcCallOf, Register, PublishRequest, Synthesize, QueueRequest, Receive, TimeOut,
     RemoveCorrelation, CloseCallback, Places
<1>2. \/ pc[c] \notin {"leave", "close", "done"} /\ result'[c] = result[c]
           /\ pc'[c] \notin {"leave", "close", "done"}
      \/ pc[c] \notin {"leave", "close", "done"} /\ result'[c] # "none" /\ pc'[c] = "leave"
      \/ pc[c] \in {"leave", "close"} /\ result' = result /\ pc'[c] \in {"close", "done"}
  BY <1>g, <1>l DEF RpcCallOf, Register, PublishRequest, Synthesize, QueueRequest, Receive, TimeOut,
     RemoveCorrelation, CloseCallback, Places
<1>3. ResultsOK'
  BY <1>1, <1>2 DEF PanicInv, ResultsOK
<1>4. \A d \in Call : Silent(d)' => Silent(d)
  <2>1. Silent(c)' => Silent(c)
    BY <1>g, <1>l DEF RpcCallOf, Register, PublishRequest, Synthesize, QueueRequest, Receive,
       TimeOut, RemoveCorrelation, CloseCallback, Places, Silent
  <2> QED BY <1>1, <2>1 DEF Silent
<1>5. \/ UNCHANGED <<queue, streams>>
      \/ ~ Silent(c)' /\ \E m \in Message : m.call = c /\ (Stored(m) \/ UNCHANGED streams)
                                                      /\ (Queued(m) \/ UNCHANGED queue)
  <2>1. \A k \in {"request", "answer"} : Msg(k, c) \in Message /\ Msg(k, c).call = c
    BY MsgType
  <2>2. CASE PublishRequest(c) \/ Synthesize(c)
    <3>1. pc'[c] \in {"wait", "synthesize"}
      BY <1>g, <2>2 DEF PublishRequest, Synthesize, Places
    <3>2. result'[c] # "failed"
      BY <1>2, <2>2, <3>1 DEF PanicInv, ResultsOK, PublishRequest, Synthesize
    <3> QED BY <2>1, <2>2, <3>1, <3>2 DEF PublishRequest, Synthesize, Tried, Refused, hermes, Silent
  <2>3. CASE QueueRequest(c) /\ Queued(Msg("request", c)) /\ Goto(c, "wait") /\ UNCHANGED result
    <3>1. pc'[c] = "wait" /\ result'[c] # "failed"
      BY <1>g, <2>3 DEF PanicInv, ResultsOK, QueueRequest, Places
    <3> QED BY <2>1, <2>3, <3>1 DEF QueueRequest, mail, serving, counts, streams, Silent
  <2>4. CASE QueueRequest(c) /\ UNCHANGED queue
    BY <2>4 DEF QueueRequest, mail, serving, counts, streams
  <2>5. CASE Register(c) \/ Receive(c) \/ TimeOut(c) \/ RemoveCorrelation(c) \/ CloseCallback(c)
    BY <2>5 DEF Register, Receive, TimeOut, RemoveCorrelation, CloseCallback, mail, serving, hermes,
       counts, streams
  <2> QED BY <2>2, <2>3, <2>4, <2>5 DEF RpcCallOf, QueueRequest
<1>6. task' = task /\ letter' \in {letter, NoMsg}
  BY DEF RpcCallOf, Register, PublishRequest, Synthesize, QueueRequest, Receive, TimeOut,
     RemoveCorrelation, CloseCallback, mail, serving
<1>7. ASSUME NEW d \in Call, Silent(d)', Abroad(d)' PROVE Abroad(d)
  <2>1. \A k \in {"request", "answer"} : letter' = Msg(k, d) => letter = Msg(k, d)
    BY <1>6, MsgType
  <2>2. CASE UNCHANGED <<queue, streams>>
    BY <1>6, <1>7, <2>1, <2>2 DEF Abroad, streams
  <2>3. CASE ~ Silent(c)'
    <3>1. d # c
      BY <1>7, <2>3 DEF Silent
    <3> QED BY <1>5, <1>6, <1>7, <2>1, <2>2, <3>1, StoredAbroad, QueuedAbroad DEF PanicInv, Abroad
  <2> QED BY <1>5, <2>2, <2>3
<1>8. NothingHeard'
  BY <1>4, <1>7 DEF PanicInv, NothingHeard
<1>9. \A d \in Call :
        /\ answers'[d] + Times(inbox, Answer(d)) = answers[d] + Times(inbox', Answer(d))
        /\ answers[d] <= answers'[d]
  <2>1. CASE UNCHANGED streams
    BY <2>1, AnswersNat DEF PanicInv, streams
  <2> QED BY <1>5, <2>1, StoredAnswers DEF PanicInv
<1>10. ASSUME NEW d \in Call
       PROVE  One(result'[d] = "answer") + Times(inbox', Answer(d)) + One(letter' = Answer(d))
                <= answers'[d]
  <2>1. /\ Times(inbox, Answer(d)) \in Nat /\ answers[d] \in Nat /\ Answer(d) # NoMsg
        /\ Times(inbox', Answer(d)) \in Nat /\ answers'[d] \in Nat
        /\ One(result[d] = "answer") \in 0..1 /\ One(letter = Answer(d)) \in 0..1
    BY AnswersNat, AnswersNatNext, OneType DEF PanicInv
  <2>2. One(result'[d] = "answer") + One(letter' = Answer(d))
          <= One(result[d] = "answer") + One(letter = Answer(d))
    <3>1. CASE Receive(c) /\ d = c
      <4>1. letter # NoMsg /\ letter \in Message /\ letter.kind = "answer" /\ letter.call = c
        BY <3>1 DEF PanicInv, TypeOK, KindsOK, Receive
      <4>2. letter = Answer(c) /\ letter' = NoMsg
        BY <3>1, <4>1, MessageParts DEF Receive, Answer
      <4> QED BY <2>1, <3>1, <4>2 DEF One
    <3>2. CASE ~ (Receive(c) /\ d = c)
      <4>1. result'[d] = "answer" => result[d] = "answer"
        BY <1>1, <1>l, <3>2 DEF RpcCallOf, Register, PublishRequest, Synthesize, QueueRequest,
           TimeOut, RemoveCorrelation, CloseCallback
      <4>2. One(result'[d] = "answer") <= One(result[d] = "answer")
        BY <4>1 DEF One
      <4>3. One(letter' = Answer(d)) <= One(letter = Answer(d))
        BY <1>6, <2>1 DEF One
      <4> QED BY <2>1, <4>2, <4>3, OneType
    <3> QED BY <3>1, <3>2
  <2>3. One(result'[d] = "answer") \in 0..1 /\ One(letter' = Answer(d)) \in 0..1
    BY OneType
  <2> QED BY <1>9, <2>1, <2>2, <2>3 DEF PanicInv, AnswersCounted
<1>11. PanicNeedsLateAnswer'
  <2>1. SUFFICES ASSUME caller' = "dead"
                 PROVE  c \in closed' /\ (result'[c] = "timeout" \/ answers'[c] > 1)
    BY DEF PanicNeedsLateAnswer
  <2>2. /\ pc[c] = "close" /\ reader = "send" /\ letter.call = c /\ c \in closed'
        /\ result' = result /\ answers' = answers
    BY <2>1 DEF RpcCallOf, Register, PublishRequest, Synthesize, QueueRequest, Receive, TimeOut,
       RemoveCorrelation, CloseCallback, counts
  <2>3. letter \in Message /\ letter = Answer(c)
    <3>1. letter \in Message /\ letter.kind = "answer"
      BY <2>2 DEF PanicInv, TypeOK, KindsOK
    <3> QED BY <2>2, <3>1, MessageParts DEF Answer
  <2>4. result[c] # "failed" /\ result[c] # "none"
    <3>1. Abroad(c)
      BY <2>3 DEF Abroad, Answer
    <3> QED BY <2>2, <3>1 DEF PanicInv, NothingHeard, ResultsOK, Silent
  <2>5. CASE result[c] = "answer"
    <3>1. One(result[c] = "answer") = 1 /\ One(letter = Answer(c)) = 1
      BY <2>3, <2>5 DEF One
    <3> QED BY <2>2, <3>1, AnswersNat DEF PanicInv, AnswersCounted
  <2> QED BY <1>t, <2>2, <2>4, <2>5
<1> QED BY <1>3, <1>8, <1>10, <1>11 DEF PanicInv, AnswersCounted

LEMMA PanicInit == Init => PanicInv
<1> SUFFICES ASSUME Init PROVE PanicInv
  OBVIOUS
<1>1. TypeOK /\ KindsOK
  BY TypeInit
<1>2. Len(requests) = 0 /\ Len(queue) = 0 /\ Len(inbox) = 0
  BY EmptySeq DEF Init
<1>3. NothingHeard
  <2> SUFFICES ASSUME NEW c \in Call PROVE ~ Abroad(c)
    BY DEF NothingHeard
  <2> QED BY <1>2, MsgType DEF Init, Abroad, Holds
<1>4. ASSUME NEW c \in Call
      PROVE  One(result[c] = "answer") + Times(inbox, Answer(c)) + One(letter = Answer(c))
               <= answers[c]
  <2>1. One(result[c] = "answer") = 0 /\ One(letter = Answer(c)) = 0
    BY MsgType DEF Init, One, Answer
  <2>2. Times(inbox, Answer(c)) = 0 /\ answers[c] = 0
    BY TimesEmpty DEF Init
  <2> QED BY <2>1, <2>2
<1> QED BY <1>1, <1>3, <1>4 DEF Init, PanicInv, ResultsOK, AnswersCounted, PanicNeedsLateAnswer

LEMMA PanicStep ==
    ASSUME PanicInv, [Next]_vars
    PROVE  PanicInv'
<1>1. TypeOK' /\ KindsOK'
  BY TypeStep DEF PanicInv
<1>2. CASE UNCHANGED vars
  <2>1. UNCHANGED <<caller, calls, letter, inbox, answers, requests, queue, task>>
    BY <1>2 DEF vars, calls, mail, serving, hermes, counts
  <2>2. \A c \in Call : Abroad(c)' => Abroad(c)
    BY <2>1 DEF Abroad
  <2> QED BY <1>1, <2>1, <2>2, PanicServing
<1>3. ASSUME NEW c \in Call, RpcCallOf(c) PROVE PanicInv'
  BY <1>1, <1>3, CallPanics
<1> QED BY <1>1, <1>2, <1>3, ReaderPanics, ServerPanics, HopPanics DEF Next

\* The client process dies of a send on a closed channel only when its call had timed out or
\* more than one answer to it had come, never by a publishing error alone: for any number of
\* calls, faults and deliveries.
THEOREM OnlyLateAnswersPanic == Spec => []PanicNeedsLateAnswer
<1>1. PanicInv => PanicNeedsLateAnswer
  BY DEF PanicInv
<1> QED BY <1>1, PanicInit, PanicStep, PTL DEF Spec
=============================================================================
