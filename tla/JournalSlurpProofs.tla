------------------------- MODULE JournalSlurpProofs -------------------------
(***************************************************************************)
(* Theorems about JournalSlurp, for any number of services, runs, lines    *)
(* and failures, and any capacity of the channels.                         *)
(***************************************************************************)
EXTENDS JournalSlurp, SequenceTheorems, TLAPS

(* The invariants *)

\* A CurrentSlurp was started, for its service; a ProcessUid not yet drawn has no
\* publisher.
SlurpsOK ==
    /\ \A s \in Service : current[s] # NoUid => current[s] \in started /\ service[current[s]] = s
    /\ \A u \in Uid : service[u] = NoUid => pub[u] = "none"

TypeInv == TypeOK /\ SlurpsOK
LiveInv == TypeInv /\ LiveIsCurrent
-----------------------------------------------------------------------------
(* Type correctness *)

LEMMA TypeInit == Init => TypeInv
<1> SUFFICES ASSUME Init PROVE TypeInv
  OBVIOUS
<1>1. <<>> \in Seq(Line) /\ <<>> \in Seq(Nat) /\ Len(<<>>) = 0 /\ 0 <= ChanSize
  BY EmptySeq, SlurpAssumption
<1>2. TypeOK
  BY <1>1 DEF Init, TypeOK
<1>3. SlurpsOK
  BY DEF Init, SlurpsOK
<1> QED BY <1>2, <1>3 DEF TypeInv

\* The line at the head of the journal, and what is left of it.
LEMMA JournalHead ==
    ASSUME TypeOK, journal # <<>>
    PROVE  /\ Head(journal) \in Line /\ Head(journal).service \in Service
           /\ Head(journal).n \in Nat /\ Tail(journal) \in Seq(Line)
<1>1. journal \in Seq(Line)
  BY DEF TypeOK
<1>2. Head(journal) \in Line /\ Tail(journal) \in Seq(Line)
  BY <1>1, HeadTailProperties
<1> QED BY <1>2 DEF Line

LEMMA PidType ==
    ASSUME TypeOK, NEW s \in Service
    PROVE  MainPid(s) \in Nat /\ BadPid \in Nat
BY SlurpAssumption DEF TypeOK, MainPid, BadPid

LEMMA FaultsType ==
    ASSUME TypeOK, NEW k, Fails(k) \/ faults' = faults
    PROVE  faults' \in Nat
BY DEF TypeOK, Fails

\* The effect of StartProcessRunSlurp and StartFails on the slurps and the services.
SlurpTypeOK ==
    /\ current \in [Service -> Uid \cup {NoUid}]
    /\ service \in [Uid -> Service \cup {NoUid}] /\ watched \in [Uid -> Nat]
    /\ watching \subseteq Uid /\ cancelled \subseteq Uid /\ started \subseteq Uid
    /\ pub \in [Uid -> {"none", "running", "ended"}]
    /\ faults \in Nat

LEMMA CurrentType ==
    ASSUME TypeOK, NEW s \in Service
    PROVE  Current(s) \subseteq Uid
BY DEF TypeOK, Current

LEMMA StartType ==
    ASSUME TypeInv, NEW s \in Service, NEW U \in SUBSET Uid, StartProcessRunSlurp(s, U)
    PROVE  SlurpTypeOK' /\ SlurpsOK' /\ current'[s] \in started'
<1>1. PICK u \in {v \in Uid : service[v] = NoUid} :
        /\ service' = [service EXCEPT ![u] = s]
        /\ current' = [current EXCEPT ![s] = u]
        /\ started' = started \cup {u}
        /\ watching' = watching \cup {u}
        /\ pub' = [pub EXCEPT ![u] = "running"]
        /\ cancelled' = cancelled \cup U \cup (IF stopped THEN {u} ELSE {})
        /\ \/ watched' = [watched EXCEPT ![u] = MainPid(s)] /\ UNCHANGED faults
           \/ watched' = [watched EXCEPT ![u] = BadPid] /\ Fails("pid")
  BY DEF StartProcessRunSlurp
<1>2. SlurpTypeOK'
  <2>1. faults' \in Nat
    BY <1>1, FaultsType DEF TypeInv
  <2>2. watched' \in [Uid -> Nat]
    BY <1>1, PidType DEF TypeInv, TypeOK
  <2> QED BY <1>1, <2>1, <2>2 DEF TypeInv, TypeOK, SlurpTypeOK
<1>3. SlurpsOK'
  <2>1. ASSUME NEW r \in Service, current'[r] # NoUid
        PROVE  current'[r] \in started' /\ service'[current'[r]] = r
    BY <1>1, <2>1, SlurpAssumption DEF TypeInv, TypeOK, SlurpsOK
  <2>2. ASSUME NEW v \in Uid, service'[v] = NoUid
        PROVE  pub'[v] = "none"
    BY <1>1, <2>2, SlurpAssumption DEF TypeInv, TypeOK, SlurpsOK
  <2> QED BY <2>1, <2>2 DEF SlurpsOK
<1> QED BY <1>1, <1>2, <1>3 DEF TypeInv, TypeOK

LEMMA StartFailsType ==
    ASSUME TypeInv, NEW s \in Service, NEW U \in SUBSET Uid, StartFails(s, U)
    PROVE  SlurpTypeOK' /\ SlurpsOK'
<1>1. faults' \in Nat
  BY FaultsType DEF TypeInv, StartFails
<1>2. SlurpTypeOK'
  BY <1>1 DEF TypeInv, TypeOK, StartFails, SlurpTypeOK
<1> QED BY <1>2 DEF TypeInv, TypeOK, StartFails, SlurpsOK

\* What is logged goes to the end of the journal, if anyone reads it.
LEMMA LogType ==
    ASSUME TypeOK, NEW s \in Service, NEW k \in {"app", "start", "end"}, Log(s, k)
    PROVE  lines' \in Nat /\ journal' \in Seq(Line)
<1>1. [service |-> s, kind |-> k, n |-> lines + 1] \in Line
  BY DEF TypeOK, Line
<1> QED BY <1>1, AppendProperties DEF TypeOK, Log

LEMMA StreamWriteType ==
    ASSUME TypeOK, NEW u \in Uid, StreamWrite(u)
    PROVE  written' \in [Uid -> Seq(Nat)] /\ faults' \in Nat
<1>1. written[u] \o buffers[u] \in Seq(Nat)
  BY ConcatProperties DEF TypeOK
<1>2. written \in [Uid -> Seq(Nat)]
  BY DEF TypeOK
<1>3. written' \in [Uid -> Seq(Nat)]
  BY <1>1, <1>2 DEF StreamWrite
<1>4. faults' \in Nat
  BY FaultsType DEF StreamWrite, TypeOK
<1> QED BY <1>3, <1>4
-----------------------------------------------------------------------------
LEMMA SystemdType ==
    ASSUME TypeInv, NEW s \in Service,
           Launch(s) \/ LogStarted(s) \/ LogApp(s) \/ MainProcessEnds(s) \/ LogEnd(s)
    PROVE  TypeInv'
<1>1. unit' \in [Service -> {"down", "starting", "up", "dying"}] /\ launches' \in [Service -> Nat]
  <2>1. CASE Launch(s)
    BY <2>1 DEF TypeInv, TypeOK, Launch
  <2>2. CASE LogStarted(s)
    BY <2>2 DEF TypeInv, TypeOK, LogStarted
  <2>3. CASE LogApp(s) \/ MainProcessEnds(s) \/ LogEnd(s)
    BY <2>3 DEF TypeInv, TypeOK, LogApp, MainProcessEnds, LogEnd
  <2> QED BY <2>1, <2>2, <2>3
<1>2. lines' \in Nat /\ journal' \in Seq(Line)
  BY LogType DEF TypeInv, TypeOK, Launch, LogStarted, LogApp, MainProcessEnds, LogEnd
<1>3. NothingOfMinion
  BY DEF Launch, LogStarted, LogApp, MainProcessEnds, LogEnd
<1> QED BY <1>1, <1>2, <1>3 DEF TypeInv, TypeOK, SlurpsOK, NothingOfMinion, goroutines

LEMMA ReadType ==
    ASSUME TypeInv, ReadLine
    PROVE  TypeInv'
<1> DEFINE s == Head(journal).service
<1> USE DEF TypeInv, systemd, goroutines
<1>0. journal # <<>>
  BY DEF ReadLine, ReadIgnored, ReadApp, ReadFirstApp, ReadStart, ReadEnd, Reads
<1>1. Head(journal) \in Line /\ s \in Service /\ Tail(journal) \in Seq(Line)
  BY <1>0, JournalHead
<1>2. Current(s) \in SUBSET Uid /\ {} \in SUBSET Uid
  BY <1>1, CurrentType
<1>3. CASE ReadIgnored
  BY <1>1, <1>3 DEF ReadIgnored, NothingOfMinion, TypeOK, SlurpsOK
<1>4. CASE ReadApp
  BY <1>1, <1>4 DEF ReadApp, TypeOK, SlurpsOK
<1>5. CASE ReadFirstApp
  <2>1. SlurpTypeOK' /\ SlurpsOK'
    BY <1>1, <1>2, <1>5, StartType, StartFailsType DEF ReadFirstApp
  <2>2. reader' = "sending" => hand' \in Line /\ current'[hand'.service] \in started'
    BY <1>1, <1>2, <1>5, StartType DEF ReadFirstApp, Reads
  <2> QED BY <1>1, <1>5, <2>1, <2>2 DEF ReadFirstApp, Reads, TypeOK, SlurpTypeOK
<1>6. CASE ReadStart
  <2>1. SlurpTypeOK' /\ SlurpsOK'
    BY <1>1, <1>2, <1>6, StartType, StartFailsType DEF ReadStart
  <2>2. reader' = "reading" /\ hand' = hand /\ shut' \subseteq Uid
    BY <1>2, <1>6 DEF ReadStart, Reads, Shutdown, TypeOK
  <2> QED BY <1>1, <1>6, <2>1, <2>2 DEF ReadStart, TypeOK, SlurpTypeOK
<1>7. CASE ReadEnd
  <2>1. shut' \subseteq Uid /\ cancelled' \subseteq Uid /\ reader' = "reading"
    BY <1>2, <1>7 DEF ReadEnd, Reads, Shutdown, TypeOK
  <2> QED BY <1>1, <1>7, <2>1 DEF ReadEnd, TypeOK, SlurpsOK
<1> QED BY <1>3, <1>4, <1>5, <1>6, <1>7 DEF ReadLine

LEMMA SendLineType ==
    ASSUME TypeInv, SendLine
    PROVE  TypeInv'
<1> DEFINE u == current[hand.service]
<1>1. u \in Uid /\ hand.n \in Nat /\ chan[u] \in Seq(Nat)
  BY DEF SendLine, TypeInv, TypeOK, Line
<1>2. Append(chan[u], hand.n) \in Seq(Nat) /\ Len(Append(chan[u], hand.n)) <= ChanSize
  BY <1>1, AppendProperties, LenProperties, SlurpAssumption DEF SendLine
<1> QED BY <1>1, <1>2 DEF SendLine, TypeInv, TypeOK, SlurpsOK, systemd

LEMMA AppendNat ==
    ASSUME NEW s \in Seq(Nat), NEW n \in Nat
    PROVE  Append(s, n) \in Seq(Nat)
BY AppendProperties

LEMMA PublisherType ==
    ASSUME TypeInv, NEW u \in Uid, Publisher(u)
    PROVE  TypeInv'
<1> USE DEF TypeInv, systemd
<1>1. CASE Take(u)
  <2>1. chan[u] \in Seq(Nat) /\ chan[u] # <<>> /\ buffers[u] \in Seq(Nat)
    BY <1>1 DEF Take, TypeOK
  <2>2. Tail(chan[u]) \in Seq(Nat) /\ Len(Tail(chan[u])) <= ChanSize /\ Head(chan[u]) \in Nat
    BY <2>1, HeadTailProperties, LenProperties, SlurpAssumption DEF TypeOK
  <2>3. Append(buffers[u], Head(chan[u])) \in Seq(Nat)
    BY <2>1, <2>2, AppendProperties
  <2> QED BY <1>1, <2>2, <2>3 DEF Take, TypeOK, SlurpsOK
<1>2. CASE SendCurrentBuffers(u)
  BY <1>2, StreamWriteType, EmptySeq DEF SendCurrentBuffers, TypeOK, SlurpsOK
<1>3. CASE PublisherEnds(u)
  BY <1>3, StreamWriteType, EmptySeq DEF PublisherEnds, Shutdown, TypeOK, SlurpsOK
<1> QED BY <1>1, <1>2, <1>3 DEF Publisher

\* The steps that neither read, send nor publish lines.
LEMMA OtherType ==
    ASSUME TypeInv,
           \/ \E s \in Service, on \in BOOLEAN : ProcessRecord(s, on)
           \/ ReaderEnds \/ Stop \/ PingUse
           \/ \E u \in Uid : WatchEnds(u)
           \/ \E s \in Service : PingCheck(s)
    PROVE  TypeInv'
<1> USE DEF TypeInv, TypeOK, SlurpsOK, systemd, goroutines
<1>1. CASE \E s \in Service, on \in BOOLEAN : ProcessRecord(s, on)
  BY <1>1 DEF ProcessRecord
<1>2. CASE ReaderEnds
  BY <1>2, EmptySeq DEF ReaderEnds
<1>3. CASE Stop
  BY <1>3 DEF Stop
<1>4. CASE PingUse
  BY <1>4 DEF PingUse
<1>5. CASE \E u \in Uid : WatchEnds(u)
  BY <1>5 DEF WatchEnds
<1>6. CASE \E s \in Service : PingCheck(s)
  BY <1>6 DEF PingCheck
<1> QED BY <1>1, <1>2, <1>3, <1>4, <1>5, <1>6

LEMMA TypeNext == TypeInv /\ [Next]_vars => TypeInv'
<1> SUFFICES ASSUME TypeInv, [Next]_vars PROVE TypeInv'
  OBVIOUS
<1>1. CASE UNCHANGED vars
  BY <1>1 DEF vars, TypeInv, TypeOK, SlurpsOK
<1>2. CASE Next
  BY <1>2, SystemdType, ReadType, SendLineType, PublisherType, OtherType DEF Next
<1> QED BY <1>1, <1>2

\* Everything has the type its Go declaration gives it, no channel holds more than its
\* capacity, and the reader never sends to a service without a slurp (line 433 of
\* journalctl-utils.go), unless ProcessStart failed.
THEOREM TypeCorrect == Spec => []TypeOK
<1>1. TypeInv => TypeOK
  BY DEF TypeInv
<1> QED BY <1>1, TypeInit, TypeNext, PTL DEF Spec
-----------------------------------------------------------------------------
(* No slurp is left behind *)

\* Drawing a new slurp for s leaves none behind if that of s, if any, is in U.
LEMMA StartLive ==
    ASSUME LiveInv, NEW s \in Service, StartProcessRunSlurp(s, Current(s))
    PROVE  LiveIsCurrent'
<1>1. PICK u \in {v \in Uid : service[v] = NoUid} :
        /\ service' = [service EXCEPT ![u] = s]
        /\ current' = [current EXCEPT ![s] = u]
        /\ pub' = [pub EXCEPT ![u] = "running"]
        /\ cancelled' = cancelled \cup Current(s) \cup (IF stopped THEN {u} ELSE {})
  BY DEF StartProcessRunSlurp
<1> SUFFICES ASSUME NEW v \in Uid, pub'[v] = "running", v \notin cancelled'
             PROVE  current'[service'[v]] = v
  BY DEF LiveIsCurrent
<1>2. CASE v = u
  BY <1>1, <1>2 DEF LiveInv, TypeInv, TypeOK
<1>3. CASE v # u
  <2>1. pub[v] = "running" /\ v \notin cancelled /\ service'[v] = service[v]
    BY <1>1, <1>3 DEF LiveInv, TypeInv, TypeOK
  <2>2. current[service[v]] = v /\ service[v] \in Service
    BY <2>1 DEF LiveInv, LiveIsCurrent, TypeInv, TypeOK, SlurpsOK
  <2>3. service[v] # s
    BY <1>1, <2>2, SlurpAssumption DEF Current
  <2> QED BY <1>1, <2>1, <2>2, <2>3 DEF LiveInv, TypeInv, TypeOK
<1> QED BY <1>2, <1>3

\* Nor does a start that fails.
LEMMA StartFailsLive ==
    ASSUME LiveInv, NEW s \in Service, StartFails(s, Current(s))
    PROVE  LiveIsCurrent'
BY SlurpAssumption DEF LiveInv, TypeInv, TypeOK, SlurpsOK, LiveIsCurrent, StartFails, Current

LEMMA ReadLive ==
    ASSUME LiveInv, ReadLine
    PROVE  LiveIsCurrent'
<1> DEFINE s == Head(journal).service
<1>0. journal # <<>> /\ s \in Service
  BY JournalHead
     DEF ReadLine, ReadIgnored, ReadApp, ReadFirstApp, ReadStart, ReadEnd, Reads, LiveInv, TypeInv
<1>1. CASE ReadIgnored \/ ReadApp
  BY <1>1 DEF ReadIgnored, ReadApp, NothingOfMinion, goroutines, LiveInv, LiveIsCurrent
<1>2. CASE ReadFirstApp
  <2>1. Current(s) = {}
    BY <1>2 DEF ReadFirstApp, Current
  <2> QED BY <1>0, <1>2, <2>1, StartLive, StartFailsLive DEF ReadFirstApp
<1>3. CASE ReadStart
  BY <1>0, <1>3, StartLive, StartFailsLive DEF ReadStart
<1>4. CASE ReadEnd
  BY <1>0, <1>4, SlurpAssumption DEF ReadEnd, LiveInv, TypeInv, TypeOK, SlurpsOK, LiveIsCurrent, Current
<1> QED BY <1>1, <1>2, <1>3, <1>4 DEF ReadLine

\* What the goroutines other than the reader may do to slurps: end them.
OnlyEnds ==
    /\ UNCHANGED <<current, service>>
    /\ cancelled \subseteq cancelled'
    /\ \A u \in Uid : pub'[u] = "running" => pub[u] = "running"

LEMMA OthersOnlyEnd ==
    ASSUME TypeInv, [Next]_vars, ~ ReadLine
    PROVE  OnlyEnds
<1> USE DEF OnlyEnds, TypeInv, TypeOK, systemd, goroutines, NothingOfMinion
<1>1. CASE UNCHANGED vars
  BY <1>1 DEF vars
<1>2. CASE \E s \in Service :
             Launch(s) \/ LogStarted(s) \/ LogApp(s) \/ MainProcessEnds(s) \/ LogEnd(s)
  BY <1>2 DEF Launch, LogStarted, LogApp, MainProcessEnds, LogEnd
<1>3. CASE \/ \E s \in Service, on \in BOOLEAN : ProcessRecord(s, on)
           \/ \E s \in Service : PingCheck(s)
  BY <1>3 DEF ProcessRecord, PingCheck
<1>4. CASE SendLine \/ ReaderEnds \/ Stop \/ PingUse
  BY <1>4 DEF SendLine, ReaderEnds, Stop, PingUse
<1>5. CASE \E u \in Uid : WatchEnds(u) \/ Take(u) \/ SendCurrentBuffers(u)
  BY <1>5 DEF WatchEnds, Take, SendCurrentBuffers
<1>6. CASE \E u \in Uid : PublisherEnds(u)
  BY <1>6 DEF PublisherEnds
<1> QED BY <1>1, <1>2, <1>3, <1>4, <1>5, <1>6 DEF Next, Publisher

LEMMA LiveNext == LiveInv /\ [Next]_vars => LiveInv'
<1> SUFFICES ASSUME LiveInv, [Next]_vars PROVE LiveInv'
  OBVIOUS
<1>1. TypeInv'
  BY TypeNext DEF LiveInv
<1>2. CASE ReadLine
  BY <1>1, <1>2, ReadLive DEF LiveInv
<1>3. CASE ~ ReadLine
  BY <1>1, <1>3, OthersOnlyEnd DEF LiveInv, LiveIsCurrent, OnlyEnds
<1> QED BY <1>2, <1>3

\* A slurp whose context is not done is the CurrentSlurp of its service, whoever ends
\* runs and in whatever order: newSlurp and stopCurrentSlurp drop none that the others
\* have not ended, and no service has two.
THEOREM NoneLeftBehind == Spec => []LiveIsCurrent
<1>1. Init => LiveInv
  BY TypeInit DEF Init, LiveInv, LiveIsCurrent
<1>2. LiveInv => LiveIsCurrent
  BY DEF LiveInv
<1> QED BY <1>1, <1>2, LiveNext, PTL DEF Spec
-----------------------------------------------------------------------------
(***************************************************************************)
(* The order of the lines.  A line passes from the journal to the reader's *)
(* hand, a channel, a publisher's buffer and nefario.  The invariant is    *)
(* about all of them: what has come further is smaller, and what is in one *)
(* run is in no other.                                                     *)
(***************************************************************************)

In(q) == {q[i] : i \in 1..Len(q)}
Rising(q) == \A i, j \in 1..Len(q) : i < j => q[i] < q[j]
Before(X, Y) == \A x \in X, y \in Y : x < y

LinesOf(u) == In(written[u]) \cup In(buffers[u]) \cup In(chan[u])
Handing == {n \in Nat : reader = "sending" /\ n = hand.n}
Unread == {journal[k].n : k \in 1..Len(journal)}

RunOrdered(u) ==
    /\ Rising(written[u]) /\ Rising(buffers[u]) /\ Rising(chan[u])
    /\ Before(In(written[u]), In(buffers[u])) /\ Before(In(written[u]), In(chan[u]))
    /\ Before(In(buffers[u]), In(chan[u]))

\* The lines of u come before all those to come.
Past(u) ==
    /\ Before(LinesOf(u), Handing \cup Unread)
    /\ \A x \in LinesOf(u) : x <= lines

Runs ==
    /\ \A u \in Uid : RunOrdered(u) /\ Past(u)
    /\ \A u, v \in Uid : u # v => LinesOf(u) \cap LinesOf(v) = {}

Coming ==
    /\ \A i, j \in 1..Len(journal) : i < j => journal[i].n < journal[j].n
    /\ Before(Handing, Unread)
    /\ \A x \in Handing \cup Unread : x <= lines

OrderInv == TypeInv /\ Runs /\ Coming
-----------------------------------------------------------------------------
(* Sequences of numbers *)

LEMMA AppendRising ==
    ASSUME NEW q \in Seq(Nat), NEW x \in Nat
    PROVE  /\ In(Append(q, x)) = In(q) \cup {x}
           /\ Rising(q) /\ Before(In(q), {x}) => Rising(Append(q, x))
<1>1. /\ Len(q) \in Nat /\ Len(Append(q, x)) = Len(q) + 1
      /\ \A i \in 1..Len(q) : Append(q, x)[i] = q[i]
      /\ Append(q, x)[Len(q) + 1] = x
  BY AppendProperties, LenProperties
<1>2. In(Append(q, x)) = In(q) \cup {x}
  BY <1>1 DEF In
<1>3. ASSUME Rising(q), Before(In(q), {x}) PROVE Rising(Append(q, x))
  BY <1>1, <1>3 DEF Rising, Before, In
<1> QED BY <1>2, <1>3

LEMMA TailRising ==
    ASSUME NEW q \in Seq(Nat), q # <<>>
    PROVE  /\ Head(q) \in In(q) /\ In(Tail(q)) \subseteq In(q)
           /\ Rising(q) => Rising(Tail(q)) /\ Before({Head(q)}, In(Tail(q)))
<1>1. /\ Len(q) \in Nat \ {0} /\ Len(Tail(q)) = Len(q) - 1 /\ Head(q) = q[1]
      /\ \A i \in 1..Len(Tail(q)) : Tail(q)[i] = q[i + 1]
  BY HeadTailProperties, EmptySeq
<1>2. Head(q) \in In(q) /\ In(Tail(q)) \subseteq In(q)
  BY <1>1 DEF In
<1>3. ASSUME Rising(q) PROVE Rising(Tail(q)) /\ Before({Head(q)}, In(Tail(q)))
  BY <1>1, <1>3 DEF Rising, Before, In
<1> QED BY <1>2, <1>3

LEMMA ConcatRising ==
    ASSUME NEW q \in Seq(Nat), NEW r \in Seq(Nat)
    PROVE  /\ In(q \o r) = In(q) \cup In(r)
           /\ Rising(q) /\ Rising(r) /\ Before(In(q), In(r)) => Rising(q \o r)
<1>1. /\ Len(q) \in Nat /\ Len(r) \in Nat /\ Len(q \o r) = Len(q) + Len(r)
      /\ \A i \in 1..Len(q \o r) : (q \o r)[i] = IF i <= Len(q) THEN q[i] ELSE r[i - Len(q)]
  BY ConcatProperties, LenProperties
<1>2. In(q \o r) = In(q) \cup In(r)
  <2>1. In(q \o r) \subseteq In(q) \cup In(r)
    BY <1>1 DEF In
  <2>2. In(q) \subseteq In(q \o r)
    BY <1>1 DEF In
  <2>3. ASSUME NEW i \in 1..Len(r) PROVE r[i] \in In(q \o r)
    <3>1. i + Len(q) \in 1..Len(q \o r) /\ (q \o r)[i + Len(q)] = r[i]
      BY <1>1
    <3> QED BY <3>1 DEF In
  <2> QED BY <2>1, <2>2, <2>3 DEF In
<1>3. ASSUME Rising(q), Rising(r), Before(In(q), In(r)), NEW i \in 1..Len(q \o r),
             NEW j \in 1..Len(q \o r), i < j
      PROVE  (q \o r)[i] < (q \o r)[j]
  <2>1. CASE j <= Len(q)
    BY <1>1, <1>3, <2>1 DEF Rising
  <2>2. CASE i > Len(q)
    <3>1. /\ i - Len(q) \in 1..Len(r) /\ j - Len(q) \in 1..Len(r) /\ i - Len(q) < j - Len(q)
          /\ (q \o r)[i] = r[i - Len(q)] /\ (q \o r)[j] = r[j - Len(q)]
      BY <1>1, <1>3, <2>2
    <3> QED BY <1>3, <3>1 DEF Rising
  <2>3. CASE i <= Len(q) /\ j > Len(q)
    BY <1>1, <1>3, <2>3 DEF Before, In
  <2> QED BY <1>1, <2>1, <2>2, <2>3
<1> QED BY <1>2, <1>3 DEF Rising

LEMMA EmptyRising == In(<<>>) = {} /\ Rising(<<>>)
BY EmptySeq DEF In, Rising
-----------------------------------------------------------------------------
(* The steps *)

LEMMA LineNumbers ==
    ASSUME TypeOK
    PROVE  /\ \A u \in Uid : LinesOf(u) \subseteq Nat
           /\ Unread \subseteq Nat /\ Handing \subseteq Nat
           /\ reader = "sending" => Handing = {hand.n}
<1>1. \A u \in Uid : LinesOf(u) \subseteq Nat
  <2>1. ASSUME NEW q \in Seq(Nat) PROVE In(q) \subseteq Nat
    BY ElementOfSeq DEF In
  <2> QED BY <2>1 DEF TypeOK, LinesOf
<1>2. Unread \subseteq Nat
  <2>1. ASSUME NEW k \in 1..Len(journal) PROVE journal[k] \in Line
    BY ElementOfSeq DEF TypeOK
  <2> QED BY <2>1 DEF Unread, Line
<1> QED BY <1>1, <1>2 DEF TypeOK, Handing, Line

\* A step that leaves the runs alone keeps Runs if no line comes back.
LEMMA RunsKept ==
    ASSUME OrderInv, UNCHANGED <<written, buffers, chan>>, lines' \in Nat, lines <= lines',
           \A x \in Handing' \cup Unread' : x \in Handing \cup Unread \/ (x \in Nat /\ x > lines)
    PROVE  Runs'
<1>1. \A u \in Uid : RunOrdered(u)' /\ LinesOf(u)' = LinesOf(u)
  BY DEF OrderInv, Runs, RunOrdered, LinesOf
<1>2. ASSUME NEW u \in Uid PROVE Past(u)'
  <2>1. LinesOf(u) \subseteq Nat /\ Past(u) /\ lines \in Nat
    BY LineNumbers DEF OrderInv, Runs, TypeInv, TypeOK
  <2> QED BY <1>1, <2>1, LineNumbers DEF OrderInv, TypeInv, Past, Before
<1> QED BY <1>1, <1>2 DEF OrderInv, Runs

LEMMA LogOrder ==
    ASSUME OrderInv, NEW s \in Service, NEW k \in {"app", "start", "end"}, Log(s, k),
           UNCHANGED <<reader, hand, written, buffers, chan>>
    PROVE  Runs' /\ Coming'
<1> DEFINE l == [service |-> s, kind |-> k, n |-> lines + 1]
<1>1. l \in Line /\ l.n = lines + 1 /\ lines \in Nat /\ lines' = lines + 1 /\ Handing' = Handing
  BY DEF OrderInv, TypeInv, TypeOK, Line, Log, Handing
<1>2. CASE journal' = Append(journal, l)
  <2>1. /\ Len(journal) \in Nat /\ Len(journal') = Len(journal) + 1
        /\ \A i \in 1..Len(journal) : journal'[i] = journal[i]
        /\ journal'[Len(journal) + 1] = l
    BY <1>1, <1>2, AppendProperties, LenProperties DEF OrderInv, TypeInv, TypeOK
  <2>2. Unread' = Unread \cup {lines + 1}
    BY <1>1, <2>1 DEF Unread
  <2>3. Runs'
    BY <1>1, <2>2, RunsKept
  <2>4. \A i, j \in 1..Len(journal') : i < j => journal'[i].n < journal'[j].n
    <3> SUFFICES ASSUME NEW i \in 1..Len(journal'), NEW j \in 1..Len(journal'), i < j
                 PROVE  journal'[i].n < journal'[j].n
      OBVIOUS
    <3>1. CASE j \in 1..Len(journal)
      BY <2>1, <3>1 DEF OrderInv, Coming
    <3>2. CASE j = Len(journal) + 1
      <4>1. i \in 1..Len(journal) /\ journal'[i] = journal[i] /\ journal'[j].n = lines + 1
        BY <1>1, <2>1, <3>2
      <4>2. journal[i].n \in Unread /\ journal[i].n \in Nat /\ journal[i].n <= lines
        BY <4>1, LineNumbers DEF OrderInv, TypeInv, Coming, Unread
      <4> QED BY <1>1, <4>1, <4>2
    <3> QED BY <2>1, <3>1, <3>2
  <2> QED BY <1>1, <2>2, <2>3, <2>4, LineNumbers DEF OrderInv, TypeInv, Coming, Before
<1>3. CASE journal' = journal
  <2>1. Unread' = Unread
    BY <1>3 DEF Unread
  <2> QED BY <1>1, <1>3, <2>1, RunsKept, LineNumbers DEF OrderInv, TypeInv, Coming
<1> QED BY <1>2, <1>3 DEF Log

\* Reading moves the first unread line to the hand, or drops it.
LEMMA ReadOrder ==
    ASSUME OrderInv, ReadLine
    PROVE  Runs' /\ Coming'
<1> DEFINE h == Head(journal)
<1>1. /\ journal \in Seq(Line) /\ journal # <<>> /\ journal' = Tail(journal) /\ reader = "reading"
      /\ UNCHANGED <<lines, written, buffers, chan>>
      /\ reader' = "sending" => hand' = h
  BY DEF ReadLine, ReadIgnored, ReadApp, ReadFirstApp, ReadStart, ReadEnd, Reads, NothingOfMinion,
         goroutines, OrderInv, TypeInv, TypeOK
<1>2. /\ Len(journal) \in Nat \ {0} /\ Len(journal') = Len(journal) - 1 /\ h = journal[1]
      /\ \A i \in 1..Len(journal') : journal'[i] = journal[i + 1]
  BY <1>1, HeadTailProperties, EmptySeq
<1>3. Handing = {} /\ Handing' \subseteq {h.n} /\ h.n \in Unread
  BY <1>1, <1>2 DEF Handing, Unread
<1>4. Unread' \subseteq Unread /\ \A x \in Unread' : h.n < x
  <2>1. ASSUME NEW k \in 1..Len(journal')
        PROVE  /\ k + 1 \in 1..Len(journal) /\ journal'[k] = journal[k + 1] /\ 1 \in 1..Len(journal)
               /\ h.n < journal'[k].n
    <3>1. k + 1 \in 1..Len(journal) /\ 1 \in 1..Len(journal) /\ 1 < k + 1
      BY <1>2
    <3>2. journal'[k] = journal[k + 1]
      BY <1>2
    <3>3. journal[1].n < journal[k + 1].n
      BY <3>1 DEF OrderInv, Coming
    <3> QED BY <1>2, <3>1, <3>2, <3>3
  <2> QED BY <2>1 DEF Unread
<1>5. lines \in Nat
  BY DEF OrderInv, TypeInv, TypeOK
<1>6. Runs'
  BY <1>1, <1>3, <1>4, <1>5, RunsKept
<1>7. \A i, j \in 1..Len(journal') : i < j => journal'[i].n < journal'[j].n
  BY <1>2 DEF OrderInv, Coming
<1> QED BY <1>1, <1>3, <1>4, <1>6, <1>7 DEF OrderInv, Coming, Before

\* The line in hand goes to the end of one channel.
LEMMA SendLineOrder ==
    ASSUME OrderInv, SendLine
    PROVE  Runs' /\ Coming'
<1> USE DEF OrderInv, TypeInv
<1>0. PICK u \in Uid : u = current[hand.service]
  BY DEF SendLine, TypeOK, Line
<1>1. /\ hand.n \in Nat /\ chan \in [Uid -> Seq(Nat)] /\ Handing = {hand.n} /\ Handing' = {}
      /\ chan' = [chan EXCEPT ![u] = Append(@, hand.n)]
      /\ UNCHANGED <<lines, journal, written, buffers>>
  BY <1>0, LineNumbers DEF SendLine, TypeOK, Line, systemd, Handing
<1>2. Unread' = Unread
  BY <1>1 DEF Unread
<1>3. Coming'
  BY <1>1, <1>2 DEF Coming, Before
<1>4. /\ In(chan'[u]) = In(chan[u]) \cup {hand.n}
      /\ LinesOf(u)' = LinesOf(u) \cup {hand.n}
      /\ \A v \in Uid \ {u} : chan'[v] = chan[v] /\ LinesOf(v)' = LinesOf(v)
  <2>1. chan[u] \in Seq(Nat) /\ chan'[u] = Append(chan[u], hand.n)
    BY <1>1
  <2>2. In(chan'[u]) = In(chan[u]) \cup {hand.n}
    BY <1>1, <2>1, AppendRising
  <2>3. \A v \in Uid \ {u} : chan'[v] = chan[v]
    BY <1>1
  <2> QED BY <1>1, <2>2, <2>3 DEF LinesOf
<1>5. \A v \in Uid : \A x \in LinesOf(v) : x \in Nat /\ x < hand.n
  BY <1>1, LineNumbers DEF Runs, Past, Before
<1>6. RunOrdered(u)'
  <2>1. Rising(chan'[u])
    BY <1>1, <1>5, AppendRising DEF Runs, RunOrdered, Before, LinesOf
  <2> QED BY <1>1, <1>4, <1>5, <2>1 DEF Runs, RunOrdered, Before, LinesOf
<1>7. \A v \in Uid : RunOrdered(v)'
  BY <1>1, <1>4, <1>6 DEF Runs, RunOrdered
<1>8. \A v \in Uid : Past(v)'
  BY <1>1, <1>2, <1>4 DEF Runs, Past, Coming, Before
<1>9. \A v, w \in Uid : v # w => LinesOf(v)' \cap LinesOf(w)' = {}
  BY <1>4, <1>5 DEF Runs
<1> QED BY <1>3, <1>7, <1>8, <1>9 DEF Runs

\* A step within one run that adds no line keeps Runs, if it keeps the run ordered.
LEMMA WithinRun ==
    ASSUME OrderInv, NEW u \in Uid, RunOrdered(u)', LinesOf(u)' \subseteq LinesOf(u),
           \A v \in Uid \ {u} :
               written'[v] = written[v] /\ buffers'[v] = buffers[v] /\ chan'[v] = chan[v],
           UNCHANGED <<lines, journal, reader, hand>>
    PROVE  Runs' /\ Coming'
<1>1. Handing' = Handing /\ Unread' = Unread
  BY DEF Handing, Unread
<1>2. \A v \in Uid \ {u} : RunOrdered(v)' /\ LinesOf(v)' = LinesOf(v)
  BY DEF OrderInv, Runs, RunOrdered, LinesOf
<1>3. \A v \in Uid : Past(v)'
  BY <1>1, <1>2 DEF OrderInv, Runs, Past, Before
<1>4. \A v, w \in Uid : v # w => LinesOf(v)' \cap LinesOf(w)' = {}
  BY <1>2 DEF OrderInv, Runs
<1> QED BY <1>1, <1>2, <1>3, <1>4 DEF OrderInv, Runs, Coming

\* StreamWrite puts the buffers behind what was written, or loses them.
LEMMA StreamWriteOrder ==
    ASSUME OrderInv, NEW u \in Uid, StreamWrite(u), buffers' = [buffers EXCEPT ![u] = <<>>],
           UNCHANGED chan
    PROVE  /\ RunOrdered(u)' /\ LinesOf(u)' \subseteq LinesOf(u)
           /\ \A v \in Uid \ {u} :
                  written'[v] = written[v] /\ buffers'[v] = buffers[v] /\ chan'[v] = chan[v]
<1> USE DEF OrderInv, TypeInv, TypeOK
<1>1. buffers'[u] = <<>> /\ In(buffers'[u]) = {} /\ Rising(buffers'[u])
  BY EmptyRising
<1>2. RunOrdered(u)
  BY DEF Runs
<1>3. CASE written' = [written EXCEPT ![u] = @ \o buffers[u]]
  <2>1. written'[u] = written[u] \o buffers[u]
    BY <1>3
  <2>2. In(written'[u]) = In(written[u]) \cup In(buffers[u]) /\ Rising(written'[u])
    BY <1>2, <2>1, ConcatRising DEF RunOrdered
  <2> QED BY <1>1, <1>2, <1>3, <2>2 DEF RunOrdered, Before, LinesOf
<1>4. CASE written' = written
  BY <1>1, <1>2, <1>4 DEF RunOrdered, Before, LinesOf
<1> QED BY <1>3, <1>4 DEF StreamWrite

LEMMA PublisherOrder ==
    ASSUME OrderInv, NEW u \in Uid, Publisher(u)
    PROVE  Runs' /\ Coming'
<1>1. CASE Take(u)
  <2> DEFINE h == Head(chan[u])
  <2>1. /\ chan[u] \in Seq(Nat) /\ chan[u] # <<>> /\ buffers[u] \in Seq(Nat) /\ RunOrdered(u)
        /\ buffers'[u] = Append(buffers[u], h) /\ chan'[u] = Tail(chan[u]) /\ written' = written
        /\ UNCHANGED <<lines, journal, reader, hand>>
    BY <1>1 DEF Take, OrderInv, Runs, TypeInv, TypeOK, systemd
  <2>2. /\ h \in Nat /\ h \in In(chan[u]) /\ In(chan'[u]) \subseteq In(chan[u])
        /\ Rising(chan'[u]) /\ Before({h}, In(chan'[u]))
    BY <2>1, TailRising, HeadTailProperties DEF RunOrdered
  <2>3. In(buffers'[u]) = In(buffers[u]) \cup {h} /\ Rising(buffers'[u])
    BY <2>1, <2>2, AppendRising DEF RunOrdered, Before
  <2>4. RunOrdered(u)'
    BY <2>1, <2>2, <2>3 DEF RunOrdered, Before
  <2>5. LinesOf(u)' \subseteq LinesOf(u)
    BY <2>1, <2>2, <2>3 DEF LinesOf
  <2>6. \A v \in Uid \ {u} :
            written'[v] = written[v] /\ buffers'[v] = buffers[v] /\ chan'[v] = chan[v]
    BY <1>1 DEF Take, OrderInv, TypeInv, TypeOK
  <2> QED BY <2>1, <2>4, <2>5, <2>6, WithinRun
<1>2. CASE SendCurrentBuffers(u)
  BY <1>2, StreamWriteOrder, WithinRun DEF SendCurrentBuffers, systemd
<1>3. CASE PublisherEnds(u)
  BY <1>3, StreamWriteOrder, WithinRun DEF PublisherEnds, systemd
<1> QED BY <1>1, <1>2, <1>3 DEF Publisher

\* Every other step leaves the lines where they are, or drops those that are unread.
LEMMA OtherOrder ==
    ASSUME OrderInv, UNCHANGED <<lines, written, buffers, chan, hand>>,
           journal' = journal \/ journal' = <<>>,
           reader' = reader \/ reader' = "ended"
    PROVE  Runs' /\ Coming'
<1>1. Handing' \subseteq Handing
  BY DEF Handing
<1>2. Unread' \subseteq Unread /\ \A i, j \in 1..Len(journal') : i < j => journal'[i].n < journal'[j].n
  BY EmptySeq DEF Unread, OrderInv, Coming
<1>3. lines \in Nat
  BY DEF OrderInv, TypeInv, TypeOK
<1>4. Runs'
  BY <1>1, <1>2, <1>3, RunsKept
<1> QED BY <1>1, <1>2, <1>4 DEF OrderInv, Coming, Before

LEMMA OrderNext == OrderInv /\ [Next]_vars => OrderInv'
<1> SUFFICES ASSUME OrderInv, [Next]_vars PROVE Runs' /\ Coming'
  BY TypeNext DEF OrderInv
<1> USE DEF systemd, goroutines
<1>1. CASE UNCHANGED vars
  BY <1>1, OtherOrder DEF vars
<1>2. CASE \E s \in Service : LogStarted(s) \/ LogApp(s) \/ LogEnd(s)
  BY <1>2, LogOrder DEF LogStarted, LogApp, LogEnd, NothingOfMinion
<1>3. CASE \E s \in Service : Launch(s) \/ MainProcessEnds(s)
  BY <1>3, OtherOrder DEF Launch, MainProcessEnds, NothingOfMinion
<1>4. CASE ReadLine
  BY <1>4, ReadOrder
<1>5. CASE SendLine
  BY <1>5, SendLineOrder
<1>6. CASE \E u \in Uid : Publisher(u)
  BY <1>6, PublisherOrder
<1>7. CASE ReaderEnds \/ Stop \/ PingUse
  BY <1>7, OtherOrder DEF ReaderEnds, Stop, PingUse
<1>8. CASE \/ \E u \in Uid : WatchEnds(u)
           \/ \E s \in Service, on \in BOOLEAN : ProcessRecord(s, on)
           \/ \E s \in Service : PingCheck(s)
  BY <1>8, OtherOrder DEF WatchEnds, ProcessRecord, PingCheck
<1> QED BY <1>1, <1>2, <1>3, <1>4, <1>5, <1>6, <1>7, <1>8 DEF Next

LEMMA OrderInit == Init => OrderInv
<1> SUFFICES ASSUME Init PROVE Runs /\ Coming
  BY TypeInit DEF OrderInv
<1>1. \A u \in Uid : RunOrdered(u) /\ LinesOf(u) = {}
  BY EmptyRising DEF Init, RunOrdered, LinesOf, Before
<1>2. Handing = {} /\ Unread = {} /\ Len(journal) = 0
  BY EmptySeq DEF Init, Handing, Unread
<1> QED BY <1>1, <1>2 DEF Runs, Coming, Past, Before

\* What a publisher writes of a run is written once and in the order of the journal, and
\* never in two runs: a slurp's channel, its buffer and the writes by timer, by size and at the
\* end keep the order, also when writes fail and runs replace each other.
THEOREM LinesInOrder == Spec => []WrittenInOrder
<1>1. OrderInv => WrittenInOrder
  <2> SUFFICES ASSUME OrderInv PROVE WrittenInOrder
    OBVIOUS
  <2>1. \A u \in Uid : Rising(written[u])
    BY DEF OrderInv, Runs, RunOrdered
  <2>2. ASSUME NEW u \in Uid, NEW v \in Uid, u # v,
               NEW i \in 1..Len(written[u]), NEW j \in 1..Len(written[v])
        PROVE  written[u][i] # written[v][j]
    <3>1. written[u][i] \in LinesOf(u) /\ written[v][j] \in LinesOf(v)
      BY DEF LinesOf, In
    <3> QED BY <2>2, <3>1 DEF OrderInv, Runs
  <2> QED BY <2>1, <2>2 DEF WrittenInOrder, Rising
<1> QED BY <1>1, OrderInit, OrderNext, PTL DEF Spec
=============================================================================
