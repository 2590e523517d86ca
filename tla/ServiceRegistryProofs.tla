------------------------ MODULE ServiceRegistryProofs ------------------------
(***************************************************************************)
(* Theorems about ServiceRegistry, and about A8App, the application whose  *)
(* sub-processes the slurper and the manager are.                          *)
(*                                                                         *)
(* OneIdentity is proved from the claims of uids: who has a row, or a      *)
(* request for one that is under way.  A uid is claimed by one unit and a  *)
(* unit claims one uid; the slurper draws a uid only for a unit that       *)
(* claims none, since it goes through a list that was answered after all   *)
(* that was sent before had been done or lost.                             *)
(*                                                                         *)
(* StaleHasCause is proved unit by unit: unless it is excused, or a change *)
(* of it is still to be read, every record of the unit is right, be it in  *)
(* memory, about to be stored, or among the rows that a caller goes        *)
(* through.  A record that outlived a lost insert is of a uid nobody else  *)
(* gets, and an insert, done once, makes a row that no record contradicts. *)
(***************************************************************************)
EXTENDS ServiceRegistry, A8App, FiniteSetTheorems, SequenceTheorems, TLAPS

-----------------------------------------------------------------------------
(* ServiceRegistry: a service has one row, and one identity *)

\* What is sent, or to be sent, and not done.
Sent == UNION {inbox[i].todo : i \in 1..Len(inbox)}
InFlight == crudActions \cup Sent

\* Rows are never taken away and keep their names.
HasRow(u, d) == d \in Uid /\ table[d] # NoRow /\ table[d].name = u

\* u has the row d, or will have it.
Claimed(u, d) ==
    HasRow(u, d) \/ \E a \in InFlight : a.action = "insert" /\ a.uid = d /\ a.name = u

FeedOK == \A i \in 1..Len(feed) : HasRow(feed[i].name, feed[i].uid)
SeenOK == \A c \in Caller : \A d \in Uid : seen[c][d] # NoRow => HasRow(seen[c][d].name, d)
RowsStay ==
    /\ FeedOK /\ SeenOK
    /\ \A a \in InFlight : a.action = "update" => HasRow(a.name, a.uid)

\* A uid is drawn for one unit, and a unit has one uid.
OneClaim ==
    /\ \A a \in InFlight : a.uid <= drawn
    /\ \A u, v \in Unit : \A d, e \in Uid :
         Claimed(u, d) /\ Claimed(v, e) => (u = v <=> d = e)

Sound(r) == r # NoRecord => Claimed(r.name, r.uid) \/ r.uid \in lost

RecordsOK ==
    /\ \A u \in Unit : memory[u] # NoRecord => memory[u].name = u
    /\ \A u \in Unit : Sound(memory[u])
    /\ Sound(pending)

\* The slurper compares with all rows there are, and nothing that was sent earlier is still to be
\* done.
SlurperOK ==
    /\ minion = "down" => slurper = "off"
    /\ slurper \notin {"compare", "store"} => crudActions = {}
    /\ slurper \in {"compare", "store"} =>
         /\ \A i \in 1..Len(inbox) : inbox[i].todo = {}
         /\ \A d \in Uid : table[d] # NoRow => seen["slurper"][d] # NoRow
         /\ \A a \in crudActions : a.name \notin left["slurper"]

\* The slurper waits for one request, and when that is a list all others were sent before.
RequestsOK ==
    /\ \A i \in 1..Len(inbox) : inbox[i].endPoint = "list" => inbox[i].todo = {}
    /\ \A i, j \in 1..Len(inbox) :
         inbox[i].from = "slurper" /\ inbox[j].from = "slurper" => i = j
    /\ \A i \in 1..Len(inbox) : inbox[i].from = "slurper" =>
         \/ slurper = "sending" /\ inbox[i].endPoint = "crud"
         \/ /\ slurper = "asking" /\ inbox[i].endPoint = "list"
            /\ \A j \in 1..Len(inbox) : j > i => inbox[j].todo = {}

IdentityInv == TypeOK /\ RowsStay /\ OneClaim /\ RecordsOK /\ SlurperOK /\ RequestsOK

\* The parts of the type invariant, by who owns the variables.
TableType ==
    /\ byValue \in BOOLEAN /\ systemd \in [Unit -> Status]
    /\ table \in [Uid -> Row \cup {NoRow}] /\ drawn \in 0..MaxUid
    /\ \A d \in Uid : d > drawn => table[d] = NoRow
    /\ feed \in Seq(Record)
AskType ==
    /\ inbox \in Seq(Request)
    /\ manager \in {"off", "connect", "asking", "initial", "watching", "ended"}
    /\ left \in [Caller -> SUBSET Unit]
    /\ seen \in [Caller -> [Uid -> Row \cup {NoRow}]]
SlurpType ==
    /\ slurper \in {"off", "list", "asking", "compare", "store", "sending", "ticker"}
    /\ units \in [Unit -> Status] /\ crudActions \subseteq Crud
    /\ pending \in Record \cup {NoRecord} /\ (pending # NoRecord <=> slurper = "store")
FollowType ==
    /\ minion \in {"down", "up"} /\ memory \in [Unit -> Record \cup {NoRecord}]
    /\ consumer \in {"off", "starting", "reading", "ended"}
    /\ next \in Nat \ {0} /\ due \subseteq 1..Len(feed)
    /\ excused \subseteq Unit /\ lost \subseteq Uid
    /\ events \in 0..MaxEvents

LEMMA TypeParts == TypeOK <=> TableType /\ AskType /\ SlurpType /\ FollowType
BY DEF TypeOK, TableType, AskType, SlurpType, FollowType

LEMMA CallersAre == Caller = {"slurper", "manager"}
BY DEF Caller

LEMMA HappensType == events \in 0..MaxEvents /\ (NoFault \/ Happens) => events' \in 0..MaxEvents
BY RegistryAssumption DEF NoFault, Happens

LEMMA FailsIs == \A op : Fails(op) => Happens
BY DEF Fails

(* What may happen to the requests *)

LEMMA Posted ==
    ASSUME inbox \in Seq(Request), NEW r \in Request, inbox' = Append(inbox, r)
    PROVE  /\ inbox' \in Seq(Request) /\ Len(inbox) \in Nat
           /\ Len(inbox') = Len(inbox) + 1 /\ inbox'[Len(inbox) + 1] = r
           /\ \A i \in 1..Len(inbox) : inbox'[i] = inbox[i]
           /\ Sent' = Sent \cup r.todo
<1>1. /\ inbox' \in Seq(Request) /\ Len(inbox) \in Nat
      /\ Len(inbox') = Len(inbox) + 1 /\ inbox'[Len(inbox) + 1] = r
      /\ \A i \in 1..Len(inbox) : inbox'[i] = inbox[i]
  BY AppendProperties, LenProperties
<1>2. 1..Len(inbox') = 1..Len(inbox) \cup {Len(inbox) + 1}
  BY <1>1
<1>3. Sent' = Sent \cup r.todo
  BY <1>1, <1>2 DEF Sent
<1> QED BY <1>1, <1>3

LEMMA HeadTaken ==
    ASSUME inbox \in Seq(Request), inbox # <<>>, inbox' = Tail(inbox)
    PROVE  /\ inbox' \in Seq(Request) /\ Len(inbox') \in Nat /\ Head(inbox) = inbox[1]
           /\ Head(inbox) \in Request /\ 1 \in 1..Len(inbox) /\ Len(inbox) = Len(inbox') + 1
           /\ \A i \in 1..Len(inbox') : i + 1 \in 1..Len(inbox) /\ inbox'[i] = inbox[i + 1]
           /\ Sent = Head(inbox).todo \cup Sent'
<1>1. /\ inbox' \in Seq(Request) /\ Len(inbox') \in Nat /\ Head(inbox) = inbox[1]
      /\ Head(inbox) \in Request /\ 1 \in 1..Len(inbox) /\ Len(inbox) = Len(inbox') + 1
      /\ \A i \in 1..Len(inbox') : i + 1 \in 1..Len(inbox) /\ inbox'[i] = inbox[i + 1]
  <2>1. Len(inbox) \in Nat /\ Len(inbox) # 0
    BY LenProperties, EmptySeq
  <2>2. /\ Head(inbox) \in Request /\ inbox' \in Seq(Request)
        /\ Len(inbox') = Len(inbox) - 1
        /\ \A i \in 1..Len(inbox') : inbox'[i] = inbox[i + 1]
    BY HeadTailProperties
  <2>3. Head(inbox) = inbox[1]
    OBVIOUS
  <2> QED BY <2>1, <2>2, <2>3
<1>2. \A i \in 1..Len(inbox) : i = 1 \/ (i - 1 \in 1..Len(inbox') /\ inbox[i] = inbox'[i - 1])
  <2> SUFFICES ASSUME NEW i \in 1..Len(inbox), i # 1
               PROVE  i - 1 \in 1..Len(inbox') /\ inbox[i] = inbox'[i - 1]
    OBVIOUS
  <2>1. i - 1 \in 1..Len(inbox') /\ (i - 1) + 1 = i
    BY <1>1
  <2> QED BY <1>1, <2>1
<1>3. Sent \subseteq Head(inbox).todo \cup Sent'
  <2> SUFFICES ASSUME NEW i \in 1..Len(inbox), NEW a \in inbox[i].todo
               PROVE  a \in Head(inbox).todo \cup Sent'
    BY DEF Sent
  <2>1. CASE i = 1
    BY <1>1, <2>1
  <2>2. CASE i # 1
    <3>1. i - 1 \in 1..Len(inbox') /\ a \in inbox'[i - 1].todo
      BY <1>2, <2>2
    <3> QED BY <3>1 DEF Sent
  <2> QED BY <2>1, <2>2
<1>4. Head(inbox).todo \cup Sent' \subseteq Sent
  BY <1>1 DEF Sent
<1> QED BY <1>1, <1>3, <1>4

LEMMA HeadShortened ==
    ASSUME inbox \in Seq(Request), inbox # <<>>, NEW rest, rest \subseteq Head(inbox).todo,
           inbox' = [inbox EXCEPT ![1].todo = rest]
    PROVE  /\ inbox' \in Seq(Request) /\ Len(inbox') = Len(inbox) /\ Len(inbox) \in Nat
           /\ Head(inbox) = inbox[1] /\ 1 \in 1..Len(inbox)
           /\ inbox'[1].todo = rest /\ inbox'[1].from = inbox[1].from
           /\ inbox'[1].endPoint = inbox[1].endPoint
           /\ \A i \in 1..Len(inbox) : i # 1 => inbox'[i] = inbox[i]
           /\ Sent' \subseteq Sent /\ Sent \subseteq Sent' \cup (Head(inbox).todo \ rest)
<1>0. Head(inbox) = inbox[1] /\ Len(inbox) \in Nat /\ 1 \in 1..Len(inbox) /\ inbox[1] \in Request
  <2>1. Len(inbox) \in Nat /\ Len(inbox) # 0
    BY LenProperties, EmptySeq
  <2> QED BY <2>1, ElementOfSeq
<1> DEFINE r == [inbox[1] EXCEPT !.todo = rest]
<1>1. r \in Request /\ r.todo = rest /\ r.from = inbox[1].from /\ r.endPoint = inbox[1].endPoint
  BY <1>0 DEF Request
<1>2. inbox' = [inbox EXCEPT ![1] = r]
  OBVIOUS
<1> HIDE DEF r
<1>3. inbox' \in Seq(Request) /\ Len(inbox') = Len(inbox) /\ inbox'[1] = r
      /\ \A i \in 1..Len(inbox) : i # 1 => inbox'[i] = inbox[i]
  BY <1>0, <1>1, <1>2, ExceptSeq
<1>4. Sent' \subseteq Sent
  <2> SUFFICES ASSUME NEW i \in 1..Len(inbox), NEW a \in inbox'[i].todo PROVE a \in Sent
    BY <1>3 DEF Sent
  <2>1. a \in inbox[i].todo
    BY <1>0, <1>1, <1>3
  <2> QED BY <2>1 DEF Sent
<1>5. Sent \subseteq Sent' \cup (Head(inbox).todo \ rest)
  <2> SUFFICES ASSUME NEW i \in 1..Len(inbox), NEW a \in inbox[i].todo
               PROVE  a \in Sent' \cup (Head(inbox).todo \ rest)
    BY DEF Sent
  <2>1. a \in inbox'[i].todo \/ a \in Head(inbox).todo \ rest
    BY <1>0, <1>1, <1>3
  <2> QED BY <1>3, <2>1 DEF Sent
<1> QED BY <1>0, <1>1, <1>3, <1>4, <1>5

LEMMA CallersGone ==
    ASSUME inbox \in Seq(Request), NEW C, Orphaned(C)
    PROVE  /\ inbox' \in Seq(Request) /\ Len(inbox') = Len(inbox) /\ Len(inbox) \in Nat
           /\ \A i \in 1..Len(inbox) :
                /\ inbox'[i].todo = inbox[i].todo /\ inbox'[i].endPoint = inbox[i].endPoint
                /\ inbox'[i].from = IF inbox[i].from \in C THEN "nobody" ELSE inbox[i].from
           /\ Sent' = Sent
<1>0. /\ Len(inbox) \in Nat /\ DOMAIN inbox = 1..Len(inbox)
      /\ \A i \in 1..Len(inbox) : inbox[i] \in Request
  BY LenProperties, ElementOfSeq
<1>1. \A i \in 1..Len(inbox) :
        /\ inbox'[i] \in Request
        /\ inbox'[i].todo = inbox[i].todo /\ inbox'[i].endPoint = inbox[i].endPoint
        /\ inbox'[i].from = IF inbox[i].from \in C THEN "nobody" ELSE inbox[i].from
  BY <1>0 DEF Orphaned, Request
<1>2. inbox' \in [1..Len(inbox) -> Request]
  BY <1>0, <1>1 DEF Orphaned
<1>3. inbox' \in Seq(Request) /\ Len(inbox') = Len(inbox)
  <2>1. PICK n \in Nat : n = Len(inbox)
    BY <1>0
  <2>2. inbox' \in [1..n -> Request]
    BY <1>2, <2>1
  <2>3. inbox' \in Seq(Request)
    BY <2>2, SeqDef
  <2>4. Len(inbox') = n
    BY <2>2, <2>3, LenProperties
  <2> QED BY <2>1, <2>3, <2>4
<1> QED BY <1>0, <1>1, <1>3 DEF Sent

(* Claims *)

LEMMA NoClaimMade ==
    ASSUME OneClaim, RowsStay,
           \A u, d : HasRow(u, d) => HasRow(u, d)',
           \A u, d : HasRow(u, d)' => Claimed(u, d),
           InFlight' \subseteq InFlight, drawn' = drawn,
           \A a \in InFlight : \/ a \in InFlight' \/ a.action = "update"
                               \/ HasRow(a.name, a.uid)' \/ a.uid \in lost',
           lost \subseteq lost'
    PROVE  /\ OneClaim'
           /\ \A u, d : Claimed(u, d) => Claimed(u, d)' \/ d \in lost'
           /\ \A a \in InFlight' : a.action = "update" => HasRow(a.name, a.uid)'
<1>1. \A u, d : Claimed(u, d)' => Claimed(u, d)
  BY DEF Claimed
<1>2. OneClaim'
  BY <1>1 DEF OneClaim
<1>3. ASSUME NEW u, NEW d, Claimed(u, d) PROVE Claimed(u, d)' \/ d \in lost'
  <2>1. CASE HasRow(u, d)
    BY <2>1 DEF Claimed
  <2>2. CASE \E a \in InFlight : a.action = "insert" /\ a.uid = d /\ a.name = u
    <3>1. PICK a \in InFlight : a.action = "insert" /\ a.uid = d /\ a.name = u
      BY <2>2
    <3> QED BY <3>1 DEF Claimed
  <2> QED BY <1>3, <2>1, <2>2 DEF Claimed
<1>4. \A a \in InFlight' : a.action = "update" => HasRow(a.name, a.uid)'
  BY DEF RowsStay
<1> QED BY <1>2, <1>3, <1>4

\* The records of the last step are sound, as claims stay or are lost.
LEMMA SoundStays ==
    ASSUME \A u, d : Claimed(u, d) => Claimed(u, d)' \/ d \in lost', lost \subseteq lost'
    PROVE  \A r : Sound(r) => Sound(r)'
BY DEF Sound

LEMMA RowsSame ==
    ASSUME UNCHANGED table
    PROVE  \A u, d : HasRow(u, d)' <=> HasRow(u, d)
BY DEF HasRow

LEMMA FeedKept ==
    ASSUME FeedOK, UNCHANGED feed, \A u, d : HasRow(u, d) => HasRow(u, d)'
    PROVE  FeedOK'
BY DEF FeedOK

LEMMA FeedGrows ==
    ASSUME FeedOK, feed \in Seq(Record), NEW r \in Record, feed' = Append(feed, r),
           \A u, d : HasRow(u, d) => HasRow(u, d)', HasRow(r.name, r.uid)'
    PROVE  FeedOK' /\ feed' \in Seq(Record) /\ 1..Len(feed) \subseteq 1..Len(feed')
<1>1. /\ feed' \in Seq(Record) /\ Len(feed) \in Nat
      /\ Len(feed') = Len(feed) + 1 /\ feed'[Len(feed) + 1] = r
      /\ \A i \in 1..Len(feed) : feed'[i] = feed[i]
  BY AppendProperties, LenProperties
<1>2. \A i \in 1..Len(feed') : i \in 1..Len(feed) \/ i = Len(feed) + 1
  BY <1>1
<1>3. ASSUME NEW i \in 1..Len(feed'), NEW u, NEW d, u = feed'[i].name, d = feed'[i].uid
      PROVE  HasRow(u, d)'
  <2>1. CASE i \in 1..Len(feed)
    BY <1>1, <1>3, <2>1 DEF FeedOK
  <2>2. CASE i = Len(feed) + 1
    BY <1>1, <1>3, <2>2
  <2> QED BY <1>2, <2>1, <2>2
<1>4. FeedOK'
  BY <1>3 DEF FeedOK
<1> QED BY <1>1, <1>4

LEMMA SeenKept ==
    ASSUME SeenOK, \A u, d : HasRow(u, d) => HasRow(u, d)',
           \A c \in Caller : \A d \in Uid : seen'[c][d] \in {seen[c][d], table[d], NoRow}
    PROVE  SeenOK'
<1>1. ASSUME NEW c \in Caller, NEW d \in Uid, seen'[c][d] # NoRow
      PROVE  HasRow(seen'[c][d].name, d)
  BY <1>1 DEF SeenOK, HasRow
<1>2. ASSUME NEW c \in Caller, NEW d \in Uid, seen'[c][d] # NoRow,
             NEW u, u = seen'[c][d].name
      PROVE  HasRow(u, d)'
  BY <1>1, <1>2
<1> QED BY <1>2 DEF SeenOK

\* A step that makes no claim: rows come of claims and stay, and what is no longer to be done
\* is done or lost.
LEMMA ClaimsQuiet ==
    ASSUME OneClaim, RowsStay,
           \A u, d : HasRow(u, d) => HasRow(u, d)',
           \A u, d : HasRow(u, d)' => Claimed(u, d),
           InFlight' \subseteq InFlight, drawn' = drawn,
           \A a \in InFlight : \/ a \in InFlight' \/ a.action = "update"
                               \/ HasRow(a.name, a.uid)' \/ a.uid \in lost',
           lost \subseteq lost', FeedOK', SeenOK',
           \A u \in Unit : memory'[u] # NoRecord => memory'[u].name = u,
           \A u \in Unit : Sound(memory'[u]), Sound(pending')
    PROVE  OneClaim' /\ RowsStay' /\ RecordsOK'
<1>3. /\ OneClaim'
      /\ \A u, d : Claimed(u, d) => Claimed(u, d)' \/ d \in lost'
      /\ \A a \in InFlight' : a.action = "update" => HasRow(a.name, a.uid)'
  BY NoClaimMade
<1>4. \A r : Sound(r) => Sound(r)'
  BY <1>3, SoundStays
<1>5. RowsStay'
  BY <1>3 DEF RowsStay
<1>6. RecordsOK'
  <2>2. \A u \in Unit : Sound(memory[u])'
    BY <1>4 DEF Sound
  <2>3. Sound(pending)'
    BY <1>4 DEF Sound
  <2> QED BY <2>2, <2>3 DEF RecordsOK
<1> QED BY <1>3, <1>5, <1>6

\* As above, where the rows are not written.
LEMMA ClaimsStill ==
    ASSUME OneClaim, RowsStay, UNCHANGED <<table, drawn, feed>>,
           \A c \in Caller : \A d \in Uid : seen'[c][d] \in {seen[c][d], table[d], NoRow},
           InFlight' \subseteq InFlight, lost \subseteq lost',
           \A a \in InFlight : a \in InFlight' \/ a.action = "update" \/ a.uid \in lost',
           \A u \in Unit : memory'[u] # NoRecord => memory'[u].name = u,
           \A u \in Unit : Sound(memory'[u]), Sound(pending')
    PROVE  OneClaim' /\ RowsStay' /\ RecordsOK'
<1>1. \A u, d : HasRow(u, d)' <=> HasRow(u, d)
  BY RowsSame
<1>2. \A u, d : HasRow(u, d) => Claimed(u, d)
  BY DEF Claimed
<1>3. FeedOK' /\ SeenOK'
  BY <1>1, FeedKept, SeenKept DEF RowsStay
<1> QED BY <1>1, <1>2, <1>3, ClaimsQuiet

(* The requests of the slurper *)

LEMMA NoneOfSlurper ==
    ASSUME RequestsOK, slurper \notin {"asking", "sending"}
    PROVE  \A i \in 1..Len(inbox) : inbox[i].from # "slurper"
BY DEF RequestsOK

LEMMA RequestsSame ==
    ASSUME RequestsOK, UNCHANGED inbox,
           \/ UNCHANGED slurper
           \/ \A i \in 1..Len(inbox) : inbox[i].from # "slurper"
    PROVE  RequestsOK' /\ Sent' = Sent
BY DEF RequestsOK, Sent

LEMMA RequestsGone ==
    ASSUME RequestsOK, inbox \in Seq(Request), NEW C, Orphaned(C),
           UNCHANGED slurper \/ "slurper" \in C
    PROVE  /\ RequestsOK' /\ inbox' \in Seq(Request) /\ Sent' = Sent
           /\ (\A i \in 1..Len(inbox) : inbox[i].todo = {})
                => \A i \in 1..Len(inbox') : inbox'[i].todo = {}
<1>1. /\ inbox' \in Seq(Request) /\ Len(inbox') = Len(inbox) /\ Len(inbox) \in Nat
      /\ \A i \in 1..Len(inbox) :
           /\ inbox'[i].todo = inbox[i].todo /\ inbox'[i].endPoint = inbox[i].endPoint
           /\ inbox'[i].from = IF inbox[i].from \in C THEN "nobody" ELSE inbox[i].from
      /\ Sent' = Sent
  BY CallersGone
<1>2. \A i \in 1..Len(inbox') :
        inbox'[i].from = "slurper" => inbox[i].from = "slurper" /\ UNCHANGED slurper
  BY <1>1
<1>3. RequestsOK'
  BY <1>1, <1>2 DEF RequestsOK
<1> QED BY <1>1, <1>3

LEMMA RequestsTaken ==
    ASSUME RequestsOK, inbox \in Seq(Request), inbox # <<>>, inbox' = Tail(inbox),
           UNCHANGED slurper \/ Head(inbox).from = "slurper"
    PROVE  /\ RequestsOK'
           /\ (\A i \in 1..Len(inbox) : inbox[i].todo = {})
                => \A i \in 1..Len(inbox') : inbox'[i].todo = {}
<1>1. /\ Len(inbox') \in Nat /\ Head(inbox) = inbox[1] /\ 1 \in 1..Len(inbox)
      /\ \A i \in 1..Len(inbox') : i + 1 \in 1..Len(inbox) /\ inbox'[i] = inbox[i + 1]
  BY HeadTaken
<1>2. \A i \in 1..Len(inbox') : inbox'[i].from = "slurper" => UNCHANGED slurper
  <2> SUFFICES ASSUME NEW i \in 1..Len(inbox'), inbox'[i].from = "slurper",
                      inbox[1].from = "slurper"
               PROVE  FALSE
    BY <1>1
  <2>1. inbox[i + 1].from = "slurper" /\ i + 1 \in 1..Len(inbox) /\ i + 1 # 1
    BY <1>1
  <2> QED BY <1>1, <2>1 DEF RequestsOK
<1>3. \A i, j \in 1..Len(inbox') :
        inbox'[i].from = "slurper" /\ inbox'[j].from = "slurper" => i = j
  <2> SUFFICES ASSUME NEW i \in 1..Len(inbox'), NEW j \in 1..Len(inbox'),
                      inbox'[i].from = "slurper", inbox'[j].from = "slurper"
               PROVE  i = j
    OBVIOUS
  <2>1. i + 1 = j + 1
    BY <1>1 DEF RequestsOK
  <2> QED BY <2>1
<1>4. ASSUME NEW i \in 1..Len(inbox'), inbox'[i].from = "slurper"
      PROVE  \/ slurper' = "sending" /\ inbox'[i].endPoint = "crud"
             \/ /\ slurper' = "asking" /\ inbox'[i].endPoint = "list"
                /\ \A j \in 1..Len(inbox') : j > i => inbox'[j].todo = {}
  <2>1. i + 1 \in 1..Len(inbox) /\ inbox[i + 1].from = "slurper" /\ slurper' = slurper
    BY <1>1, <1>2, <1>4
  <2>2. CASE slurper = "sending" /\ inbox[i + 1].endPoint = "crud"
    BY <1>1, <2>1, <2>2
  <2>3. CASE /\ slurper = "asking" /\ inbox[i + 1].endPoint = "list"
             /\ \A j \in 1..Len(inbox) : j > i + 1 => inbox[j].todo = {}
    <3>1. ASSUME NEW j \in 1..Len(inbox'), j > i PROVE inbox'[j].todo = {}
      <4>1. j + 1 \in 1..Len(inbox) /\ j + 1 > i + 1 /\ inbox'[j] = inbox[j + 1]
        BY <1>1, <3>1
      <4> QED BY <2>3, <4>1
    <3> QED BY <1>1, <2>1, <2>3, <3>1
  <2> QED BY <2>1, <2>2, <2>3 DEF RequestsOK
<1>5. \A i \in 1..Len(inbox') : inbox'[i].endPoint = "list" => inbox'[i].todo = {}
  BY <1>1 DEF RequestsOK
<1>6. RequestsOK'
  BY <1>3, <1>4, <1>5 DEF RequestsOK
<1> QED BY <1>1, <1>6

LEMMA RequestsPosted ==
    ASSUME AskType, RequestsOK, NEW c \in Caller, NEW endPoint \in {"list", "crud"},
           NEW todo \in SUBSET Crud, Post(c, endPoint, todo), endPoint = "list" => todo = {},
           \/ c = "manager" /\ todo = {} /\ slurper' = slurper
           \/ /\ c = "slurper" /\ slurper \notin {"asking", "sending"}
              /\ slurper' = IF endPoint = "list" THEN "asking" ELSE "sending"
    PROVE  /\ RequestsOK' /\ inbox' \in Seq(Request)
           /\ Sent' = IF byValue THEN Sent \cup todo ELSE Sent
           /\ todo = {} /\ (\A i \in 1..Len(inbox) : inbox[i].todo = {})
                => \A i \in 1..Len(inbox') : inbox'[i].todo = {}
<1>0. inbox \in Seq(Request)
  BY DEF AskType
<1>1. CASE ~ byValue
  <2>1. UNCHANGED inbox
    BY <1>1 DEF Post
  <2>2. UNCHANGED slurper \/ \A i \in 1..Len(inbox) : inbox[i].from # "slurper"
    BY NoneOfSlurper
  <2> QED BY <1>0, <1>1, <2>1, <2>2, RequestsSame
<1>2. CASE byValue
  <2> DEFINE r == [from |-> c, endPoint |-> endPoint, todo |-> todo]
  <2>0. r \in Request /\ r.from = c /\ r.endPoint = endPoint /\ r.todo = todo
    BY CallersAre DEF Request
  <2>1. inbox' = Append(inbox, r)
    BY <1>2 DEF Post
  <2> HIDE DEF r
  <2>2. /\ inbox' \in Seq(Request) /\ Len(inbox) \in Nat
        /\ Len(inbox') = Len(inbox) + 1 /\ inbox'[Len(inbox) + 1] = r
        /\ \A i \in 1..Len(inbox) : inbox'[i] = inbox[i]
        /\ Sent' = Sent \cup r.todo
    BY <1>0, <2>0, <2>1, Posted
  <2>3. \A i \in 1..Len(inbox') : i \in 1..Len(inbox) \/ i = Len(inbox) + 1
    BY <2>2
  <2>4. \A i \in 1..Len(inbox') : inbox'[i].endPoint = "list" => inbox'[i].todo = {}
    BY <2>0, <2>2, <2>3 DEF RequestsOK
  <2>5. ASSUME c = "manager" /\ todo = {} /\ slurper' = slurper PROVE RequestsOK'
    <3>1. \A i \in 1..Len(inbox') : inbox'[i].from = "slurper" =>
            i \in 1..Len(inbox) /\ inbox'[i] = inbox[i]
      BY <2>0, <2>2, <2>3, <2>5
    <3>2. \A i, j \in 1..Len(inbox') :
            inbox'[i].from = "slurper" /\ inbox'[j].from = "slurper" => i = j
      BY <3>1 DEF RequestsOK
    <3>3. ASSUME NEW i \in 1..Len(inbox'), inbox'[i].from = "slurper"
          PROVE  \/ slurper' = "sending" /\ inbox'[i].endPoint = "crud"
                 \/ /\ slurper' = "asking" /\ inbox'[i].endPoint = "list"
                    /\ \A j \in 1..Len(inbox') : j > i => inbox'[j].todo = {}
      <4>1. i \in 1..Len(inbox) /\ inbox'[i] = inbox[i]
        BY <3>1, <3>3
      <4>2. CASE slurper = "sending" /\ inbox[i].endPoint = "crud"
        BY <2>5, <4>1, <4>2
      <4>3. CASE /\ slurper = "asking" /\ inbox[i].endPoint = "list"
                 /\ \A j \in 1..Len(inbox) : j > i => inbox[j].todo = {}
        BY <2>0, <2>2, <2>3, <2>5, <4>1, <4>3
      <4> QED BY <3>3, <4>1, <4>2, <4>3 DEF RequestsOK
    <3> QED BY <2>4, <3>2, <3>3 DEF RequestsOK
  <2>6. ASSUME /\ c = "slurper" /\ slurper \notin {"asking", "sending"}
               /\ slurper' = IF endPoint = "list" THEN "asking" ELSE "sending"
        PROVE  RequestsOK'
    <3>1. \A i \in 1..Len(inbox') : inbox'[i].from = "slurper" => i = Len(inbox) + 1
      BY <2>2, <2>3, <2>6, NoneOfSlurper
    <3>2. \A i \in 1..Len(inbox') : inbox'[i].from = "slurper" =>
             \/ slurper' = "sending" /\ inbox'[i].endPoint = "crud"
             \/ /\ slurper' = "asking" /\ inbox'[i].endPoint = "list"
                /\ \A j \in 1..Len(inbox') : j > i => inbox'[j].todo = {}
      BY <2>0, <2>2, <2>6, <3>1
    <3>3. \A i, j \in 1..Len(inbox') :
            inbox'[i].from = "slurper" /\ inbox'[j].from = "slurper" => i = j
      BY <3>1
    <3> QED BY <2>4, <3>2, <3>3 DEF RequestsOK
  <2>7. RequestsOK'
    BY <2>5, <2>6
  <2> QED BY <1>2, <2>0, <2>2, <2>3, <2>7
<1> QED BY <1>1, <1>2

LEMMA RequestsShortened ==
    ASSUME RequestsOK, inbox \in Seq(Request), inbox # <<>>,
           NEW rest, rest \subseteq Head(inbox).todo, Head(inbox).endPoint # "list",
           inbox' = [inbox EXCEPT ![1].todo = rest], UNCHANGED slurper
    PROVE  /\ RequestsOK' /\ inbox' \in Seq(Request)
<1>1. /\ inbox' \in Seq(Request) /\ Len(inbox') = Len(inbox) /\ Len(inbox) \in Nat
      /\ Head(inbox) = inbox[1] /\ 1 \in 1..Len(inbox)
      /\ inbox'[1].todo = rest /\ inbox'[1].from = inbox[1].from
      /\ inbox'[1].endPoint = inbox[1].endPoint
      /\ \A i \in 1..Len(inbox) : i # 1 => inbox'[i] = inbox[i]
  BY HeadShortened
<1>2. \A i \in 1..Len(inbox) :
        /\ inbox'[i].from = inbox[i].from /\ inbox'[i].endPoint = inbox[i].endPoint
        /\ inbox'[i].todo \subseteq inbox[i].todo
  BY <1>1
<1>3. RequestsOK'
  BY <1>1, <1>2 DEF RequestsOK
<1> QED BY <1>1, <1>3

LEMMA IdentityInit == Init => IdentityInv
<1> SUFFICES ASSUME Init PROVE IdentityInv
  OBVIOUS
<1>0. /\ Len(Registered) \in Nat /\ Len(Registered) \in 0..MaxUid /\ MaxUid \in Nat
      /\ \A d \in 1..Len(Registered) : Registered[d] \in Unit
      /\ NoRow \notin Row /\ NoRecord \notin Record
  BY RegistryAssumption, ElementOfSeq, LenProperties
<1>1. table = [d \in Uid |-> IF d > Len(Registered) THEN NoRow
                 ELSE [name |-> Registered[d], enabled |-> FALSE, status |-> "dead"]]
  BY DEF Init
<1>2. \A d \in Uid : \/ d > Len(Registered) /\ table[d] = NoRow
                     \/ /\ d \in 1..Len(Registered) /\ table[d] \in Row
                        /\ table[d].name = Registered[d]
  <2> SUFFICES ASSUME NEW d \in Uid, ~ (d > Len(Registered))
               PROVE  /\ d \in 1..Len(Registered) /\ table[d] \in Row
                      /\ table[d].name = Registered[d]
    BY <1>1
  <2>1. d \in 1..Len(Registered)
    BY <1>0 DEF Uid
  <2> QED BY <1>0, <1>1, <2>1 DEF Row, Status
<1>3. TableType
  <2>1. table \in [Uid -> Row \cup {NoRow}]
    BY <1>1, <1>2
  <2>2. systemd \in [Unit -> Status]
    BY DEF Init, Status
  <2>3. byValue \in BOOLEAN
    BY RegistryAssumption DEF Init
  <2> QED BY <1>0, <1>2, <2>1, <2>2, <2>3, EmptySeq DEF Init, TableType
<1>4. AskType /\ SlurpType /\ FollowType
  <2>1. AskType
    BY EmptySeq DEF Init, AskType, Nothing, NoTable
  <2>2. SlurpType
    BY DEF Init, SlurpType, Status
  <2>3. FollowType
    BY RegistryAssumption DEF Init, FollowType
  <2> QED BY <2>1, <2>2, <2>3
<1>5. Len(inbox) = 0 /\ Len(feed) = 0 /\ crudActions = {} /\ InFlight = {}
  BY EmptySeq DEF Init, InFlight, Sent
<1>6. RowsStay
  BY <1>5 DEF RowsStay, FeedOK, SeenOK, Init, NoTable
<1>7. OneClaim
  <2>1. \A u, d : Claimed(u, d) => d \in 1..Len(Registered) /\ u = Registered[d]
    BY <1>0, <1>2, <1>5 DEF Claimed, HasRow
  <2> QED BY <1>5, <2>1, RegistryAssumption DEF OneClaim
<1>8. RecordsOK /\ SlurperOK /\ RequestsOK
  BY <1>5 DEF RecordsOK, Sound, SlurperOK, RequestsOK, Init
<1> QED BY <1>3, <1>4, <1>6, <1>7, <1>8, TypeParts DEF IdentityInv

\* What the steps need of the invariant.
LEMMA IdentityParts ==
    IdentityInv => /\ TableType /\ AskType /\ SlurpType /\ FollowType
                   /\ RowsStay /\ OneClaim /\ RecordsOK /\ SlurperOK /\ RequestsOK
                   /\ inbox \in Seq(Request) /\ Len(inbox) \in Nat
BY TypeParts, LenProperties DEF IdentityInv, AskType

LEMMA IdentityWhole ==
    TableType' /\ AskType' /\ SlurpType' /\ FollowType'
      /\ RowsStay' /\ OneClaim' /\ RecordsOK' /\ SlurperOK' /\ RequestsOK' => IdentityInv'
BY TypeParts, PTL DEF IdentityInv

\* A step that touches no row, no record and no claim.
LEMMA IdentityStill ==
    ASSUME IdentityInv,
           UNCHANGED <<table, drawn, feed, crudActions, pending, memory, seen, lost>>,
           TableType', AskType', SlurpType', FollowType',
           Sent' = Sent, SlurperOK', RequestsOK'
    PROVE  IdentityInv'
<1>1. RowsStay /\ OneClaim /\ RecordsOK
  BY IdentityParts
<1>2. InFlight' = InFlight
  BY DEF InFlight
<1>3. OneClaim' /\ RowsStay' /\ RecordsOK'
  BY <1>1, <1>2, ClaimsStill DEF RecordsOK
<1> QED BY <1>3, IdentityWhole

LEMMA IdentityStart ==
    ASSUME IdentityInv, Start PROVE IdentityInv'
<1>0. /\ TableType /\ AskType /\ SlurpType /\ FollowType /\ SlurperOK /\ RequestsOK
      /\ UNCHANGED <<byValue, systemd, table, drawn, feed, inbox, memory, units, crudActions,
                     pending, seen, left, consumer, next, due, excused, lost>>
      /\ minion = "down" /\ minion' = "up" /\ slurper' = "list" /\ manager' = "connect"
  BY IdentityParts DEF Start, database, answers, following
<1>1. slurper = "off" /\ pending = NoRecord /\ crudActions = {}
  BY <1>0 DEF SlurperOK, SlurpType
<1>2. events' \in 0..MaxEvents
  BY <1>0, HappensType DEF Start, FollowType
<1>3. TableType' /\ AskType' /\ SlurpType' /\ FollowType'
  BY <1>0, <1>1, <1>2 DEF TableType, AskType, SlurpType, FollowType
<1>4. RequestsOK' /\ Sent' = Sent
  BY <1>0, <1>1, NoneOfSlurper, RequestsSame
<1>5. SlurperOK'
  BY <1>0, <1>1 DEF SlurperOK
<1> QED BY <1>0, <1>3, <1>4, <1>5, IdentityStill

LEMMA IdentityMove ==
    ASSUME IdentityInv, NEW u \in Unit, Move(u) PROVE IdentityInv'
<1>0. /\ TableType /\ AskType /\ SlurpType /\ FollowType /\ SlurperOK /\ RequestsOK
      /\ UNCHANGED <<byValue, table, drawn, feed, inbox, minion, memory, slurper, units,
                     crudActions, pending, manager, seen, left, consumer, next, due, excused, lost>>
  BY IdentityParts DEF Move, database, slurping, answers, following
<1>1. systemd' \in [Unit -> Status]
  BY <1>0 DEF Move, TableType
<1>2. events' \in 0..MaxEvents
  BY <1>0, HappensType DEF Move, FollowType
<1>3. TableType' /\ AskType' /\ SlurpType' /\ FollowType'
  BY <1>0, <1>1, <1>2 DEF TableType, AskType, SlurpType, FollowType
<1>4. RequestsOK' /\ Sent' = Sent
  BY <1>0, RequestsSame
<1>5. SlurperOK'
  BY <1>0 DEF SlurperOK
<1> QED BY <1>0, <1>3, <1>4, <1>5, IdentityStill

LEMMA InsertsAre ==
    \A A : \A a \in A : a.action = "insert" => a.uid \in Inserts(A)
BY DEF Inserts

LEMMA InsertsType ==
    \A A : A \subseteq Crud => Inserts(A) \subseteq Uid
BY DEF Inserts, Crud

\* What is to be done is an insert or an update.
LEMMA InFlightType ==
    AskType /\ SlurpType => /\ InFlight \subseteq Crud
                            /\ \A a \in InFlight : a.action \in {"insert", "update"}
<1> SUFFICES ASSUME AskType, SlurpType PROVE InFlight \subseteq Crud
  BY DEF Crud
<1>1. \A i \in 1..Len(inbox) : inbox[i].todo \subseteq Crud
  <2> SUFFICES ASSUME NEW i \in 1..Len(inbox) PROVE inbox[i].todo \subseteq Crud
    OBVIOUS
  <2>1. inbox[i] \in Request
    BY ElementOfSeq DEF AskType
  <2> QED BY <2>1 DEF Request
<1> QED BY <1>1 DEF InFlight, Sent, SlurpType

LEMMA IdentityCrash ==
    ASSUME IdentityInv, Crash PROVE IdentityInv'
<1>0. /\ TableType /\ AskType /\ SlurpType /\ FollowType /\ SlurperOK /\ RequestsOK
      /\ RowsStay /\ OneClaim /\ inbox \in Seq(Request)
      /\ UNCHANGED <<byValue, systemd, table, drawn, feed>>
      /\ minion' = "down" /\ memory' = [u \in Unit |-> NoRecord]
      /\ slurper' = "off" /\ manager' = "off" /\ consumer' = "off"
      /\ units' = [u \in Unit |-> "gone"] /\ crudActions' = {} /\ pending' = NoRecord
      /\ seen' = [c \in Caller |-> NoTable] /\ left' = Nothing /\ next' = 1 /\ due' = {}
      /\ Orphaned(Caller) /\ lost' = lost \cup Inserts(crudActions) /\ excused' = {}
  BY IdentityParts DEF Crash, database
<1>1. RequestsOK' /\ inbox' \in Seq(Request) /\ Sent' = Sent
  BY <1>0, CallersAre, RequestsGone
<1>2. events' \in 0..MaxEvents
  BY <1>0, HappensType DEF Crash, FollowType
<1>3. TableType' /\ AskType' /\ SlurpType' /\ FollowType'
  <2>1. TableType'
    BY <1>0 DEF TableType
  <2>2. AskType'
    BY <1>0, <1>1 DEF AskType, NoTable, Nothing
  <2>3. SlurpType'
    BY <1>0 DEF SlurpType, Status
  <2>4. FollowType'
    BY <1>0, <1>2, InsertsType DEF FollowType, SlurpType
  <2> QED BY <2>1, <2>2, <2>3, <2>4
<1>4. OneClaim' /\ RowsStay' /\ RecordsOK'
  <2>1. InFlight' \subseteq InFlight
    BY <1>0, <1>1 DEF InFlight
  <2>2. \A a \in InFlight : a \in InFlight' \/ a.action = "update" \/ a.uid \in lost'
    BY <1>0, <1>1, InFlightType, InsertsAre DEF InFlight
  <2>3. \A c \in Caller : \A d \in Uid : seen'[c][d] \in {seen[c][d], table[d], NoRow}
    BY <1>0 DEF NoTable
  <2>4. Sound(pending') /\ \A u \in Unit : memory'[u] = NoRecord /\ Sound(memory'[u])
    BY <1>0 DEF Sound
  <2> QED BY <1>0, <2>1, <2>2, <2>3, <2>4, ClaimsStill
<1>5. SlurperOK'
  BY <1>0 DEF SlurperOK
<1> QED BY <1>1, <1>3, <1>4, <1>5, IdentityWhole

LEMMA IdentityEdit ==
    ASSUME IdentityInv, NEW d \in Uid, Edit(d) PROVE IdentityInv'
<1> DEFINE r == [uid |-> d, name |-> table[d].name, enabled |-> ~ table[d].enabled]
<1>0. /\ TableType /\ AskType /\ SlurpType /\ FollowType /\ SlurperOK /\ RequestsOK
      /\ RowsStay /\ OneClaim /\ RecordsOK
      /\ UNCHANGED <<byValue, systemd, drawn, inbox, minion, memory, slurper, units,
                     crudActions, pending, manager, seen, left, consumer, next, due, lost>>
      /\ table[d] # NoRow /\ table' = [table EXCEPT ![d].enabled = ~ @]
      /\ feed' = Append(feed, r)
  BY IdentityParts DEF Edit, slurping, answers, following
<1>1. /\ table[d] \in Row /\ table'[d] \in Row /\ table'[d].name = table[d].name
      /\ table'[d] # NoRow
      /\ \A e \in Uid : e # d => table'[e] = table[e]
      /\ table' \in [Uid -> Row \cup {NoRow}] /\ r \in Record
  <2>1. table[d] \in Row /\ table \in [Uid -> Row \cup {NoRow}]
    BY <1>0 DEF TableType
  <2>2. table'[d] = [table[d] EXCEPT !.enabled = ~ table[d].enabled]
    BY <1>0, <2>1
  <2>3. table'[d] \in Row /\ table'[d].name = table[d].name
    BY <2>1, <2>2 DEF Row
  <2>4. r \in Record
    BY <2>1 DEF Row, Record
  <2>5. \A e \in Uid : e # d => table'[e] = table[e]
    BY <1>0, <2>1
  <2>6. table' \in [Uid -> Row \cup {NoRow}]
    <3>1. table' = [e \in Uid |-> table'[e]]
      BY <1>0, <2>1
    <3> QED BY <2>1, <2>3, <2>5, <3>1
  <2> QED BY <2>1, <2>3, <2>4, <2>5, <2>6, RegistryAssumption
<1>2. /\ \A u, e : HasRow(u, e)' <=> HasRow(u, e)
  BY <1>0, <1>1 DEF HasRow
<1> HIDE DEF r
<1>9. PICK q \in Record : q = r
  BY <1>1
<1>10. HasRow(q.name, q.uid)'
  <2>1. q.name = table[d].name /\ q.uid = d
    BY <1>9 DEF r
  <2>2. q.name = table'[d].name /\ q.uid = d
    BY <1>1, <2>1
  <2> QED BY <1>1, <2>2 DEF HasRow
<1>3. FeedOK' /\ feed' \in Seq(Record) /\ 1..Len(feed) \subseteq 1..Len(feed')
  <2>1. FeedOK /\ feed \in Seq(Record)
    BY <1>0 DEF RowsStay, TableType
  <2> QED BY <1>0, <1>2, <1>9, <1>10, <2>1, FeedGrows
<1>4. events' \in 0..MaxEvents /\ excused' \subseteq Unit
  <2>1. events' \in 0..MaxEvents
    BY <1>0, HappensType DEF Edit, FollowType
  <2>2. table[d].name \in Unit
    BY <1>1 DEF Row
  <2>3. excused' \in {excused, excused \cup {table[d].name}}
    BY DEF Edit, Excuse
  <2> QED BY <1>0, <2>1, <2>2, <2>3 DEF FollowType
<1>5. TableType' /\ AskType' /\ SlurpType' /\ FollowType'
  <2>1. \A e \in Uid : e > drawn' => table'[e] = NoRow
    BY <1>0, <1>1 DEF TableType
  <2>2. TableType'
    BY <1>0, <1>1, <1>3, <2>1 DEF TableType
  <2> QED BY <1>0, <1>3, <1>4, <2>2 DEF AskType, SlurpType, FollowType
<1>6. RequestsOK' /\ Sent' = Sent
  BY <1>0, RequestsSame
<1>7. SlurperOK'
  BY <1>0, <1>1 DEF SlurperOK
<1>8. OneClaim' /\ RowsStay' /\ RecordsOK'
  <2>1. SeenOK'
    BY <1>0, <1>2, SeenKept DEF RowsStay
  <2>2. InFlight' = InFlight
    BY <1>0, <1>6 DEF InFlight
  <2>3. \A u, e : HasRow(u, e)' => Claimed(u, e)
    BY <1>2 DEF Claimed
  <2> QED BY <1>0, <1>2, <1>3, <2>1, <2>2, <2>3, ClaimsQuiet DEF RecordsOK
<1> QED BY <1>5, <1>6, <1>7, <1>8, IdentityWhole

\* Where a call returns, the slurper has nothing to send or to store.
LEMMA ReturnsType ==
    ASSUME AskType, SlurpType, SlurperOK, RequestsOK, NEW c, Returns(c),
           UNCHANGED <<units, crudActions, pending, minion>>, c = "slurper" => Waits(c)
    PROVE  /\ SlurpType' /\ (minion' = "down" => slurper' = "off")
           /\ slurper' # slurper =>
                /\ c = "slurper" /\ slurper' = "ticker"
                /\ crudActions = {} /\ slurper \notin {"compare", "store"}
           /\ manager' \in {"off", "connect", "asking", "initial", "watching", "ended"}
<1>1. CASE c = "slurper"
  <2>1. slurper \in {"asking", "sending"} /\ slurper' = "ticker" /\ manager' = manager
    BY <1>1 DEF Waits, Returns
  <2> QED BY <1>1, <2>1 DEF SlurpType, SlurperOK, AskType
<1>2. CASE c # "slurper"
  <2>1. slurper' = slurper /\ manager' \in {manager, "watching"}
    BY <1>2 DEF Returns
  <2> QED BY <2>1 DEF SlurpType, SlurperOK, AskType
<1> QED BY <1>1, <1>2

LEMMA IdentityTimeOut ==
    ASSUME IdentityInv, NEW c \in Caller, TimeOut(c) PROVE IdentityInv'
<1>0. /\ TableType /\ AskType /\ SlurpType /\ FollowType /\ SlurperOK /\ RequestsOK
      /\ UNCHANGED <<byValue, systemd, table, drawn, feed, minion, memory, units,
                     crudActions, pending, seen, left, consumer, next, due, excused, lost>>
      /\ inbox \in Seq(Request) /\ Waits(c) /\ Orphaned({c}) /\ Returns(c)
  BY IdentityParts DEF TimeOut, database, answers, following
<1>1. /\ SlurpType' /\ (minion' = "down" => slurper' = "off")
      /\ slurper' # slurper =>
           c = "slurper" /\ slurper' = "ticker" /\ crudActions = {}
             /\ slurper \notin {"compare", "store"}
      /\ manager' \in {"off", "connect", "asking", "initial", "watching", "ended"}
  BY <1>0, ReturnsType
<1>2. /\ RequestsOK' /\ inbox' \in Seq(Request) /\ Sent' = Sent
      /\ (\A i \in 1..Len(inbox) : inbox[i].todo = {})
           => \A i \in 1..Len(inbox') : inbox'[i].todo = {}
  BY <1>0, <1>1, RequestsGone
<1>3. events' \in 0..MaxEvents
  BY <1>0, HappensType, FailsIs DEF TimeOut, FollowType
<1>4. TableType' /\ AskType' /\ FollowType'
  BY <1>0, <1>1, <1>2, <1>3 DEF TableType, AskType, FollowType
<1>5. SlurperOK'
  BY <1>0, <1>1, <1>2 DEF SlurperOK
<1> QED BY <1>0, <1>1, <1>2, <1>4, <1>5, IdentityStill

LEMMA IdentityNoAnswer ==
    ASSUME IdentityInv, NEW c \in Caller, NoAnswer(c) PROVE IdentityInv'
<1>0. /\ TableType /\ AskType /\ SlurpType /\ FollowType /\ SlurperOK /\ RequestsOK
      /\ UNCHANGED <<byValue, systemd, table, drawn, feed, inbox, minion, memory, units,
                     crudActions, pending, seen, left, consumer, next, due, excused, lost>>
      /\ inbox \in Seq(Request) /\ Waits(c) /\ ~ Unanswered(c) /\ Returns(c)
      /\ UNCHANGED events
  BY IdentityParts DEF NoAnswer, database, answers, following, NoFault
<1>1. /\ SlurpType' /\ (minion' = "down" => slurper' = "off")
      /\ slurper' # slurper =>
           c = "slurper" /\ slurper' = "ticker" /\ crudActions = {}
             /\ slurper \notin {"compare", "store"}
      /\ manager' \in {"off", "connect", "asking", "initial", "watching", "ended"}
  BY <1>0, ReturnsType
<1>2. \A i \in 1..Len(inbox) : inbox[i].from # c
  BY <1>0, LenProperties DEF Unanswered
<1>3. RequestsOK' /\ Sent' = Sent
  BY <1>0, <1>1, <1>2, RequestsSame
<1>4. TableType' /\ AskType' /\ FollowType'
  BY <1>0, <1>1 DEF TableType, AskType, FollowType
<1>5. SlurperOK'
  BY <1>0, <1>1 DEF SlurperOK
<1> QED BY <1>0, <1>1, <1>3, <1>4, <1>5, IdentityStill

LEMMA NamedType == TableType => Named(table) \subseteq Unit
BY DEF Named, TableType, Row

\* Rows and names that a caller gets.
LEMMA AnsweredType ==
    ASSUME TableType, AskType, SlurpType, NEW c \in Caller \cup {"nobody"}, Answered(c)
    PROVE  /\ left' \in [Caller -> SUBSET Unit]
           /\ seen' \in [Caller -> [Uid -> Row \cup {NoRow}]]
           /\ manager' \in {"off", "connect", "asking", "initial", "watching", "ended"}
           /\ \A k \in Caller : seen'[k] = IF k = c THEN table ELSE seen[k]
           /\ slurper' = IF c = "slurper" THEN "compare" ELSE slurper
<1>1. seen' = [k \in Caller |-> IF k = c THEN table ELSE seen[k]]
  BY DEF Answered
<1>2. seen' \in [Caller -> [Uid -> Row \cup {NoRow}]]
  BY <1>1 DEF TableType, AskType
<1>3. left' \in [Caller -> SUBSET Unit]
  <2>1. Named(table) \subseteq Unit /\ left \in [Caller -> SUBSET Unit]
    BY NamedType DEF AskType
  <2> QED BY <2>1 DEF Answered
<1>4. /\ manager' \in {"off", "connect", "asking", "initial", "watching", "ended"}
      /\ slurper' = IF c = "slurper" THEN "compare" ELSE slurper
  <2>1. c \in {"slurper", "manager", "nobody"}
    BY CallersAre
  <2> QED BY <2>1 DEF Answered, AskType
<1> QED BY <1>1, <1>2, <1>3, <1>4

LEMMA IdentityList ==
    ASSUME IdentityInv, ListSystemdServices PROVE IdentityInv'
<1> DEFINE c == Head(inbox).from
<1>0. /\ TableType /\ AskType /\ SlurpType /\ FollowType /\ SlurperOK /\ RequestsOK
      /\ RowsStay /\ OneClaim /\ RecordsOK
      /\ UNCHANGED <<byValue, systemd, table, drawn, feed, minion, memory, units,
                     crudActions, pending, consumer, next, due, excused, lost>>
      /\ inbox \in Seq(Request) /\ inbox # <<>> /\ Head(inbox).endPoint = "list"
      /\ inbox' = Tail(inbox)
      /\ \/ Answered(c) /\ NoFault
         \/ Returns(c) /\ Fails("db") /\ UNCHANGED <<seen, left>>
  BY IdentityParts DEF ListSystemdServices, NothingOfMinion, database, answers, following
<1>1. /\ inbox' \in Seq(Request) /\ Len(inbox') \in Nat /\ Head(inbox) = inbox[1]
      /\ Head(inbox) \in Request /\ 1 \in 1..Len(inbox)
      /\ \A i \in 1..Len(inbox') : i + 1 \in 1..Len(inbox) /\ inbox'[i] = inbox[i + 1]
      /\ Sent = Head(inbox).todo \cup Sent'
  BY <1>0, HeadTaken
<1>2. c \in Caller \cup {"nobody"} /\ Head(inbox).todo = {} /\ Sent' = Sent
  <2>1. c \in Caller \cup {"nobody"}
    BY <1>1 DEF Request
  <2> QED BY <1>0, <1>1, <2>1 DEF RequestsOK
<1>3. c = "slurper" => /\ slurper = "asking" /\ Waits("slurper")
                       /\ \A i \in 1..Len(inbox') : inbox'[i].todo = {}
  <2> SUFFICES ASSUME c = "slurper" PROVE  /\ slurper = "asking"
                                           /\ \A i \in 1..Len(inbox') : inbox'[i].todo = {}
    BY DEF Waits
  <2>1. slurper = "asking" /\ \A j \in 1..Len(inbox) : j > 1 => inbox[j].todo = {}
    BY <1>0, <1>1 DEF RequestsOK
  <2>2. ASSUME NEW i \in 1..Len(inbox') PROVE inbox'[i].todo = {}
    <3>1. i + 1 \in 1..Len(inbox) /\ i + 1 > 1 /\ inbox'[i] = inbox[i + 1]
      BY <1>1
    <3> QED BY <2>1, <3>1
  <2> QED BY <2>1, <2>2
<1>4. InFlight' = InFlight
  BY <1>0, <1>2 DEF InFlight
<1> HIDE DEF c
<1>5. CASE Answered(c) /\ NoFault
  <2>1. /\ left' \in [Caller -> SUBSET Unit]
        /\ seen' \in [Caller -> [Uid -> Row \cup {NoRow}]]
        /\ manager' \in {"off", "connect", "asking", "initial", "watching", "ended"}
        /\ \A k \in Caller : seen'[k] = IF k = c THEN table ELSE seen[k]
        /\ slurper' = IF c = "slurper" THEN "compare" ELSE slurper
    BY <1>0, <1>2, <1>5, AnsweredType
  <2>2. TableType' /\ AskType' /\ FollowType'
    BY <1>0, <1>1, <1>5, <2>1 DEF TableType, AskType, FollowType, NoFault
  <2>3. SlurpType'
    BY <1>0, <1>3, <2>1 DEF SlurpType
  <2>4. RequestsOK'
    BY <1>0, <2>1, RequestsTaken DEF c
  <2>5. SlurperOK'
    <3>1. CASE c = "slurper"
      <4>1. crudActions' = {} /\ seen'["slurper"] = table
        BY <1>0, <1>3, <2>1, <3>1, CallersAre DEF SlurperOK
      <4>2. minion' # "down"
        BY <1>0, <1>3, <3>1 DEF SlurperOK
      <4> QED BY <1>0, <1>3, <2>1, <3>1, <4>1, <4>2 DEF SlurperOK
    <3>2. CASE c # "slurper"
      <4>1. (\A i \in 1..Len(inbox) : inbox[i].todo = {})
               => \A i \in 1..Len(inbox') : inbox'[i].todo = {}
        BY <1>0, <2>1, <3>2, RequestsTaken
      <4>2. seen'["slurper"] = seen["slurper"] /\ slurper' = slurper
        BY <2>1, <3>2, CallersAre
      <4>3. left'["slurper"] = left["slurper"]
        BY <1>5, <3>2, CallersAre DEF Answered
      <4> QED BY <1>0, <4>1, <4>2, <4>3 DEF SlurperOK
    <3> QED BY <3>1, <3>2
  <2>6. OneClaim' /\ RowsStay' /\ RecordsOK'
    <3>1. \A k \in Caller : \A d \in Uid : seen'[k][d] \in {seen[k][d], table[d], NoRow}
      BY <2>1
    <3> QED BY <1>0, <1>4, <3>1, ClaimsStill DEF RecordsOK
  <2> QED BY <2>2, <2>3, <2>4, <2>5, <2>6, IdentityWhole
<1>6. CASE Returns(c) /\ Fails("db") /\ UNCHANGED <<seen, left>>
  <2>1. /\ SlurpType' /\ (minion' = "down" => slurper' = "off")
        /\ slurper' # slurper =>
             c = "slurper" /\ slurper' = "ticker" /\ crudActions = {}
               /\ slurper \notin {"compare", "store"}
        /\ manager' \in {"off", "connect", "asking", "initial", "watching", "ended"}
    BY <1>0, <1>3, <1>6, ReturnsType
  <2>2. /\ RequestsOK'
        /\ (\A i \in 1..Len(inbox) : inbox[i].todo = {})
              => \A i \in 1..Len(inbox') : inbox'[i].todo = {}
    BY <1>0, <2>1, RequestsTaken DEF c
  <2>3. events' \in 0..MaxEvents
    BY <1>0, <1>6, HappensType, FailsIs DEF FollowType
  <2>4. TableType' /\ AskType' /\ FollowType'
    BY <1>0, <1>1, <1>6, <2>1, <2>3 DEF TableType, AskType, FollowType
  <2>5. SlurperOK'
    BY <1>0, <1>6, <2>1, <2>2 DEF SlurperOK
  <2> QED BY <1>0, <1>2, <1>6, <2>1, <2>2, <2>4, <2>5, IdentityStill
<1> QED BY <1>0, <1>5, <1>6

LEMMA IdentityNefarioDies ==
    ASSUME IdentityInv, NefarioDies PROVE IdentityInv'
<1>0. /\ TableType /\ AskType /\ SlurpType /\ FollowType /\ SlurperOK /\ RequestsOK
      /\ RowsStay /\ OneClaim /\ RecordsOK
      /\ UNCHANGED <<byValue, systemd, table, drawn, feed, minion, memory, slurper, units, manager,
                     crudActions, pending, seen, left, consumer, next, due, excused>>
      /\ inbox \in Seq(Request) /\ inbox # <<>>
      /\ inbox' = Tail(inbox) /\ lost' = lost \cup Inserts(Head(inbox).todo)
  BY IdentityParts DEF NefarioDies, NothingOfMinion, database, answers, following
<1>1. /\ inbox' \in Seq(Request) /\ Head(inbox) \in Request
      /\ Sent = Head(inbox).todo \cup Sent'
  BY <1>0, HeadTaken
<1>2. /\ RequestsOK'
      /\ (\A i \in 1..Len(inbox) : inbox[i].todo = {})
            => \A i \in 1..Len(inbox') : inbox'[i].todo = {}
  BY <1>0, RequestsTaken
<1>3. events' \in 0..MaxEvents
  BY <1>0, HappensType, FailsIs DEF FollowType, NefarioDies
<1>4. Head(inbox).todo \subseteq Crud
  BY <1>1 DEF Request
<1>5. TableType' /\ AskType' /\ SlurpType' /\ FollowType'
  <2>1. lost' \subseteq Uid
    BY <1>0, <1>4, InsertsType DEF FollowType
  <2> QED BY <1>0, <1>1, <1>3, <2>1 DEF TableType, AskType, SlurpType, FollowType
<1>6. SlurperOK'
  BY <1>0, <1>2 DEF SlurperOK
<1>7. OneClaim' /\ RowsStay' /\ RecordsOK'
  <2>1. InFlight' \subseteq InFlight
    BY <1>0, <1>1 DEF InFlight
  <2>2. \A a \in InFlight : a \in InFlight' \/ a \in Head(inbox).todo
    BY <1>0, <1>1 DEF InFlight
  <2>3. \A a \in InFlight : a \in InFlight' \/ a.action = "update" \/ a.uid \in lost'
    BY <1>0, <2>2, InFlightType, InsertsAre
  <2> QED BY <1>0, <2>1, <2>3, ClaimsStill DEF RecordsOK
<1> QED BY <1>2, <1>5, <1>6, <1>7, IdentityWhole

\* A statement of nefario makes a row where one was claimed, and takes none away.
LEMMA AppliedKeeps ==
    ASSUME TableType, OneClaim, RowsStay, NEW a \in InFlight, a \in Crud, Applied(a),
           UNCHANGED <<byValue, systemd, drawn>>
    PROVE  /\ TableType' /\ FeedOK' /\ 1..Len(feed) \subseteq 1..Len(feed')
           /\ \A u, d : HasRow(u, d) => HasRow(u, d)'
           /\ \A u, d : HasRow(u, d)' => Claimed(u, d)
           /\ HasRow(a.name, a.uid)'
<1> DEFINE new == [name |-> a.name, enabled |-> a.action = "update" /\ table[a.uid].enabled,
                   status |-> a.status]
           r == [uid |-> a.uid, name |-> a.name, enabled |-> new.enabled]
<1>0. /\ a.uid \in Uid /\ a.name \in Unit /\ a.status \in Status
      /\ a.action \in {"insert", "update"} /\ a.uid <= drawn /\ drawn \in 0..MaxUid
  BY DEF Crud, OneClaim, TableType
<1>1. table' = [table EXCEPT ![a.uid] = new] /\ feed' = Append(feed, r)
  BY DEF Applied
<1>2. a.action = "update" => table[a.uid] # NoRow /\ table[a.uid].name = a.name
  BY DEF RowsStay, HasRow
<1>3. (a.action = "update" /\ table[a.uid].enabled) \in BOOLEAN
  OBVIOUS
<1>4. new \in Row /\ new.name = a.name /\ new # NoRow
  <2>1. new \in Row
    BY <1>0, <1>3 DEF Row
  <2> QED BY <2>1, RegistryAssumption
<1>5. r \in Record
  BY <1>0, <1>3 DEF Record
<1> HIDE DEF new
<1>6. /\ table'[a.uid] = new
      /\ \A d \in Uid : d # a.uid => table'[d] = table[d]
      /\ table' \in [Uid -> Row \cup {NoRow}]
  BY <1>0, <1>1, <1>4 DEF TableType
<1>7. HasRow(a.name, a.uid)'
  BY <1>0, <1>4, <1>6 DEF HasRow
<1>8. Claimed(a.name, a.uid)
  <2>1. CASE a.action = "update"
    BY <2>1 DEF RowsStay, Claimed
  <2>2. CASE a.action = "insert"
    BY <2>2 DEF Claimed
  <2> QED BY <1>0, <2>1, <2>2
<1>9. ASSUME NEW u, NEW d, HasRow(u, d) PROVE HasRow(u, d)'
  <2>1. d \in Uid /\ u \in Unit
    BY <1>9 DEF HasRow, TableType, Row
  <2>2. CASE d = a.uid
    <3>1. u = a.name
      BY <1>0, <1>8, <1>9, <2>1, <2>2 DEF OneClaim, Claimed
    <3> QED BY <1>7, <2>2, <3>1
  <2>3. CASE d # a.uid
    BY <1>6, <1>9, <2>1, <2>3 DEF HasRow
  <2> QED BY <2>2, <2>3
<1>10. ASSUME NEW u, NEW d, HasRow(u, d)' PROVE Claimed(u, d)
  <2>1. CASE d = a.uid
    BY <1>4, <1>6, <1>8, <1>10, <2>1 DEF HasRow
  <2>2. CASE d # a.uid
    BY <1>6, <1>10, <2>2 DEF HasRow, Claimed
  <2> QED BY <2>1, <2>2
<1>11. FeedOK' /\ feed' \in Seq(Record) /\ 1..Len(feed) \subseteq 1..Len(feed')
  <2> HIDE DEF r
  <2>1. PICK q \in Record : q = r
    BY <1>5
  <2>2. q.name = a.name /\ q.uid = a.uid
    BY <2>1 DEF r
  <2>3. HasRow(q.name, q.uid)'
    BY <1>7, <2>2
  <2> QED BY <1>1, <1>9, <2>1, <2>3, FeedGrows DEF RowsStay, TableType
<1>12. TableType'
  <2>1. \A d \in Uid : d > drawn' => table'[d] = NoRow
    BY <1>0, <1>6 DEF TableType, Uid
  <2> QED BY <1>6, <1>11, <2>1 DEF TableType
<1> QED BY <1>7, <1>9, <1>10, <1>11, <1>12

LEMMA IdentityCrud ==
    ASSUME IdentityInv, SystemdServiceCrud PROVE IdentityInv'
<1> DEFINE c == Head(inbox).from
<1>0. /\ TableType /\ AskType /\ SlurpType /\ FollowType /\ SlurperOK /\ RequestsOK
      /\ RowsStay /\ OneClaim /\ RecordsOK
      /\ UNCHANGED <<byValue, systemd, drawn, seen, left, minion, memory, units,
                     crudActions, pending, consumer, next, due, excused>>
      /\ inbox \in Seq(Request) /\ inbox # <<>> /\ Head(inbox).endPoint = "crud"
  BY IdentityParts DEF SystemdServiceCrud, NothingOfMinion, answers, following
<1>1. PICK a \in Head(inbox).todo :
        LET rest == Head(inbox).todo \ {a} IN
        \/ /\ Applied(a) /\ NoFault /\ UNCHANGED lost
           /\ IF rest # {}
              THEN inbox' = [inbox EXCEPT ![1].todo = rest] /\ UNCHANGED <<slurper, manager>>
              ELSE inbox' = Tail(inbox) /\ Returns(c)
        \/ /\ inbox' = Tail(inbox) /\ Returns(c) /\ Fails("db")
           /\ \/ Applied(a) /\ lost' = lost \cup Inserts(rest)
              \/ UNCHANGED <<table, feed>> /\ lost' = lost \cup Inserts(Head(inbox).todo)
  BY DEF SystemdServiceCrud
<1> DEFINE rest == Head(inbox).todo \ {a}
<1>2. Head(inbox) = inbox[1] /\ 1 \in 1..Len(inbox) /\ inbox[1] \in Request
  <2>1. Len(inbox) \in Nat /\ Len(inbox) # 0
    BY <1>0, LenProperties, EmptySeq
  <2> QED BY <1>0, <2>1, ElementOfSeq
<1>3. /\ Head(inbox).todo \subseteq Sent /\ Head(inbox).todo \subseteq Crud
      /\ a \in InFlight /\ a \in Crud /\ rest \subseteq Head(inbox).todo
  <2>1. Head(inbox).todo \subseteq Sent
    BY <1>2 DEF Sent
  <2>2. Head(inbox).todo \subseteq Crud
    BY <1>2 DEF Request
  <2> QED BY <2>1, <2>2 DEF InFlight
<1>4. slurper \notin {"compare", "store"}
  BY <1>0, <1>2 DEF SlurperOK
<1>5. c = "slurper" => Waits(c)
  BY <1>0, <1>2 DEF RequestsOK, Waits
<1> HIDE DEF rest, c
\* What is taken from the inbox is done or lost.
<1>6. /\ \/ Applied(a)
         \/ UNCHANGED <<table, feed>>
      /\ lost \subseteq lost' /\ lost' \subseteq Uid
      /\ \/ Head(inbox).todo \subseteq Sent'
         \/ /\ Applied(a) /\ rest \subseteq Sent'
         \/ /\ Applied(a) /\ Inserts(rest) \subseteq lost'
         \/ /\ Inserts(Head(inbox).todo) \subseteq lost'
      /\ Sent' \subseteq Sent /\ Sent \subseteq Sent' \cup Head(inbox).todo
      /\ RequestsOK' /\ inbox' \in Seq(Request)
      /\ SlurpType' /\ (minion' = "down" => slurper' = "off")
      /\ slurper' # slurper => slurper' = "ticker"
      /\ manager' \in {"off", "connect", "asking", "initial", "watching", "ended"}
      /\ events' \in 0..MaxEvents
  <2>1. events' \in 0..MaxEvents
    BY <1>0, <1>1, HappensType, FailsIs DEF FollowType
  <2>2. lost \subseteq lost' /\ lost' \subseteq Uid
    BY <1>0, <1>1, <1>3, InsertsType DEF FollowType, rest
  <2>3. CASE inbox' = [inbox EXCEPT ![1].todo = rest] /\ UNCHANGED <<slurper, manager>>
             /\ Applied(a)
    <3>1. /\ inbox' \in Seq(Request)
          /\ Len(inbox') = Len(inbox) /\ 1 \in 1..Len(inbox) /\ inbox'[1].todo = rest
          /\ Sent' \subseteq Sent /\ Sent \subseteq Sent' \cup (Head(inbox).todo \ rest)
      BY <1>0, <1>3, <2>3, HeadShortened
    <3>2. rest \subseteq Sent'
      BY <3>1 DEF Sent
    <3>3. RequestsOK'
      BY <1>0, <1>3, <2>3, RequestsShortened
    <3>4. SlurpType' /\ (minion' = "down" => slurper' = "off")
      BY <1>0, <2>3 DEF SlurpType, SlurperOK
    <3> QED BY <1>0, <2>1, <2>2, <2>3, <3>1, <3>2, <3>3, <3>4 DEF AskType
  <2>4. CASE inbox' = Tail(inbox) /\ Returns(c)
    <3>1. inbox' \in Seq(Request) /\ Sent = Head(inbox).todo \cup Sent'
      BY <1>0, <2>4, HeadTaken
    <3>2. /\ SlurpType' /\ (minion' = "down" => slurper' = "off")
          /\ slurper' # slurper =>
               c = "slurper" /\ slurper' = "ticker" /\ crudActions = {}
                 /\ slurper \notin {"compare", "store"}
          /\ manager' \in {"off", "connect", "asking", "initial", "watching", "ended"}
      BY <1>0, <1>5, <2>4, ReturnsType
    <3>3. RequestsOK'
      BY <1>0, <2>4, <3>2, RequestsTaken DEF c
    <3>4. \/ Applied(a) /\ rest = {}
          \/ Applied(a) /\ lost' = lost \cup Inserts(rest)
          \/ UNCHANGED <<table, feed>> /\ lost' = lost \cup Inserts(Head(inbox).todo)
          \/ inbox' = [inbox EXCEPT ![1].todo = rest] /\ UNCHANGED <<slurper, manager>>
             /\ Applied(a)
      BY <1>1 DEF rest
    <3> QED BY <2>1, <2>2, <2>3, <3>1, <3>2, <3>3, <3>4
  <2>5. \/ inbox' = [inbox EXCEPT ![1].todo = rest] /\ UNCHANGED <<slurper, manager>> /\ Applied(a)
        \/ inbox' = Tail(inbox) /\ Returns(c)
    BY <1>1 DEF rest
  <2> QED BY <2>3, <2>4, <2>5
<1>7. /\ TableType' /\ FeedOK' /\ 1..Len(feed) \subseteq 1..Len(feed')
      /\ \A u, d : HasRow(u, d) => HasRow(u, d)'
      /\ \A u, d : HasRow(u, d)' => Claimed(u, d)
      /\ Applied(a) => HasRow(a.name, a.uid)'
  <2>1. CASE Applied(a)
    BY <1>0, <1>3, <2>1, AppliedKeeps
  <2>2. CASE UNCHANGED <<table, feed>>
    <3>1. FeedOK' /\ \A u, d : HasRow(u, d)' <=> HasRow(u, d)
      BY <1>0, <2>2, RowsSame, FeedKept DEF RowsStay
    <3>2. Applied(a) => HasRow(a.name, a.uid)'
      BY <1>0, <1>3, AppliedKeeps
    <3>3. TableType'
      BY <1>0, <2>2 DEF TableType
    <3>4. 1..Len(feed) \subseteq 1..Len(feed')
      BY <2>2
    <3> QED BY <3>1, <3>2, <3>3, <3>4 DEF Claimed
  <2> QED BY <1>6, <2>1, <2>2
<1>8. AskType' /\ FollowType'
  BY <1>0, <1>6, <1>7 DEF AskType, FollowType
<1>9. SlurperOK'
  BY <1>0, <1>4, <1>6 DEF SlurperOK
<1>10. OneClaim' /\ RowsStay' /\ RecordsOK'
  <2>1. SeenOK'
    BY <1>0, <1>7, SeenKept DEF RowsStay
  <2>2. InFlight' \subseteq InFlight
    BY <1>0, <1>6 DEF InFlight
  <2>3. ASSUME NEW b \in InFlight
        PROVE  \/ b \in InFlight' \/ b.action = "update"
               \/ HasRow(b.name, b.uid)' \/ b.uid \in lost'
    <3>1. b \in InFlight' \/ b \in Head(inbox).todo
      BY <1>0, <1>6 DEF InFlight
    <3>2. b \in Head(inbox).todo => b = a \/ b \in rest
      BY DEF rest
    <3>3. b.action \in {"insert", "update"}
      BY <1>0, InFlightType
    <3> QED BY <1>6, <1>7, <3>1, <3>2, <3>3, InsertsAre DEF InFlight
  <2> QED BY <1>0, <1>6, <1>7, <2>1, <2>2, <2>3, ClaimsQuiet DEF RecordsOK
<1> QED BY <1>6, <1>7, <1>8, <1>9, <1>10, IdentityWhole

LEMMA IdentityLoop ==
    ASSUME IdentityInv, RunServiceSlurpLoopOnce PROVE IdentityInv'
<1>0. /\ TableType /\ AskType /\ SlurpType /\ FollowType /\ SlurperOK /\ RequestsOK
      /\ UNCHANGED <<byValue, systemd, table, drawn, feed, minion, memory, manager,
                     pending, seen, left, consumer, next, due, excused, lost>>
      /\ slurper = "list" /\ crudActions' = {} /\ crudActions = {}
      /\ inbox \in Seq(Request)
  BY IdentityParts DEF RunServiceSlurpLoopOnce, NothingOfManager, answers, following, SlurperOK
<1>1. /\ units' \in [Unit -> Status] /\ slurper' \in {"asking", "ticker"}
      /\ events' \in 0..MaxEvents
  <2>1. units' \in {units, systemd, [u \in Unit |-> "gone"]} /\ slurper' \in {"asking", "ticker"}
    BY DEF RunServiceSlurpLoopOnce
  <2>2. NoFault \/ Happens
    BY FailsIs DEF RunServiceSlurpLoopOnce
  <2>3. [u \in Unit |-> "gone"] \in [Unit -> Status]
    BY DEF Status
  <2> QED BY <1>0, <2>1, <2>2, <2>3, HappensType DEF TableType, SlurpType, FollowType
<1>2. RequestsOK' /\ inbox' \in Seq(Request) /\ Sent' = Sent
  <2>1. CASE Post("slurper", "list", {}) /\ slurper' = "asking"
    <3>1. "slurper" \in Caller /\ "list" \in {"list", "crud"} /\ {} \in SUBSET Crud
      BY CallersAre
    <3>2. /\ RequestsOK' /\ inbox' \in Seq(Request)
          /\ Sent' = IF byValue THEN Sent \cup {} ELSE Sent
      BY <1>0, <2>1, <3>1, RequestsPosted
    <3> QED BY <3>2
  <2>2. CASE UNCHANGED inbox
    BY <1>0, <2>2, NoneOfSlurper, RequestsSame
  <2> QED BY <2>1, <2>2 DEF RunServiceSlurpLoopOnce
<1>3. TableType' /\ AskType' /\ SlurpType' /\ FollowType'
  BY <1>0, <1>1, <1>2 DEF TableType, AskType, SlurpType, FollowType
<1>4. SlurperOK'
  BY <1>0, <1>1 DEF SlurperOK
<1> QED BY <1>0, <1>2, <1>3, <1>4, IdentityStill

LEMMA IdentityStore ==
    ASSUME IdentityInv, Store PROVE IdentityInv'
<1>0. /\ TableType /\ AskType /\ SlurpType /\ FollowType /\ SlurperOK /\ RequestsOK
      /\ RowsStay /\ OneClaim /\ RecordsOK
      /\ UNCHANGED <<byValue, systemd, table, drawn, feed, inbox, minion, manager, units, events,
                     crudActions, seen, left, consumer, next, due, excused, lost>>
      /\ slurper = "store" /\ slurper' = "compare" /\ pending' = NoRecord
      /\ memory' = [memory EXCEPT ![pending.name] = pending]
  BY IdentityParts DEF Store, NothingOfManager, answers, following, NoFault
<1>1. pending \in Record /\ pending.name \in Unit
  BY <1>0 DEF SlurpType, Record
<1>2. /\ memory'[pending.name] = pending
      /\ \A u \in Unit : u # pending.name => memory'[u] = memory[u]
      /\ memory' \in [Unit -> Record \cup {NoRecord}]
  BY <1>0, <1>1 DEF FollowType
<1>3. TableType' /\ AskType' /\ SlurpType' /\ FollowType'
  BY <1>0, <1>2 DEF TableType, AskType, SlurpType, FollowType
<1>4. RequestsOK' /\ Sent' = Sent
  BY <1>0, NoneOfSlurper, RequestsSame
<1>5. SlurperOK'
  BY <1>0 DEF SlurperOK
<1>6. OneClaim' /\ RowsStay' /\ RecordsOK'
  <2>1. InFlight' = InFlight
    BY <1>0, <1>4 DEF InFlight
  <2>2. \A u \in Unit : memory'[u] = memory[u] \/ (u = pending.name /\ memory'[u] = pending)
    BY <1>2
  <2>3. Sound(pending') /\ \A u \in Unit : Sound(memory'[u])
    BY <1>0, <2>2 DEF RecordsOK, Sound
  <2>4. \A u \in Unit : memory'[u] # NoRecord => memory'[u].name = u
    BY <1>0, <2>2 DEF RecordsOK
  <2> QED BY <1>0, <2>1, <2>3, <2>4, ClaimsStill
<1> QED BY <1>3, <1>4, <1>5, <1>6, IdentityWhole

LEMMA IdentitySend ==
    ASSUME IdentityInv, SendCrud PROVE IdentityInv'
<1>0. /\ TableType /\ AskType /\ SlurpType /\ FollowType /\ SlurperOK /\ RequestsOK
      /\ RowsStay /\ OneClaim /\ RecordsOK /\ inbox \in Seq(Request)
      /\ UNCHANGED <<byValue, systemd, table, drawn, feed, minion, memory, manager,
                     pending, left, consumer, next, due, excused>>
      /\ slurper = "compare" /\ crudActions' = {} /\ slurper' \in {"ticker", "sending"}
      /\ units' = [u \in Unit |-> "gone"] /\ seen' = [seen EXCEPT !["slurper"] = NoTable]
  BY IdentityParts DEF SendCrud, NothingOfManager, following
<1>1. /\ units' \in [Unit -> Status] /\ crudActions \subseteq Crud
      /\ seen' \in [Caller -> [Uid -> Row \cup {NoRow}]]
      /\ \A c \in Caller : \A d \in Uid : seen'[c][d] \in {seen[c][d], table[d], NoRow}
      /\ Inserts(crudActions) \subseteq Uid
  BY <1>0, InsertsType DEF Status, AskType, SlurpType, NoTable
<1>2. /\ events' \in 0..MaxEvents
      /\ lost' \in {lost, lost \cup Inserts(crudActions)}
  <2>1. NoFault \/ Happens
    BY FailsIs DEF SendCrud
  <2> QED BY <1>0, <2>1, HappensType DEF FollowType, SendCrud
<1>3. /\ RequestsOK' /\ inbox' \in Seq(Request) /\ Sent' \subseteq Sent \cup crudActions
      /\ Sent \subseteq Sent'
      /\ crudActions \subseteq Sent' \/ lost' = lost \cup Inserts(crudActions)
  <2>1. CASE UNCHANGED inbox /\ (crudActions = {} \/ lost' = lost \cup Inserts(crudActions))
    <3>1. RequestsOK' /\ Sent' = Sent
      BY <1>0, <2>1, NoneOfSlurper, RequestsSame
    <3> QED BY <1>0, <2>1, <3>1
  <2>2. CASE /\ slurper' = "sending" /\ Post("slurper", "crud", crudActions)
             /\ lost' = IF byValue THEN lost ELSE lost \cup Inserts(crudActions)
    <3> DEFINE todo == crudActions
    <3>1. "slurper" \in Caller /\ "crud" \in {"list", "crud"} /\ todo \in SUBSET Crud
      BY <1>1, CallersAre
    <3>2. PICK t \in SUBSET Crud : t = todo
      BY <3>1
    <3>3. Post("slurper", "crud", t)
      BY <2>2, <3>2
    <3>4. /\ RequestsOK' /\ inbox' \in Seq(Request)
          /\ Sent' = IF byValue THEN Sent \cup t ELSE Sent
      BY <1>0, <2>2, <3>1, <3>3, RequestsPosted
    <3> QED BY <2>2, <3>2, <3>4
  <2> QED BY <2>1, <2>2 DEF SendCrud
<1>4. TableType' /\ AskType' /\ SlurpType' /\ FollowType'
  BY <1>0, <1>1, <1>2, <1>3 DEF TableType, AskType, SlurpType, FollowType
<1>5. SlurperOK'
  BY <1>0 DEF SlurperOK
<1>6. OneClaim' /\ RowsStay' /\ RecordsOK'
  <2>1. InFlight' \subseteq InFlight
    BY <1>0, <1>3 DEF InFlight
  <2>2. \A a \in InFlight : a \in InFlight' \/ a.action = "update" \/ a.uid \in lost'
    <3>1. \A a \in InFlight :
            a \in Sent' \/ (a \in crudActions /\ Inserts(crudActions) \subseteq lost')
      BY <1>3 DEF InFlight
    <3> QED BY <1>0, <3>1, InFlightType, InsertsAre DEF InFlight
  <2> QED BY <1>0, <1>1, <1>2, <2>1, <2>2, ClaimsStill DEF RecordsOK
<1> QED BY <1>3, <1>4, <1>5, <1>6, IdentityWhole

LEMMA IdentityTicker ==
    ASSUME IdentityInv, Ticker PROVE IdentityInv'
<1>0. /\ TableType /\ AskType /\ SlurpType /\ FollowType /\ SlurperOK /\ RequestsOK
      /\ UNCHANGED <<byValue, systemd, table, drawn, feed, inbox, minion, memory, manager, units,
                     crudActions, events, pending, seen, left, consumer, next, due, excused, lost>>
      /\ slurper = "ticker" /\ slurper' = "list"
  BY IdentityParts DEF Ticker, NothingOfManager, answers, following, NoFault
<1>1. TableType' /\ AskType' /\ SlurpType' /\ FollowType'
  BY <1>0 DEF TableType, AskType, SlurpType, FollowType
<1>2. RequestsOK' /\ Sent' = Sent
  BY <1>0, NoneOfSlurper, RequestsSame
<1>3. SlurperOK'
  BY <1>0 DEF SlurperOK
<1> QED BY <1>0, <1>1, <1>2, <1>3, IdentityStill

LEMMA IdentityCompare ==
    ASSUME IdentityInv, NEW u \in Unit, Compare(u) PROVE IdentityInv'
<1>0. /\ TableType /\ AskType /\ SlurpType /\ FollowType /\ SlurperOK /\ RequestsOK
      /\ RowsStay /\ OneClaim /\ RecordsOK /\ inbox \in Seq(Request)
      /\ UNCHANGED <<byValue, systemd, table, feed, inbox, minion, memory, manager, units,
                     events, seen, consumer, next, due, excused, lost>>
      /\ slurper = "compare" /\ u \in left["slurper"]
      /\ left' = [left EXCEPT !["slurper"] = @ \ {u}]
  BY IdentityParts DEF Compare, NothingOfManager, following, NoFault
<1> DEFINE isNew == RowsOf(u) = {}
<1>1. PICK d \in IF isNew THEN {drawn + 1} \cap Uid ELSE RowsOf(u) :
        LET r == seen["slurper"][d]
            crud(action) == [action |-> action, uid |-> d, name |-> u, status |-> units[u]]
        IN  /\ drawn' = IF isNew THEN d ELSE drawn
            /\ crudActions' = IF isNew THEN crudActions \cup {crud("insert")}
                 ELSE IF Differs(r.status, units[u]) THEN crudActions \cup {crud("update")}
                 ELSE crudActions
            /\ IF memory[u] # NoRecord THEN UNCHANGED <<slurper, pending>>
               ELSE /\ slurper' = "store"
                    /\ pending' = [uid |-> d, name |-> u, enabled |-> ~ isNew /\ r.enabled]
  BY DEF Compare
<1> DEFINE a == [action |-> IF isNew THEN "insert" ELSE "update", uid |-> d, name |-> u,
                 status |-> units[u]]
           p == [uid |-> d, name |-> u, enabled |-> ~ isNew /\ seen["slurper"][d].enabled]
<1>2. d \in Uid /\ (isNew => d = drawn + 1)
  BY <1>1 DEF RowsOf
<1>3. ~ isNew => /\ d \in RowsOf(u) /\ seen["slurper"][d] # NoRow
                 /\ seen["slurper"][d].name = u /\ HasRow(u, d)
                 /\ seen["slurper"][d] \in Row
  <2> SUFFICES ASSUME ~ isNew PROVE /\ d \in RowsOf(u) /\ seen["slurper"][d] # NoRow
                                    /\ seen["slurper"][d].name = u /\ HasRow(u, d)
                                    /\ seen["slurper"][d] \in Row
    OBVIOUS
  <2>1. d \in RowsOf(u) /\ seen["slurper"][d] # NoRow /\ seen["slurper"][d].name = u
    BY <1>1 DEF RowsOf
  <2>2. seen["slurper"][d] \in Row
    BY <1>0, <1>2, <2>1, CallersAre DEF AskType
  <2>3. HasRow(u, d)
    BY <1>0, <1>2, <2>1, CallersAre DEF RowsStay, SeenOK
  <2> QED BY <2>1, <2>2, <2>3
\* A unit for which a uid is drawn has none, since the slurper has seen all rows, and nothing that
\* was sent is to be done.
<1>4. isNew => \A e \in Uid : ~ Claimed(u, e)
  <2> SUFFICES ASSUME isNew, NEW e \in Uid, Claimed(u, e) PROVE FALSE
    OBVIOUS
  <2>1. InFlight = crudActions
    BY <1>0 DEF InFlight, Sent, SlurperOK
  <2>2. CASE HasRow(u, e)
    <3>1. seen["slurper"][e] # NoRow
      BY <1>0, <2>2 DEF HasRow, SlurperOK
    <3>2. seen["slurper"][e].name = table[e].name
      BY <1>0, <3>1, CallersAre DEF RowsStay, SeenOK, HasRow
    <3> QED BY <2>2, <3>1, <3>2 DEF HasRow, RowsOf
  <2>3. CASE \E b \in InFlight : b.action = "insert" /\ b.uid = e /\ b.name = u
    BY <1>0, <2>1, <2>3 DEF SlurperOK
  <2> QED BY <2>2, <2>3 DEF Claimed
<1>5. isNew => \A v : ~ Claimed(v, d)
  <2> SUFFICES ASSUME isNew, NEW v, Claimed(v, d) PROVE FALSE
    OBVIOUS
  <2>1. d = drawn + 1 /\ drawn \in Nat
    BY <1>0, <1>2 DEF TableType
  <2>2. ~ HasRow(v, d)
    BY <1>0, <1>2, <2>1 DEF HasRow, TableType
  <2>3. \A b \in InFlight : b.uid # d
    BY <1>0, <2>1, InFlightType DEF OneClaim, Crud, Uid
  <2> QED BY <2>2, <2>3 DEF Claimed
<1>6. a \in Crud /\ p \in Record /\ a.uid = d /\ a.name = u /\ p.uid = d /\ p.name = u
  <2>1. (~ isNew /\ seen["slurper"][d].enabled) \in BOOLEAN
    BY <1>3 DEF Row
  <2>2. p \in Record
    BY <1>2, <2>1 DEF Record
  <2>3. units[u] \in Status
    BY <1>0 DEF SlurpType
  <2> QED BY <1>2, <2>2, <2>3 DEF Crud
<1>7. /\ drawn' = IF isNew THEN d ELSE drawn
      /\ crudActions' = crudActions \cup {a} \/ (crudActions' = crudActions /\ ~ isNew)
      /\ \/ UNCHANGED <<slurper, pending>>
         \/ slurper' = "store" /\ pending' = p
  BY <1>1
<1>8. a.action = IF isNew THEN "insert" ELSE "update"
  OBVIOUS
<1>9. isNew \in BOOLEAN
  OBVIOUS
<1> HIDE DEF a, p, isNew
<1>10. RequestsOK' /\ Sent' = Sent
  BY <1>0, NoneOfSlurper, RequestsSame
<1>11. TableType' /\ AskType' /\ SlurpType' /\ FollowType'
  <2>1. drawn' \in 0..MaxUid /\ drawn <= drawn'
    BY <1>0, <1>2, <1>7, RegistryAssumption DEF TableType, Uid
  <2>2. TableType'
    <3>1. \A e \in Uid : e > drawn' => table'[e] = NoRow
      BY <1>0, <2>1, RegistryAssumption DEF TableType, Uid
    <3> QED BY <1>0, <2>1, <3>1 DEF TableType
  <2>3. AskType'
    BY <1>0 DEF AskType
  <2>4. SlurpType'
    <3>1. NoRecord \notin Record
      BY RegistryAssumption
    <3> QED BY <1>0, <1>6, <1>7, <3>1 DEF SlurpType
  <2>5. FollowType'
    BY <1>0 DEF FollowType
  <2> QED BY <2>2, <2>3, <2>4, <2>5
<1>12. SlurperOK'
  <2>1. left'["slurper"] = left["slurper"] \ {u}
    BY <1>0, CallersAre DEF AskType
  <2>2. \A b \in crudActions' : b.name \notin left'["slurper"]
    BY <1>0, <1>6, <1>7, <2>1 DEF SlurperOK
  <2>3. slurper' \in {"compare", "store"} /\ minion' # "down"
    BY <1>0, <1>7 DEF SlurperOK
  <2> QED BY <1>0, <2>2, <2>3 DEF SlurperOK
<1>13. \A v, e : Claimed(v, e) => Claimed(v, e)'
  <2>1. InFlight \subseteq InFlight'
    BY <1>7, <1>10 DEF InFlight
  <2>2. \A v, e : HasRow(v, e)' <=> HasRow(v, e)
    BY <1>0, RowsSame
  <2> QED BY <2>1, <2>2 DEF Claimed
<1>14. \A v, e : Claimed(v, e)' => Claimed(v, e) \/ (isNew /\ v = u /\ e = d)
  <2>1. \A b \in InFlight' : b \in InFlight \/ b = a
    BY <1>7, <1>10 DEF InFlight
  <2>2. \A v, e : HasRow(v, e)' <=> HasRow(v, e)
    BY <1>0, RowsSame
  <2> QED BY <1>6, <1>8, <2>1, <2>2 DEF Claimed
<1>15. OneClaim'
  <2>1. \A b \in InFlight' : b.uid <= drawn'
    <3>1. \A b \in InFlight' : b \in InFlight \/ b = a
      BY <1>7, <1>10 DEF InFlight
    <3>2. drawn \in Nat /\ (isNew => drawn' = drawn + 1) /\ (~ isNew => drawn' = drawn)
      BY <1>0, <1>2, <1>7 DEF TableType, isNew
    <3>3. \A b \in InFlight : b.uid \in Nat /\ b.uid <= drawn
      BY <1>0, InFlightType DEF OneClaim, Crud, Uid
    <3>4. a.uid <= drawn'
      <4>1. CASE isNew
        BY <1>2, <1>6, <3>2, <4>1 DEF isNew
      <4>2. CASE ~ isNew
        <5>1. table[d] # NoRow
          BY <1>3, <4>2 DEF HasRow, isNew
        <5> QED BY <1>0, <1>2, <1>6, <3>2, <4>2, <5>1 DEF TableType, Uid
      <4> QED BY <4>1, <4>2
    <3> QED BY <3>1, <3>2, <3>3, <3>4
  <2>2. ASSUME NEW v \in Unit, NEW w \in Unit, NEW e \in Uid, NEW f \in Uid,
               Claimed(v, e)', Claimed(w, f)'
        PROVE  v = w <=> e = f
    <3>1. Claimed(v, e) \/ (isNew /\ v = u /\ e = d)
      BY <1>14, <2>2
    <3>2. Claimed(w, f) \/ (isNew /\ w = u /\ f = d)
      BY <1>14, <2>2
    <3>3. isNew => /\ \A g \in Uid : ~ Claimed(u, g)
                   /\ \A x : ~ Claimed(x, d)
      BY <1>4, <1>5 DEF isNew
    <3> QED BY <1>0, <3>1, <3>2, <3>3 DEF OneClaim
  <2> QED BY <2>1, <2>2 DEF OneClaim
<1>16. RowsStay'
  <2>1. \A v, e : HasRow(v, e)' <=> HasRow(v, e)
    BY <1>0, RowsSame
  <2>2. FeedOK'
    BY <1>0, <2>1, FeedKept DEF RowsStay
  <2>3. SeenOK'
    BY <1>0, <2>1, SeenKept DEF RowsStay
  <2>4. \A b \in InFlight' : b.action = "update" => HasRow(b.name, b.uid)
    <3>1. \A b \in InFlight' : b \in InFlight \/ b = a
      BY <1>7, <1>10 DEF InFlight
    <3>2. a.action = "update" => HasRow(a.name, a.uid)
      BY <1>3, <1>6, <1>8 DEF isNew
    <3> QED BY <1>0, <3>1, <3>2 DEF RowsStay
  <2>5. \A b \in InFlight' : b.action = "update" => HasRow(b.name, b.uid)'
    BY <2>1, <2>4
  <2> QED BY <2>2, <2>3, <2>5 DEF RowsStay
<1>17. RecordsOK'
  <2>1. \A r : Sound(r) => Sound(r)'
    BY <1>0, <1>13, SoundStays
  <2>2. \A v \in Unit : Sound(memory[v])'
    BY <1>0, <2>1 DEF RecordsOK, Sound
  <2>3. Claimed(u, d)'
    <3>1. CASE isNew
      <4>1. a \in InFlight' /\ a.action = "insert"
        BY <1>7, <1>8, <3>1 DEF InFlight
      <4>2. \E b \in InFlight' : b.action = "insert" /\ b.uid = d /\ b.name = u
        BY <1>6, <4>1
      <4> QED BY <4>2 DEF Claimed
    <3>2. CASE ~ isNew
      BY <1>3, <1>13, <3>2 DEF Claimed, isNew
    <3> QED BY <3>1, <3>2
  <2>4. Sound(pending)'
    <3>1. CASE pending' = pending
      BY <1>0, <2>1, <3>1 DEF RecordsOK, Sound
    <3>2. CASE pending' = p
      BY <1>6, <2>3, <3>2 DEF Sound
    <3> QED BY <1>7, <3>1, <3>2
  <2> QED BY <1>0, <2>2, <2>4 DEF RecordsOK
<1> QED BY <1>10, <1>11, <1>12, <1>15, <1>16, <1>17, IdentityWhole

LEMMA IdentityManager ==
    ASSUME IdentityInv, RunJournalCtlManager PROVE IdentityInv'
<1>0. /\ TableType /\ AskType /\ SlurpType /\ FollowType /\ SlurperOK /\ RequestsOK
      /\ UNCHANGED <<byValue, systemd, table, drawn, feed, minion, memory, slurper, units,
                     crudActions, pending, seen, left, next, due, excused, lost>>
      /\ inbox \in Seq(Request)
  BY IdentityParts
    DEF RunJournalCtlManager, NothingOfSlurper, database, slurping, answers
<1>1. /\ manager' \in {"asking", "watching", "ended"} /\ consumer' \in {consumer, "starting"}
      /\ events' \in 0..MaxEvents
  <2>1. NoFault \/ Happens
    BY FailsIs DEF RunJournalCtlManager
  <2> QED BY <1>0, <2>1, HappensType DEF FollowType, RunJournalCtlManager
<1>2. /\ RequestsOK' /\ inbox' \in Seq(Request) /\ Sent' = Sent
      /\ (\A i \in 1..Len(inbox) : inbox[i].todo = {})
            => \A i \in 1..Len(inbox') : inbox'[i].todo = {}
  <2>1. CASE Post("manager", "list", {})
    <3>1. "manager" \in Caller /\ "list" \in {"list", "crud"} /\ {} \in SUBSET Crud
      BY CallersAre
    <3>2. /\ RequestsOK' /\ inbox' \in Seq(Request)
          /\ Sent' = IF byValue THEN Sent \cup {} ELSE Sent
          /\ {} = {} /\ (\A i \in 1..Len(inbox) : inbox[i].todo = {})
               => \A i \in 1..Len(inbox') : inbox'[i].todo = {}
      BY <1>0, <2>1, <3>1, RequestsPosted
    <3> QED BY <3>2
  <2>2. CASE UNCHANGED inbox
    BY <1>0, <2>2, RequestsSame
  <2> QED BY <2>1, <2>2 DEF RunJournalCtlManager
<1>3. TableType' /\ AskType' /\ SlurpType' /\ FollowType'
  BY <1>0, <1>1, <1>2 DEF TableType, AskType, SlurpType, FollowType
<1>4. SlurperOK'
  BY <1>0, <1>2 DEF SlurperOK
<1> QED BY <1>0, <1>2, <1>3, <1>4, IdentityStill

\* A record of a row is stored under the name of the row.
LEMMA ProcessRecordKeeps ==
    ASSUME FollowType, RecordsOK, NEW r \in Record, HasRow(r.name, r.uid), ProcessRecord(r)
    PROVE  /\ memory' \in [Unit -> Record \cup {NoRecord}]
           /\ \A u \in Unit : memory'[u] # NoRecord => memory'[u].name = u
           /\ \A u \in Unit : Sound(memory'[u])
<1>0. r.name \in Unit /\ Sound(r) /\ memory \in [Unit -> Record \cup {NoRecord}]
      /\ NoRecord \notin Record
  BY RegistryAssumption DEF Record, Sound, Claimed, FollowType
<1>1. CASE memory[r.name] = NoRecord
  <2>1. memory' = [memory EXCEPT ![r.name] = r]
    BY <1>1 DEF ProcessRecord
  <2> QED BY <1>0, <2>1 DEF RecordsOK
<1>2. CASE memory[r.name] # NoRecord
  <2> DEFINE m == [memory[r.name] EXCEPT !.enabled = r.enabled]
  <2>0. memory[r.name] \in Record
    BY <1>0, <1>2
  <2>1. memory' = [memory EXCEPT ![r.name] = m]
    BY <1>2 DEF ProcessRecord
  <2>2. m \in Record /\ m.name = memory[r.name].name /\ m.uid = memory[r.name].uid
    BY <2>0 DEF Record
  <2>3. Sound(m)
    BY <1>0, <1>2, <2>2 DEF RecordsOK, Sound
  <2>4. m.name = r.name
    BY <1>0, <1>2, <2>2 DEF RecordsOK
  <2> HIDE DEF m
  <2> QED BY <1>0, <2>1, <2>2, <2>3, <2>4 DEF RecordsOK
<1> QED BY <1>1, <1>2

LEMMA IdentityInitial ==
    ASSUME IdentityInv, NEW u \in Unit, ProcessInitial(u) PROVE IdentityInv'
<1>0. /\ TableType /\ AskType /\ SlurpType /\ FollowType /\ SlurperOK /\ RequestsOK
      /\ RowsStay /\ OneClaim /\ RecordsOK
      /\ UNCHANGED <<byValue, systemd, table, drawn, feed, inbox, minion, slurper, units, events,
                     crudActions, pending, consumer, next, due, excused, lost>>
      /\ left' = [left EXCEPT !["manager"] = @ \ {u}]
      /\ manager' \in {manager, "watching"}
      /\ seen' \in {seen, [seen EXCEPT !["manager"] = NoTable]}
  BY IdentityParts
    DEF ProcessInitial, NothingOfSlurper, database, slurping, following, NoFault
<1>1. PICK d \in Uid : /\ seen["manager"][d] # NoRow /\ seen["manager"][d].name = u
                       /\ ProcessRecord([uid |-> d, name |-> u,
                                         enabled |-> seen["manager"][d].enabled])
  BY DEF ProcessInitial
<1> DEFINE r == [uid |-> d, name |-> u, enabled |-> seen["manager"][d].enabled]
<1>2. HasRow(u, d) /\ r \in Record /\ r.name = u /\ r.uid = d
  <2>1. HasRow(u, d)
    BY <1>0, <1>1, CallersAre DEF RowsStay, SeenOK
  <2>2. seen["manager"][d] \in Row
    BY <1>0, <1>1, CallersAre DEF AskType
  <2> QED BY <2>1, <2>2 DEF Row, Record
<1> HIDE DEF r
<1>3. /\ memory' \in [Unit -> Record \cup {NoRecord}]
      /\ \A v \in Unit : memory'[v] # NoRecord => memory'[v].name = v
      /\ \A v \in Unit : Sound(memory'[v])
  <2>1. PICK q \in Record : q = r
    BY <1>2
  <2>2. ProcessRecord(q) /\ HasRow(q.name, q.uid)
    BY <1>1, <1>2, <2>1 DEF r
  <2> QED BY <1>0, <2>2, ProcessRecordKeeps
<1>4. /\ left' \in [Caller -> SUBSET Unit] /\ left'["slurper"] = left["slurper"]
      /\ seen' \in [Caller -> [Uid -> Row \cup {NoRow}]] /\ seen'["slurper"] = seen["slurper"]
      /\ \A c \in Caller : \A e \in Uid : seen'[c][e] \in {seen[c][e], table[e], NoRow}
  BY <1>0, CallersAre DEF AskType, NoTable
<1>5. TableType' /\ AskType' /\ SlurpType' /\ FollowType'
  BY <1>0, <1>3, <1>4 DEF TableType, AskType, SlurpType, FollowType
<1>6. RequestsOK' /\ Sent' = Sent
  BY <1>0, RequestsSame
<1>7. SlurperOK'
  BY <1>0, <1>4 DEF SlurperOK
<1>8. OneClaim' /\ RowsStay' /\ RecordsOK'
  <2>1. InFlight' = InFlight
    BY <1>0, <1>6 DEF InFlight
  <2>2. Sound(pending')
    BY <1>0 DEF RecordsOK, Sound
  <2> QED BY <1>0, <1>3, <1>4, <2>1, <2>2, ClaimsStill
<1> QED BY <1>5, <1>6, <1>7, <1>8, IdentityWhole

LEMMA IdentitySubscribe ==
    ASSUME IdentityInv, Subscribe PROVE IdentityInv'
<1>0. /\ TableType /\ AskType /\ SlurpType /\ FollowType /\ SlurperOK /\ RequestsOK
      /\ UNCHANGED <<byValue, systemd, table, drawn, feed, inbox, minion, memory, slurper, units,
                     crudActions, pending, manager, seen, left, excused, lost>>
      /\ due' = {} /\ next' = Len(feed) + 1 /\ consumer' \in {"reading", "ended"}
  BY IdentityParts DEF Subscribe, NothingOfSlurper, database, slurping, answers
<1>1. events' \in 0..MaxEvents /\ next' \in Nat \ {0}
  <2>1. NoFault \/ Happens
    BY FailsIs DEF Subscribe
  <2> QED BY <1>0, <2>1, HappensType, LenProperties DEF FollowType, TableType
<1>2. TableType' /\ AskType' /\ SlurpType' /\ FollowType'
  BY <1>0, <1>1 DEF TableType, AskType, SlurpType, FollowType
<1>3. RequestsOK' /\ Sent' = Sent
  BY <1>0, RequestsSame
<1>4. SlurperOK'
  BY <1>0 DEF SlurperOK
<1> QED BY <1>0, <1>2, <1>3, <1>4, IdentityStill

LEMMA IdentityChange ==
    ASSUME IdentityInv, NEW i \in 1..Len(feed), ProcessChangeEvent(i) PROVE IdentityInv'
<1>0. /\ TableType /\ AskType /\ SlurpType /\ FollowType /\ SlurperOK /\ RequestsOK
      /\ RowsStay /\ OneClaim /\ RecordsOK
      /\ UNCHANGED <<byValue, systemd, table, drawn, feed, inbox, minion, slurper, units,
                     crudActions, pending, manager, seen, left, consumer, lost>>
      /\ next' = (IF i = next THEN next + 1 ELSE next) /\ due' \in {due \ {i}, due \cup {i}}
      /\ ProcessRecord(feed[i])
      /\ excused' \in {excused \cup {feed[i].name}, excused \ {feed[i].name}}
  BY IdentityParts DEF ProcessChangeEvent, NothingOfSlurper, database, slurping, answers
<1>1. feed[i] \in Record /\ feed[i].name \in Unit /\ HasRow(feed[i].name, feed[i].uid) /\ i \in Nat
  <2>1. feed[i] \in Record
    BY <1>0, ElementOfSeq DEF TableType
  <2> QED BY <1>0, <2>1 DEF RowsStay, FeedOK, Record
<1>2. events' \in 0..MaxEvents /\ next' \in Nat \ {0} /\ due' \subseteq 1..Len(feed)
      /\ excused' \subseteq Unit
  <2>1. NoFault \/ Happens
    BY FailsIs DEF ProcessChangeEvent
  <2> QED BY <1>0, <1>1, <2>1, HappensType DEF FollowType
<1>3. /\ memory' \in [Unit -> Record \cup {NoRecord}]
      /\ \A u \in Unit : memory'[u] # NoRecord => memory'[u].name = u
      /\ \A u \in Unit : Sound(memory'[u])
  <2>1. PICK q \in Record : q = feed[i]
    BY <1>1
  <2> QED BY <1>0, <1>1, <2>1, ProcessRecordKeeps
<1>4. TableType' /\ AskType' /\ SlurpType' /\ FollowType'
  BY <1>0, <1>2, <1>3 DEF TableType, AskType, SlurpType, FollowType
<1>5. RequestsOK' /\ Sent' = Sent
  BY <1>0, RequestsSame
<1>6. SlurperOK'
  BY <1>0 DEF SlurperOK
<1>7. OneClaim' /\ RowsStay' /\ RecordsOK'
  <2>1. InFlight' = InFlight
    BY <1>0, <1>5 DEF InFlight
  <2>2. Sound(pending')
    BY <1>0 DEF RecordsOK, Sound
  <2> QED BY <1>0, <1>3, <2>1, <2>2, ClaimsStill
<1> QED BY <1>4, <1>5, <1>6, <1>7, IdentityWhole

LEMMA IdentityFetchFails ==
    ASSUME IdentityInv, FetchFails PROVE IdentityInv'
<1> DEFINE missed == (next..Len(feed)) \cup due
<1>0. /\ TableType /\ AskType /\ SlurpType /\ FollowType /\ SlurperOK /\ RequestsOK
      /\ UNCHANGED <<byValue, systemd, table, drawn, feed, inbox, minion, memory, slurper, units,
                     crudActions, pending, manager, seen, left, next, due, lost>>
      /\ consumer' = "ended" /\ excused' = excused \cup {feed[i].name : i \in missed}
  BY IdentityParts DEF FetchFails, Excuse, NothingOfSlurper, database, slurping, answers
<1>1. events' \in 0..MaxEvents
  BY <1>0, FailsIs, HappensType DEF FetchFails, FollowType
<1>2. \A i \in missed : feed[i].name \in Unit
  <2> SUFFICES ASSUME NEW i \in missed PROVE feed[i].name \in Unit
    OBVIOUS
  <2>1. Len(feed) \in Nat /\ i \in 1..Len(feed)
    BY <1>0, LenProperties DEF TableType, FollowType
  <2>2. feed[i] \in Record
    BY <1>0, <2>1, ElementOfSeq DEF TableType
  <2> QED BY <2>2 DEF Record
<1>3. TableType' /\ AskType' /\ SlurpType' /\ FollowType'
  BY <1>0, <1>1, <1>2 DEF TableType, AskType, SlurpType, FollowType
<1>4. RequestsOK' /\ Sent' = Sent
  BY <1>0, RequestsSame
<1>5. SlurperOK'
  BY <1>0 DEF SlurperOK
<1> QED BY <1>0, <1>3, <1>4, <1>5, IdentityStill

LEMMA IdentityStutter ==
    ASSUME IdentityInv, UNCHANGED vars PROVE IdentityInv'
<1>0. /\ TableType /\ AskType /\ SlurpType /\ FollowType /\ SlurperOK /\ RequestsOK
      /\ UNCHANGED <<byValue, systemd, table, drawn, feed, inbox, minion, memory, slurper, units,
                     crudActions, pending, manager, seen, left, consumer, next, due, excused, lost,
                     events>>
  BY IdentityParts DEF vars, database, slurping, answers, following
<1>1. TableType' /\ AskType' /\ SlurpType' /\ FollowType'
  BY <1>0 DEF TableType, AskType, SlurpType, FollowType
<1>2. RequestsOK' /\ Sent' = Sent
  BY <1>0, RequestsSame
<1>3. SlurperOK'
  BY <1>0 DEF SlurperOK
<1> QED BY <1>0, <1>1, <1>2, <1>3, IdentityStill

LEMMA IdentityNext == IdentityInv /\ [Next]_vars => IdentityInv'
<1> SUFFICES ASSUME IdentityInv, [Next]_vars PROVE IdentityInv'
  OBVIOUS
<1>1. CASE Start BY <1>1, IdentityStart
<1>2. CASE Crash BY <1>2, IdentityCrash
<1>3. CASE \E u \in Unit : Move(u) BY <1>3, IdentityMove
<1>4. CASE \E d \in Uid : Edit(d) BY <1>4, IdentityEdit
<1>5. CASE \E c \in Caller : TimeOut(c) \/ NoAnswer(c)
  BY <1>5, IdentityTimeOut, IdentityNoAnswer
<1>6. CASE Nefario BY <1>6, IdentityList, IdentityCrud DEF Nefario
<1>7. CASE NefarioDies BY <1>7, IdentityNefarioDies
<1>8. CASE RunServiceSlurper
  BY <1>8, IdentityLoop, IdentityCompare, IdentityStore, IdentitySend, IdentityTicker
    DEF RunServiceSlurper
<1>9. CASE RunJournalCtlManager BY <1>9, IdentityManager
<1>10. CASE \E u \in Unit : ProcessInitial(u) BY <1>10, IdentityInitial
<1>11. CASE Follower BY <1>11, IdentitySubscribe, IdentityChange DEF Follower
<1>12. CASE FetchFails BY <1>12, IdentityFetchFails
<1>13. CASE UNCHANGED vars BY <1>13, IdentityStutter
<1> QED
  BY <1>1, <1>2, <1>3, <1>4, <1>5, <1>6, <1>7, <1>8, <1>9, <1>10, <1>11, <1>12, <1>13 DEF Next

LEMMA IdentityHolds == IdentityInv => OneIdentity
<1> SUFFICES ASSUME IdentityInv, NEW d \in Uid, table[d] # NoRow
             PROVE  /\ \A e \in Uid \ {d} : table[e] # NoRow => table[e].name # table[d].name
                    /\ LET r == memory[table[d].name] IN
                         r # NoRecord => r.uid = d \/ r.uid \in lost
  BY DEF OneIdentity
<1>0. TableType /\ FollowType /\ OneClaim /\ RecordsOK
  BY IdentityParts
<1>1. table[d].name \in Unit /\ Claimed(table[d].name, d)
  BY <1>0 DEF TableType, Row, Claimed, HasRow
<1>2. \A e \in Uid \ {d} : table[e] # NoRow => table[e].name # table[d].name
  BY <1>0, <1>1 DEF OneClaim, Claimed, HasRow
<1>3. ASSUME memory[table[d].name] # NoRecord
      PROVE  memory[table[d].name].uid = d \/ memory[table[d].name].uid \in lost
  <2> DEFINE r == memory[table[d].name]
  <2>1. r \in Record /\ r.name = table[d].name /\ Sound(r)
    BY <1>0, <1>1, <1>3 DEF FollowType, RecordsOK
  <2>2. r.uid \in Uid
    BY <2>1 DEF Record
  <2>3. Claimed(r.name, r.uid) \/ r.uid \in lost
    BY <1>3, <2>1 DEF Sound
  <2> QED BY <1>0, <1>1, <2>1, <2>2, <2>3 DEF OneClaim
<1> QED BY <1>2, <1>3

\* Types, and: no row lies above the uids that were drawn, and what is delivered again was
\* published.
THEOREM TypeCorrect == Spec => []TypeOK
BY IdentityInit, IdentityNext, PTL DEF IdentityInv, Spec

\* However many units there are, and whatever is lost, times out or dies between the slurper's
\* list and its inserts, a unit has one row, and the minion knows it by the uid of that row or
\* by one whose insert was lost (RunServiceSlurpLoopOnce, SystemdServiceCrud,
\* RunJournalCtlManager).
THEOREM IdentitiesAreKept == Spec => []OneIdentity
BY IdentityInit, IdentityNext, IdentityHolds, PTL DEF Spec
-----------------------------------------------------------------------------
(* ServiceRegistry: what is out of date has a cause *)

\* A record has a uid that was drawn, and that no other unit claims.
Own(r) ==
    r # NoRecord => r.uid <= drawn /\ \A v \in Unit : Claimed(v, r.uid) => v = r.name
OwnOK == Own(pending) /\ \A u \in Unit : Own(memory[u])

\* An insert is to be done once, and there is no row of its uid before.
OnceSent ==
    \A i, j \in 1..Len(inbox) : \A a \in inbox[i].todo \cap inbox[j].todo :
      a.action = "insert" => i = j
OnceOK ==
    /\ \A a \in InFlight : a.action = "insert" => table[a.uid] = NoRow
    /\ \A a, b \in InFlight :
         a.action = "insert" /\ b.action = "insert" /\ a.uid = b.uid => a = b
    /\ OnceSent

\* The last change that was published of a unit is what its row says.
ToldOK ==
    /\ next <= Len(feed) + 1
    /\ \A i \in 1..Len(feed) :
         (\A j \in 1..Len(feed) : j > i => feed[j].name # feed[i].name)
            => feed[i].enabled = table[feed[i].uid].enabled

\* Nothing follows the table before the manager has submitted it.
FollowerOK ==
    /\ minion = "down" => manager # "connect" /\ consumer = "off"
    /\ manager = "connect" => consumer = "off"

\* A record says what its row says; where there is no row it may say "enabled" only if none
\* will be made.
Right(r) ==
    IF table[r.uid] = NoRow THEN r.enabled => ~ Claimed(r.name, r.uid)
    ELSE r.enabled = table[r.uid].enabled
ReadRight(c, u) ==
    \A d \in Uid : seen[c][d] # NoRow /\ seen[c][d].name = u =>
      seen[c][d].enabled = table[d].enabled

Coming(u) == consumer = "reading" /\ \E i \in next..Len(feed) : feed[i].name = u
Excusable(u) == u \in excused \/ Coming(u)

\* What the minion holds of u, is about to store of it, or has read and is to go through, is
\* right, or u is excused, or a change of it is still to be read.
Fresh(u) ==
    \/ Excusable(u)
    \/ /\ memory[u] # NoRecord => Right(memory[u])
       /\ pending # NoRecord /\ pending.name = u => Right(pending)
       /\ slurper \in {"compare", "store"} /\ u \in left["slurper"] /\ memory[u] = NoRecord
            => ReadRight("slurper", u)
       /\ manager = "initial" /\ u \in left["manager"] => ReadRight("manager", u)
AllFresh == \A u \in Unit : Fresh(u)

StaleParts == OwnOK /\ OnceOK /\ ToldOK /\ FollowerOK /\ AllFresh
StaleInv == IdentityInv /\ StaleParts

LEMMA StaleFacts ==
    StaleInv => /\ TableType /\ AskType /\ SlurpType /\ FollowType
                /\ RowsStay /\ OneClaim /\ RecordsOK /\ SlurperOK /\ RequestsOK
                /\ inbox \in Seq(Request) /\ Len(inbox) \in Nat
                /\ feed \in Seq(Record) /\ Len(feed) \in Nat /\ next \in Nat \ {0}
                /\ OwnOK /\ OnceOK /\ ToldOK /\ FollowerOK /\ AllFresh /\ StaleParts
                /\ NoRecord \notin Record
<1>1. StaleInv => IdentityInv /\ StaleParts
  BY DEF StaleInv
<1>2. IdentityInv => feed \in Seq(Record) /\ next \in Nat \ {0}
  BY IdentityParts DEF TableType, FollowType
<1> QED BY <1>1, <1>2, IdentityParts, LenProperties, RegistryAssumption DEF StaleParts

\* Only a step that draws a uid makes a claim.
LEMMA ClaimsFewer ==
    ASSUME UNCHANGED table, InFlight' \subseteq InFlight
    PROVE  \A u, d : Claimed(u, d)' => Claimed(u, d)
BY RowsSame DEF Claimed

LEMMA OwnStays ==
    ASSUME UNCHANGED drawn, \A u, d : Claimed(u, d)' => Claimed(u, d)
    PROVE  \A r : Own(r) => Own(r)'
BY DEF Own

LEMMA RightStays ==
    ASSUME UNCHANGED table, \A u, d : Claimed(u, d)' => Claimed(u, d)
    PROVE  \A r : Right(r) => Right(r)'
BY DEF Right

\* Requests move up, shrink, or are empty.
LEMMA SentOnce ==
    ASSUME OnceSent, NEW k \in Nat, Len(inbox') \in Nat,
           \A i \in 1..Len(inbox') : \/ inbox'[i].todo = {}
                                     \/ /\ i + k \in 1..Len(inbox)
                                        /\ inbox'[i].todo \subseteq inbox[i + k].todo
    PROVE  OnceSent'
<1>1. ASSUME NEW i \in 1..Len(inbox'), NEW j \in 1..Len(inbox'),
             NEW a \in inbox'[i].todo, a \in inbox'[j].todo, a.action = "insert"
      PROVE  i = j
  <2>1. /\ i + k \in 1..Len(inbox) /\ a \in inbox[i + k].todo
        /\ j + k \in 1..Len(inbox) /\ a \in inbox[j + k].todo
    BY <1>1
  <2>2. i + k = j + k
    BY <1>1, <2>1 DEF OnceSent
  <2> QED BY <2>2
<1> QED BY <1>1 DEF OnceSent

LEMMA OnceStays ==
    ASSUME OnceOK, UNCHANGED table, InFlight' \subseteq InFlight, OnceSent'
    PROVE  OnceOK'
BY DEF OnceOK

\* A step that writes no row and no record.
LEMMA FreshStill ==
    ASSUME AllFresh, UNCHANGED <<table, memory, pending>>,
           \A u, d : Claimed(u, d)' => Claimed(u, d),
           \A u : Excusable(u) => Excusable(u)',
           slurper' \in {"compare", "store"} =>
             /\ slurper \in {"compare", "store"} /\ left'["slurper"] = left["slurper"]
             /\ seen'["slurper"] = seen["slurper"],
           manager' = "initial" => /\ manager = "initial" /\ left'["manager"] = left["manager"]
                                   /\ seen'["manager"] = seen["manager"]
    PROVE  AllFresh'
<1> SUFFICES ASSUME NEW u \in Unit, ~ Excusable(u)' PROVE Fresh(u)'
  BY DEF AllFresh, Fresh
<1>1. Fresh(u) /\ ~ Excusable(u)
  BY DEF AllFresh
<1>2. memory'[u] # NoRecord => Right(memory[u])'
  BY <1>1, RightStays DEF Fresh
<1>3. pending' # NoRecord /\ pending'.name = u => Right(pending)'
  BY <1>1, RightStays DEF Fresh
<1>4. ASSUME slurper' \in {"compare", "store"}, u \in left'["slurper"], memory'[u] = NoRecord
      PROVE  ReadRight("slurper", u)'
  <2>1. ReadRight("slurper", u)
    BY <1>1, <1>4 DEF Fresh
  <2> QED BY <1>4, <2>1 DEF ReadRight
<1>5. ASSUME manager' = "initial", u \in left'["manager"]
      PROVE  ReadRight("manager", u)'
  <2>1. ReadRight("manager", u)
    BY <1>1, <1>5 DEF Fresh
  <2> QED BY <1>5, <2>1 DEF ReadRight
<1> QED BY <1>2, <1>3, <1>4, <1>5 DEF Fresh

LEMMA StaleStill ==
    ASSUME StaleInv, UNCHANGED <<table, drawn, feed, memory, pending>>,
           InFlight' \subseteq InFlight, OnceSent', next' <= Len(feed) + 1, FollowerOK',
           \A u : Excusable(u) => Excusable(u)',
           slurper' \in {"compare", "store"} =>
             /\ slurper \in {"compare", "store"} /\ left'["slurper"] = left["slurper"]
             /\ seen'["slurper"] = seen["slurper"],
           manager' = "initial" => /\ manager = "initial" /\ left'["manager"] = left["manager"]
                                   /\ seen'["manager"] = seen["manager"]
    PROVE  StaleParts'
<1>0. OwnOK /\ OnceOK /\ ToldOK /\ AllFresh
  BY StaleFacts
<1>1. \A u, d : Claimed(u, d)' => Claimed(u, d)
  BY ClaimsFewer
<1>2. OwnOK'
  <2>1. \A r : Own(r) => Own(r)'
    BY <1>1, OwnStays
  <2>2. Own(pending)' /\ \A u \in Unit : Own(memory[u])'
    BY <1>0, <2>1 DEF OwnOK, Own
  <2> QED BY <2>2 DEF OwnOK
<1>3. OnceOK'
  BY <1>0, OnceStays
<1>4. ToldOK'
  BY <1>0 DEF ToldOK
<1>5. AllFresh'
  BY <1>0, <1>1, FreshStill
<1> QED BY <1>2, <1>3, <1>4, <1>5 DEF StaleParts

\* As above, where nothing is read of the table or of its changes either.
LEMMA StaleQuiet ==
    ASSUME StaleInv,
           UNCHANGED <<table, drawn, feed, memory, pending, seen, left, consumer, next, excused>>,
           crudActions' \subseteq crudActions, Sent' \subseteq Sent, OnceSent', FollowerOK',
           slurper' \in {"compare", "store"} => slurper' = slurper,
           manager' = "initial" => manager' = manager
    PROVE  StaleParts'
<1>1. InFlight' \subseteq InFlight
  BY DEF InFlight
<1>2. \A u : Excusable(u) => Excusable(u)'
  BY DEF Excusable, Coming
<1>3. next' <= Len(feed) + 1
  BY StaleFacts DEF ToldOK
<1> QED BY <1>1, <1>2, <1>3, StaleStill

LEMMA StaleInit == Init => StaleInv
<1> SUFFICES ASSUME Init PROVE StaleInv
  OBVIOUS
<1>1. IdentityInv
  BY IdentityInit
<1>2. Len(inbox) = 0 /\ Len(feed) = 0 /\ crudActions = {} /\ InFlight = {}
  BY EmptySeq DEF Init, InFlight, Sent
<1>3. OwnOK /\ OnceOK /\ ToldOK /\ FollowerOK
  BY <1>2 DEF OwnOK, Own, OnceOK, OnceSent, ToldOK, FollowerOK, Init
<1>4. AllFresh
  BY DEF AllFresh, Fresh, Init
<1> QED BY <1>1, <1>3, <1>4 DEF StaleInv, StaleParts

LEMMA StaleStart ==
    ASSUME StaleInv, Start PROVE StaleParts'
<1>0. /\ FollowerOK /\ OnceOK
      /\ UNCHANGED <<table, drawn, feed, inbox, memory, crudActions, pending, seen, left,
                     consumer, next, excused>>
      /\ minion = "down" /\ minion' = "up" /\ slurper' = "list" /\ manager' = "connect"
  BY StaleFacts DEF Start, database, answers, following
<1>1. Sent' = Sent /\ OnceSent'
  BY <1>0 DEF Sent, OnceSent, OnceOK
<1>2. FollowerOK'
  BY <1>0 DEF FollowerOK
<1> QED BY <1>0, <1>1, <1>2, StaleQuiet

LEMMA StaleMove ==
    ASSUME StaleInv, NEW u \in Unit, Move(u) PROVE StaleParts'
<1>0. /\ FollowerOK /\ OnceOK
      /\ UNCHANGED <<table, drawn, feed, inbox, minion, memory, crudActions, pending, seen, left,
                     slurper, manager, consumer, next, excused>>
  BY StaleFacts DEF Move, database, slurping, answers, following
<1>1. Sent' = Sent /\ OnceSent'
  BY <1>0 DEF Sent, OnceSent, OnceOK
<1>2. FollowerOK'
  BY <1>0 DEF FollowerOK
<1> QED BY <1>0, <1>1, <1>2, StaleQuiet

\* The requests of callers that are gone are still to be done, once.
LEMMA OnceGone ==
    ASSUME OnceOK, inbox \in Seq(Request), NEW C, Orphaned(C)
    PROVE  OnceSent' /\ Sent' = Sent
<1>1. /\ Len(inbox') = Len(inbox) /\ Len(inbox) \in Nat /\ Sent' = Sent
      /\ \A i \in 1..Len(inbox) : inbox'[i].todo = inbox[i].todo
  BY CallersGone
<1> QED BY <1>1 DEF OnceOK, OnceSent

LEMMA OnceTaken ==
    ASSUME OnceOK, inbox \in Seq(Request), inbox # <<>>, inbox' = Tail(inbox)
    PROVE  /\ OnceSent' /\ Sent' \subseteq Sent /\ Head(inbox).todo \subseteq Sent
           /\ \A a \in Head(inbox).todo : a.action = "insert" => a \notin Sent'
<1>1. /\ Len(inbox') \in Nat /\ Head(inbox) = inbox[1] /\ 1 \in 1..Len(inbox)
      /\ \A i \in 1..Len(inbox') : i + 1 \in 1..Len(inbox) /\ inbox'[i] = inbox[i + 1]
      /\ Sent = Head(inbox).todo \cup Sent'
  BY HeadTaken
<1>2. OnceSent'
  <2>1. OnceSent /\ 1 \in Nat
    BY DEF OnceOK
  <2> QED BY <1>1, <2>1, SentOnce
<1>3. ASSUME NEW a \in Head(inbox).todo, a.action = "insert", a \in Sent' PROVE FALSE
  <2>1. PICK i \in 1..Len(inbox') : a \in inbox'[i].todo
    BY <1>3 DEF Sent
  <2>2. i + 1 \in 1..Len(inbox) /\ a \in inbox[i + 1].todo /\ i + 1 # 1
    BY <1>1, <2>1
  <2> QED BY <1>1, <1>3, <2>2 DEF OnceOK, OnceSent
<1> QED BY <1>1, <1>2, <1>3

\* Where a call returns, nobody begins to go through rows.
LEMMA ReturnsQuiet ==
    ASSUME NEW c, Returns(c)
    PROVE  slurper' \in {slurper, "ticker"} /\ manager' \in {manager, "watching"}
BY DEF Returns

LEMMA StaleTimeOut ==
    ASSUME StaleInv, NEW c \in Caller, TimeOut(c) PROVE StaleParts'
<1>0. /\ FollowerOK /\ OnceOK /\ inbox \in Seq(Request)
      /\ UNCHANGED <<table, drawn, feed, minion, memory, crudActions, pending, seen, left,
                     consumer, next, excused>>
      /\ Orphaned({c}) /\ Returns(c)
  BY StaleFacts DEF TimeOut, database, answers, following
<1>1. Sent' = Sent /\ OnceSent'
  BY <1>0, OnceGone
<1>2. slurper' \in {slurper, "ticker"} /\ manager' \in {manager, "watching"}
  BY <1>0, ReturnsQuiet
<1>3. FollowerOK'
  BY <1>0, <1>2 DEF FollowerOK
<1> QED BY <1>0, <1>1, <1>2, <1>3, StaleQuiet

LEMMA StaleNoAnswer ==
    ASSUME StaleInv, NEW c \in Caller, NoAnswer(c) PROVE StaleParts'
<1>0. /\ FollowerOK /\ OnceOK
      /\ UNCHANGED <<table, drawn, feed, inbox, minion, memory, crudActions, pending, seen, left,
                     consumer, next, excused>>
      /\ Returns(c)
  BY StaleFacts DEF NoAnswer, database, answers, following
<1>1. Sent' = Sent /\ OnceSent'
  BY <1>0 DEF Sent, OnceSent, OnceOK
<1>2. slurper' \in {slurper, "ticker"} /\ manager' \in {manager, "watching"}
  BY <1>0, ReturnsQuiet
<1>3. FollowerOK'
  BY <1>0, <1>2 DEF FollowerOK
<1> QED BY <1>0, <1>1, <1>2, <1>3, StaleQuiet

LEMMA StaleNefarioDies ==
    ASSUME StaleInv, NefarioDies PROVE StaleParts'
<1>0. /\ FollowerOK /\ OnceOK /\ inbox \in Seq(Request) /\ inbox # <<>> /\ inbox' = Tail(inbox)
      /\ UNCHANGED <<table, drawn, feed, minion, memory, crudActions, pending, seen, left,
                     slurper, manager, consumer, next, excused>>
  BY StaleFacts DEF NefarioDies, NothingOfMinion, database, answers, following
<1>1. Sent' \subseteq Sent /\ OnceSent'
  BY <1>0, OnceTaken
<1>2. FollowerOK'
  BY <1>0 DEF FollowerOK
<1> QED BY <1>0, <1>1, <1>2, StaleQuiet

\* A list is sent, and asks nefario to do nothing.
LEMMA OnceAsked ==
    ASSUME OnceOK, AskType, NEW c \in Caller,
           UNCHANGED inbox \/ Post(c, "list", {})
    PROVE  OnceSent' /\ Sent' = Sent
<1>1. CASE UNCHANGED inbox
  BY <1>1 DEF OnceOK, OnceSent, Sent
<1>2. CASE Post(c, "list", {}) /\ inbox' # inbox
  <2> DEFINE r == [from |-> c, endPoint |-> "list", todo |-> {}]
  <2>1. r \in Request /\ r.todo = {}
    BY DEF Request
  <2>2. inbox' = Append(inbox, r) /\ inbox \in Seq(Request)
    BY <1>2 DEF Post, AskType
  <2> HIDE DEF r
  <2>3. /\ Len(inbox) \in Nat /\ Len(inbox') = Len(inbox) + 1 /\ inbox'[Len(inbox) + 1] = r
        /\ \A i \in 1..Len(inbox) : inbox'[i] = inbox[i]
        /\ Sent' = Sent \cup r.todo
    BY <2>1, <2>2, Posted
  <2>4. \A i \in 1..Len(inbox') : \/ inbox'[i].todo = {}
                                  \/ /\ i + 0 \in 1..Len(inbox)
                                     /\ inbox'[i].todo \subseteq inbox[i + 0].todo
    BY <2>1, <2>3
  <2>5. OnceSent /\ 0 \in Nat /\ Len(inbox') \in Nat
    BY <2>3 DEF OnceOK
  <2>6. OnceSent'
    BY <2>4, <2>5, SentOnce
  <2> QED BY <2>1, <2>3, <2>6
<1> QED BY <1>1, <1>2

LEMMA StaleLoop ==
    ASSUME StaleInv, RunServiceSlurpLoopOnce PROVE StaleParts'
<1>0. /\ FollowerOK /\ OnceOK /\ AskType
      /\ UNCHANGED <<table, drawn, feed, minion, memory, pending, seen, left, manager,
                     consumer, next, excused>>
      /\ crudActions' = {} /\ slurper' \in {"asking", "ticker"}
      /\ UNCHANGED inbox \/ Post("slurper", "list", {})
  BY StaleFacts DEF RunServiceSlurpLoopOnce, NothingOfManager, answers, following
<1>1. Sent' = Sent /\ OnceSent'
  BY <1>0, CallersAre, OnceAsked
<1>2. FollowerOK'
  BY <1>0 DEF FollowerOK
<1> QED BY <1>0, <1>1, <1>2, StaleQuiet

LEMMA StaleTicker ==
    ASSUME StaleInv, Ticker PROVE StaleParts'
<1>0. /\ FollowerOK /\ OnceOK /\ slurper' = "list"
      /\ UNCHANGED <<table, drawn, feed, inbox, minion, memory, crudActions, pending, seen, left,
                     manager, consumer, next, excused>>
  BY StaleFacts DEF Ticker, NothingOfManager, answers, following
<1>1. Sent' = Sent /\ OnceSent'
  BY <1>0 DEF Sent, OnceSent, OnceOK
<1>2. FollowerOK'
  BY <1>0 DEF FollowerOK
<1> QED BY <1>0, <1>1, <1>2, StaleQuiet

LEMMA StaleStutter ==
    ASSUME StaleInv, UNCHANGED vars PROVE StaleParts'
<1>0. /\ FollowerOK /\ OnceOK
      /\ UNCHANGED <<table, drawn, feed, inbox, minion, memory, crudActions, pending, seen, left,
                     slurper, manager, consumer, next, excused>>
  BY StaleFacts DEF vars, database, slurping, answers, following
<1>1. Sent' = Sent /\ OnceSent'
  BY <1>0 DEF Sent, OnceSent, OnceOK
<1>2. FollowerOK'
  BY <1>0 DEF FollowerOK
<1> QED BY <1>0, <1>1, <1>2, StaleQuiet

LEMMA StaleManager ==
    ASSUME StaleInv, RunJournalCtlManager PROVE StaleParts'
<1>0. /\ FollowerOK /\ ToldOK /\ OnceOK /\ AskType
      /\ UNCHANGED <<table, drawn, feed, minion, memory, crudActions, pending, seen, left, slurper,
                     next, excused>>
      /\ manager = "connect" /\ manager' \in {"asking", "watching", "ended"}
      /\ UNCHANGED inbox \/ Post("manager", "list", {})
  BY StaleFacts DEF RunJournalCtlManager, NothingOfSlurper, database, slurping, answers
<1>1. Sent' = Sent /\ OnceSent'
  BY <1>0, CallersAre, OnceAsked
<1>2. InFlight' \subseteq InFlight
  BY <1>0, <1>1 DEF InFlight
<1>3. FollowerOK' /\ \A u : Excusable(u) => Excusable(u)'
  BY <1>0 DEF FollowerOK, Excusable, Coming
<1>4. next' <= Len(feed) + 1
  BY <1>0 DEF ToldOK
<1> QED BY <1>0, <1>1, <1>2, <1>3, <1>4, StaleStill

LEMMA StaleSubscribe ==
    ASSUME StaleInv, Subscribe PROVE StaleParts'
<1>0. /\ FollowerOK /\ OnceOK /\ Len(feed) \in Nat
      /\ UNCHANGED <<table, drawn, feed, inbox, minion, memory, crudActions, pending, seen, left,
                     slurper, manager, excused>>
      /\ consumer = "starting" /\ next' = Len(feed) + 1
  BY StaleFacts DEF Subscribe, NothingOfSlurper, database, slurping, answers
<1>1. Sent' = Sent /\ OnceSent'
  BY <1>0 DEF Sent, OnceSent, OnceOK
<1>2. InFlight' \subseteq InFlight
  BY <1>0, <1>1 DEF InFlight
<1>3. FollowerOK' /\ \A u : Excusable(u) => Excusable(u)'
  BY <1>0 DEF FollowerOK, Excusable, Coming
<1>4. next' <= Len(feed) + 1
  BY <1>0
<1> QED BY <1>0, <1>1, <1>2, <1>3, <1>4, StaleStill

LEMMA StaleFetchFails ==
    ASSUME StaleInv, FetchFails PROVE StaleParts'
<1>0. /\ FollowerOK /\ ToldOK /\ OnceOK /\ Len(feed) \in Nat
      /\ UNCHANGED <<table, drawn, feed, inbox, minion, memory, crudActions, pending, seen, left,
                     slurper, manager, next>>
      /\ consumer = "reading" /\ consumer' = "ended"
      /\ excused' = excused \cup {feed[i].name : i \in (next..Len(feed)) \cup due}
  BY StaleFacts DEF FetchFails, Excuse, NothingOfSlurper, database, slurping, answers
<1>1. Sent' = Sent /\ OnceSent'
  BY <1>0 DEF Sent, OnceSent, OnceOK
<1>2. InFlight' \subseteq InFlight
  BY <1>0, <1>1 DEF InFlight
<1>3. FollowerOK' /\ \A u : Excusable(u) => Excusable(u)'
  BY <1>0 DEF FollowerOK, Excusable, Coming
<1>4. next' <= Len(feed) + 1
  BY <1>0 DEF ToldOK
<1> QED BY <1>0, <1>1, <1>2, <1>3, <1>4, StaleStill

LEMMA StaleSend ==
    ASSUME StaleInv, SendCrud PROVE StaleParts'
<1>0. /\ FollowerOK /\ ToldOK /\ OnceOK /\ SlurperOK /\ AskType /\ SlurpType
      /\ UNCHANGED <<table, drawn, feed, minion, memory, pending, left, manager, consumer, next,
                     excused>>
      /\ slurper = "compare" /\ crudActions' = {} /\ slurper' \in {"ticker", "sending"}
      /\ seen' = [seen EXCEPT !["slurper"] = NoTable]
      /\ UNCHANGED inbox \/ Post("slurper", "crud", crudActions)
  BY StaleFacts DEF SendCrud, NothingOfManager, following
<1>1. /\ Sent' \subseteq Sent \cup crudActions
      /\ \A i, j \in 1..Len(inbox') : inbox'[i].todo # {} /\ inbox'[j].todo # {} => i = j
  <2>0. \A i \in 1..Len(inbox) : inbox[i].todo = {}
    BY <1>0 DEF SlurperOK
  <2>1. CASE UNCHANGED inbox
    BY <2>0, <2>1 DEF Sent
  <2>2. CASE Post("slurper", "crud", crudActions) /\ inbox' # inbox
    <3> DEFINE r == [from |-> "slurper", endPoint |-> "crud", todo |-> crudActions]
    <3>1. r \in Request /\ r.todo = crudActions
      BY <1>0, CallersAre DEF Request, SlurpType
    <3>2. inbox' = Append(inbox, r) /\ inbox \in Seq(Request)
      BY <1>0, <2>2 DEF Post, AskType
    <3> HIDE DEF r
    <3>3. /\ Len(inbox) \in Nat /\ Len(inbox') = Len(inbox) + 1 /\ inbox'[Len(inbox) + 1] = r
          /\ \A i \in 1..Len(inbox) : inbox'[i] = inbox[i]
          /\ Sent' = Sent \cup r.todo
      BY <3>1, <3>2, Posted
    <3>4. \A i \in 1..Len(inbox') : inbox'[i].todo # {} => i = Len(inbox) + 1
      BY <2>0, <3>3
    <3> QED BY <3>1, <3>3, <3>4
  <2> QED BY <1>0, <2>1, <2>2
<1>2. OnceSent' /\ InFlight' \subseteq InFlight
  BY <1>0, <1>1 DEF OnceSent, InFlight
<1>3. seen'["manager"] = seen["manager"]
  BY <1>0, CallersAre DEF AskType
<1>4. FollowerOK' /\ \A u : Excusable(u) => Excusable(u)'
  BY <1>0 DEF FollowerOK, Excusable, Coming
<1>5. next' <= Len(feed) + 1
  BY <1>0 DEF ToldOK
<1> QED BY <1>0, <1>2, <1>3, <1>4, <1>5, StaleStill

LEMMA StaleCrash ==
    ASSUME StaleInv, Crash PROVE StaleParts'
<1>0. /\ ToldOK /\ OnceOK /\ inbox \in Seq(Request) /\ Len(feed) \in Nat
      /\ UNCHANGED <<table, drawn, feed>> /\ Orphaned(Caller)
      /\ memory' = [u \in Unit |-> NoRecord] /\ pending' = NoRecord /\ crudActions' = {}
      /\ slurper' = "off" /\ manager' = "off" /\ consumer' = "off" /\ next' = 1
  BY StaleFacts DEF Crash, database
<1>1. Sent' = Sent /\ OnceSent'
  BY <1>0, OnceGone
<1>2. OnceOK'
  BY <1>0, <1>1, OnceStays DEF InFlight
<1>3. OwnOK' /\ FollowerOK'
  BY <1>0 DEF OwnOK, Own, FollowerOK
<1>4. ToldOK'
  BY <1>0 DEF ToldOK
<1>5. AllFresh'
  BY <1>0 DEF AllFresh, Fresh
<1> QED BY <1>2, <1>3, <1>4, <1>5 DEF StaleParts

\* The rows that a caller gets are those of the table.
LEMMA StaleList ==
    ASSUME StaleInv, ListSystemdServices PROVE StaleParts'
<1> DEFINE c == Head(inbox).from
<1>0. /\ FollowerOK /\ ToldOK /\ OnceOK /\ AllFresh /\ OwnOK /\ TableType /\ AskType /\ SlurpType
      /\ UNCHANGED <<table, drawn, feed, minion, memory, crudActions, pending, consumer, next,
                     excused>>
      /\ inbox \in Seq(Request) /\ inbox # <<>> /\ inbox' = Tail(inbox)
      /\ \/ Answered(c) /\ NoFault
         \/ Returns(c) /\ Fails("db") /\ UNCHANGED <<seen, left>>
  BY StaleFacts DEF ListSystemdServices, NothingOfMinion, database, answers, following
<1>1. Sent' \subseteq Sent /\ OnceSent'
  BY <1>0, OnceTaken
<1>2. c \in Caller \cup {"nobody"}
  BY <1>0, HeadTaken DEF Request
<1> HIDE DEF c
<1>3. CASE Returns(c) /\ UNCHANGED <<seen, left>>
  <2>1. slurper' \in {slurper, "ticker"} /\ manager' \in {manager, "watching"}
    BY <1>3, ReturnsQuiet
  <2>2. FollowerOK'
    BY <1>0, <2>1 DEF FollowerOK
  <2> QED BY <1>0, <1>1, <1>3, <2>1, <2>2, StaleQuiet
<1>4. CASE Answered(c)
  <2>1. /\ \A k \in Caller : seen'[k] = IF k = c THEN table ELSE seen[k]
        /\ slurper' = IF c = "slurper" THEN "compare" ELSE slurper
    BY <1>0, <1>2, <1>4, AnsweredType
  <2>2. /\ \A k \in Caller : k # c => left'[k] = left[k]
        /\ c # "manager" => manager' = manager
        /\ manager' \in {manager, "initial", "watching"}
    BY <1>2, <1>4, CallersAre DEF Answered
  <2>3. InFlight' \subseteq InFlight
    BY <1>0, <1>1 DEF InFlight
  <2>4. \A u, d : Claimed(u, d)' => Claimed(u, d)
    BY <1>0, <2>3, ClaimsFewer
  <2>5. OwnOK'
    <3>1. \A r : Own(r) => Own(r)'
      BY <1>0, <2>4, OwnStays
    <3>2. Own(pending)' /\ \A u \in Unit : Own(memory[u])'
      BY <1>0, <3>1 DEF OwnOK, Own
    <3> QED BY <3>2 DEF OwnOK
  <2>6. OnceOK' /\ ToldOK' /\ FollowerOK'
    <3>1. OnceOK'
      BY <1>0, <1>1, <2>3, OnceStays
    <3> QED BY <1>0, <2>2, <3>1 DEF ToldOK, FollowerOK
  <2>7. ASSUME NEW u \in Unit, ~ Excusable(u)' PROVE Fresh(u)'
    <3>1. Fresh(u) /\ ~ Excusable(u)
      BY <1>0, <2>7 DEF AllFresh, Excusable, Coming
    <3>2. /\ memory'[u] # NoRecord => Right(memory[u])'
          /\ pending' # NoRecord /\ pending'.name = u => Right(pending)'
      BY <1>0, <2>4, <3>1, RightStays DEF Fresh
    <3>3. \A k \in Caller : k = c => ReadRight(k, u)'
      BY <1>0, <2>1 DEF ReadRight
    <3>4. \A k \in Caller : k # c /\ ReadRight(k, u) => ReadRight(k, u)'
      BY <1>0, <2>1 DEF ReadRight
    <3>5. ASSUME slurper' \in {"compare", "store"}, u \in left'["slurper"], memory'[u] = NoRecord
          PROVE  ReadRight("slurper", u)'
      <4>1. CASE c = "slurper"
        BY <3>3, <4>1, CallersAre
      <4>2. CASE c # "slurper"
        <5>1. ReadRight("slurper", u)
          BY <1>0, <2>1, <2>2, <3>1, <3>5, <4>2, CallersAre DEF Fresh
        <5> QED BY <3>4, <4>2, <5>1, CallersAre
      <4> QED BY <4>1, <4>2
    <3>6. ASSUME manager' = "initial", u \in left'["manager"] PROVE ReadRight("manager", u)'
      <4>1. CASE c = "manager"
        BY <3>3, <4>1, CallersAre
      <4>2. CASE c # "manager"
        <5>1. ReadRight("manager", u)
          BY <2>2, <3>1, <3>6, <4>2, CallersAre DEF Fresh
        <5> QED BY <3>4, <4>2, <5>1, CallersAre
      <4> QED BY <4>1, <4>2
    <3> QED BY <3>2, <3>5, <3>6 DEF Fresh
  <2>8. AllFresh'
    BY <2>7 DEF AllFresh, Fresh
  <2> QED BY <2>5, <2>6, <2>8 DEF StaleParts
<1> QED BY <1>0, <1>3, <1>4

\* A row is written and published: it concerns no record of another unit.
LEMMA RowWritten ==
    ASSUME StaleInv, NEW r \in Record, table'[r.uid] # NoRow,
           r.enabled = table'[r.uid].enabled, Claimed(r.name, r.uid),
           \A d \in Uid : d # r.uid => table'[d] = table[d], feed' = Append(feed, r),
           UNCHANGED <<consumer, next, drawn>>, excused \subseteq excused',
           InFlight' \subseteq InFlight, \A u, d : HasRow(u, d)' => Claimed(u, d)
    PROVE  /\ ToldOK'
           /\ \A u : Excusable(u) => Excusable(u)'
           /\ consumer = "reading" => Excusable(r.name)'
           /\ \A u, d : Claimed(u, d)' => Claimed(u, d)
           /\ \A q : Own(q) => Own(q)'
           /\ \A q \in Record : Own(q) /\ Right(q) /\ q.name # r.name => Right(q)'
<1>0. /\ feed \in Seq(Record) /\ Len(feed) \in Nat /\ FeedOK /\ OneClaim /\ ToldOK
      /\ next \in Nat \ {0} /\ r.uid \in Uid /\ r.name \in Unit
  BY StaleFacts DEF RowsStay, Record
<1>1. /\ Len(feed') = Len(feed) + 1 /\ feed'[Len(feed) + 1] = r
      /\ \A i \in 1..Len(feed) : feed'[i] = feed[i]
  BY <1>0, AppendProperties
<1>2. \A i \in 1..Len(feed') : i \in 1..Len(feed) \/ i = Len(feed) + 1
  BY <1>0, <1>1
<1>3. \A u, d : Claimed(u, d)' => Claimed(u, d)
  BY DEF Claimed
<1>4. ToldOK'
  <2>1. next' <= Len(feed') + 1
    BY <1>0, <1>1 DEF ToldOK
  <2>2. ASSUME NEW i \in 1..Len(feed'),
               \A j \in 1..Len(feed') : j > i => feed'[j].name # feed'[i].name
        PROVE  feed'[i].enabled = table'[feed'[i].uid].enabled
    <3>1. CASE i = Len(feed) + 1
      BY <1>1, <3>1
    <3>2. CASE i \in 1..Len(feed)
      <4>1. r.name # feed[i].name
        BY <1>0, <1>1, <2>2, <3>2
      <4>2. \A j \in 1..Len(feed) : j > i => feed[j].name # feed[i].name
        BY <1>0, <1>1, <2>2, <3>2
      <4>3. feed[i].enabled = table[feed[i].uid].enabled
        BY <1>0, <3>2, <4>2 DEF ToldOK
      <4>4. feed[i] \in Record /\ feed[i].uid \in Uid /\ feed[i].name \in Unit
        <5>1. feed[i] \in Record
          BY <1>0, <3>2, ElementOfSeq
        <5> QED BY <5>1 DEF Record
      <4>5. Claimed(feed[i].name, feed[i].uid)
        BY <1>0, <3>2 DEF FeedOK, Claimed
      <4>6. feed[i].uid # r.uid
        BY <1>0, <4>1, <4>4, <4>5 DEF OneClaim
      <4> QED BY <1>1, <3>2, <4>3, <4>4, <4>6
    <3> QED BY <1>2, <3>1, <3>2
  <2> QED BY <2>1, <2>2 DEF ToldOK
<1>5. \A u : Excusable(u) => Excusable(u)'
  <2> SUFFICES ASSUME NEW u, Coming(u) PROVE Coming(u)'
    BY DEF Excusable
  <2>1. PICK i \in next..Len(feed) : feed[i].name = u
    BY DEF Coming
  <2>2. i \in next'..Len(feed') /\ feed'[i].name = u
    BY <1>0, <1>1, <2>1
  <2> QED BY <2>2 DEF Coming
<1>6. consumer = "reading" => Excusable(r.name)'
  <2>1. Len(feed) + 1 \in next'..Len(feed') /\ feed'[Len(feed) + 1].name = r.name
    BY <1>0, <1>1 DEF ToldOK
  <2> QED BY <2>1 DEF Excusable, Coming
<1>7. \A q : Own(q) => Own(q)'
  BY <1>3, OwnStays
<1>8. ASSUME NEW q \in Record, Own(q), Right(q), q.name # r.name PROVE Right(q)'
  <2>1. q.uid \in Uid /\ q # NoRecord
    BY RegistryAssumption DEF Record
  <2>2. q.uid # r.uid
    BY <1>0, <1>8, <2>1 DEF Own
  <2> QED BY <1>3, <1>8, <2>1, <2>2 DEF Right
<1> QED BY <1>3, <1>4, <1>5, <1>6, <1>7, <1>8

LEMMA StaleEdit ==
    ASSUME StaleInv, NEW d \in Uid, Edit(d) PROVE StaleParts'
<1> DEFINE u == table[d].name
           r == [uid |-> d, name |-> u, enabled |-> ~ table[d].enabled]
<1>0. /\ TableType /\ AskType /\ SlurpType /\ FollowType /\ RowsStay /\ RecordsOK
      /\ FollowerOK /\ ToldOK /\ OnceOK /\ AllFresh /\ OwnOK /\ NoRecord \notin Record
      /\ UNCHANGED <<drawn, inbox, minion, memory, crudActions, pending, seen, left, slurper,
                     manager, consumer, next>>
      /\ table[d] # NoRow /\ table' = [table EXCEPT ![d].enabled = ~ @]
      /\ feed' = Append(feed, r)
      /\ excused' = IF consumer # "reading" /\ Known(u) THEN excused \cup {u} ELSE excused
  BY StaleFacts DEF Edit, Excuse, slurping, answers, following
<1>1. /\ table[d] \in Row /\ table'[d] # NoRow /\ table'[d].name = table[d].name
      /\ table'[d].enabled = ~ table[d].enabled
      /\ \A e \in Uid : e # d => table'[e] = table[e]
  <2>1. table[d] \in Row /\ table \in [Uid -> Row \cup {NoRow}]
    BY <1>0 DEF TableType
  <2>2. table'[d] = [table[d] EXCEPT !.enabled = ~ table[d].enabled]
    BY <1>0, <2>1
  <2>3. table'[d] \in Row /\ table'[d].name = table[d].name
        /\ table'[d].enabled = ~ table[d].enabled
    BY <2>1, <2>2 DEF Row
  <2>4. \A e \in Uid : e # d => table'[e] = table[e]
    BY <1>0, <2>1
  <2> QED BY <2>1, <2>3, <2>4, RegistryAssumption
<1>2. r \in Record /\ r.uid = d /\ r.name = u /\ r.enabled = ~ table[d].enabled
  BY <1>1 DEF Row, Record
<1>3. \A v, e : HasRow(v, e)' <=> HasRow(v, e)
  BY <1>0, <1>1 DEF HasRow
<1>4. InFlight' = InFlight /\ OnceSent'
  BY <1>0 DEF InFlight, Sent, OnceOK, OnceSent
<1>5. Claimed(u, d) /\ \A v, e : HasRow(v, e)' => Claimed(v, e)
  BY <1>0, <1>3 DEF Claimed, HasRow
<1>6. excused \subseteq excused' /\ (consumer # "reading" => u \in excused' \/ ~ Known(u))
  BY <1>0
<1> HIDE DEF r
<1>7. PICK q \in Record : q = r
  BY <1>2
<1>8. q.uid = d /\ q.name = u /\ q.enabled = ~ table[d].enabled
  BY <1>2, <1>7
<1> HIDE DEF u
<1>9. /\ ToldOK'
      /\ \A v : Excusable(v) => Excusable(v)'
      /\ consumer = "reading" => Excusable(q.name)'
      /\ \A v, e : Claimed(v, e)' => Claimed(v, e)
      /\ \A p : Own(p) => Own(p)'
      /\ \A p \in Record : Own(p) /\ Right(p) /\ p.name # q.name => Right(p)'
  <2>1. table'[q.uid] # NoRow /\ q.enabled = table'[q.uid].enabled
    BY <1>1, <1>8
  <2>2. Claimed(q.name, q.uid) /\ \A e \in Uid : e # q.uid => table'[e] = table[e]
    BY <1>1, <1>5, <1>8
  <2> QED BY <1>0, <1>4, <1>5, <1>6, <1>7, <2>1, <2>2, RowWritten
<1>10. OnceOK'
  <2>1. \A a \in InFlight' : a.action = "insert" => table'[a.uid] = NoRow
    <3> SUFFICES ASSUME NEW a \in InFlight, a.action = "insert" PROVE table'[a.uid] = NoRow
      BY <1>4
    <3>1. table[a.uid] = NoRow /\ a.uid \in Uid
      BY <1>0, InFlightType DEF OnceOK, Crud
    <3> QED BY <1>0, <1>1, <3>1
  <2> QED BY <1>0, <1>4, <2>1 DEF OnceOK
<1>11. OwnOK' /\ FollowerOK'
  <2>1. Own(pending)' /\ \A v \in Unit : Own(memory[v])'
    BY <1>0, <1>9 DEF OwnOK, Own
  <2> QED BY <1>0, <2>1 DEF OwnOK, FollowerOK
<1>12. ASSUME NEW v \in Unit, ~ Excusable(v)' PROVE Fresh(v)'
  <2>1. Fresh(v) /\ ~ Excusable(v)
    BY <1>0, <1>9, <1>12 DEF AllFresh
  <2>2. CASE v = u
    <3>1. consumer # "reading" /\ u \notin excused'
      BY <1>8, <1>9, <1>12, <2>2 DEF Excusable
    <3>2. ~ Known(u)
      BY <1>6, <3>1
    <3> QED BY <1>0, <2>2, <3>2 DEF Known, Held, Fresh
  <2>3. CASE v # u
    <3>1. memory[v] # NoRecord => Right(memory[v])'
      <4> SUFFICES ASSUME memory[v] # NoRecord PROVE Right(memory[v])'
        OBVIOUS
      <4>1. memory[v] \in Record /\ memory[v].name = v /\ Own(memory[v]) /\ Right(memory[v])
        BY <1>0, <2>1 DEF FollowType, RecordsOK, OwnOK, Fresh
      <4>2. PICK p \in Record : p = memory[v]
        BY <4>1
      <4>3. Right(p)'
        BY <1>8, <1>9, <2>3, <4>1, <4>2
      <4> QED BY <1>0, <4>2, <4>3 DEF Right
    <3>2. pending # NoRecord /\ pending.name = v => Right(pending)'
      <4> SUFFICES ASSUME pending # NoRecord, pending.name = v PROVE Right(pending)'
        OBVIOUS
      <4>1. pending \in Record /\ Own(pending) /\ Right(pending)
        BY <1>0, <2>1 DEF SlurpType, OwnOK, Fresh
      <4>2. PICK p \in Record : p = pending
        BY <4>1
      <4>3. Right(p)'
        BY <1>8, <1>9, <2>3, <4>1, <4>2
      <4> QED BY <1>0, <4>2, <4>3 DEF Right
    <3>3. \A c \in Caller : ReadRight(c, v) => ReadRight(c, v)'
      <4>1. \A c \in Caller : \A e \in Uid : seen[c][e] # NoRow /\ seen[c][e].name = v => e # d
        BY <1>0, <2>3 DEF RowsStay, SeenOK, HasRow, u
      <4> QED BY <1>0, <1>1, <4>1 DEF ReadRight
    <3> QED BY <1>0, <2>1, <3>1, <3>2, <3>3, CallersAre DEF Fresh
  <2> QED BY <2>2, <2>3
<1>13. AllFresh'
  BY <1>12 DEF AllFresh, Fresh
<1> QED BY <1>9, <1>10, <1>11, <1>13 DEF StaleParts

\* A statement of nefario leaves minionEnabled as it is, and a row that it makes is of a unit that
\* no record calls enabled.
LEMMA StaleCrud ==
    ASSUME StaleInv, SystemdServiceCrud PROVE StaleParts'
<1> DEFINE c == Head(inbox).from
<1>0. /\ TableType /\ AskType /\ SlurpType /\ FollowType /\ RowsStay /\ RecordsOK /\ OneClaim
      /\ SlurperOK /\ inbox \in Seq(Request) /\ inbox # <<>>
      /\ FollowerOK /\ ToldOK /\ OnceOK /\ AllFresh /\ OwnOK /\ NoRecord \notin Record
      /\ UNCHANGED <<byValue, systemd, drawn, minion, memory, crudActions, pending, seen, left,
                     consumer, next, excused>>
  BY StaleFacts DEF SystemdServiceCrud, NothingOfMinion, answers, following
<1>1. PICK a \in Head(inbox).todo :
        LET rest == Head(inbox).todo \ {a} IN
        \/ /\ Applied(a) /\ NoFault /\ UNCHANGED lost
           /\ IF rest # {}
              THEN inbox' = [inbox EXCEPT ![1].todo = rest] /\ UNCHANGED <<slurper, manager>>
              ELSE inbox' = Tail(inbox) /\ Returns(c)
        \/ /\ inbox' = Tail(inbox) /\ Returns(c) /\ Fails("db")
           /\ \/ Applied(a) /\ lost' = lost \cup Inserts(rest)
              \/ UNCHANGED <<table, feed>> /\ lost' = lost \cup Inserts(Head(inbox).todo)
  BY DEF SystemdServiceCrud
<1> DEFINE rest == Head(inbox).todo \ {a}
<1>2. Head(inbox) = inbox[1] /\ 1 \in 1..Len(inbox) /\ inbox[1] \in Request /\ Len(inbox) \in Nat
  <2>1. Len(inbox) \in Nat /\ Len(inbox) # 0
    BY <1>0, LenProperties, EmptySeq
  <2> QED BY <1>0, <2>1, ElementOfSeq
<1>3. a \in Crud /\ a \in InFlight /\ slurper \notin {"compare", "store"} /\ crudActions = {}
  <2>1. a \in Sent
    BY <1>2 DEF Sent
  <2>2. slurper \notin {"compare", "store"}
    BY <1>0, <1>2 DEF SlurperOK
  <2> QED BY <1>0, <2>1, <2>2, InFlightType DEF InFlight, SlurperOK
\* What was done is no longer to be done.
<1>4. OnceSent' /\ Sent' \subseteq Sent /\ (a.action = "insert" => a \notin Sent')
  <2>1. CASE inbox' = Tail(inbox)
    BY <1>0, <2>1, OnceTaken
  <2>2. CASE inbox' = [inbox EXCEPT ![1].todo = rest]
    <3>1. /\ Len(inbox') = Len(inbox) /\ inbox'[1].todo = rest
          /\ \A i \in 1..Len(inbox) : i # 1 => inbox'[i] = inbox[i]
          /\ Sent' \subseteq Sent
      BY <1>0, <2>2, HeadShortened
    <3>2. \A i \in 1..Len(inbox') : inbox'[i].todo \subseteq inbox[i].todo
      BY <1>2, <3>1
    <3>3. OnceSent'
      BY <1>0, <3>1, <3>2 DEF OnceOK, OnceSent
    <3>4. a.action = "insert" => a \notin Sent'
      <4> SUFFICES ASSUME a.action = "insert", NEW i \in 1..Len(inbox'), a \in inbox'[i].todo
                   PROVE  FALSE
        BY DEF Sent
      <4>1. i = 1
        BY <1>0, <1>2, <3>1, <3>2 DEF OnceOK, OnceSent
      <4> QED BY <3>1, <4>1
    <3> QED BY <3>1, <3>3, <3>4
  <2> QED BY <1>1, <2>1, <2>2
<1>5. InFlight' \subseteq InFlight /\ InFlight' = Sent'
  BY <1>0, <1>3, <1>4 DEF InFlight
<1>6. slurper' \in {slurper, "ticker"} /\ manager' \in {manager, "watching"}
  BY <1>1, ReturnsQuiet
<1>7. FollowerOK'
  BY <1>0, <1>6 DEF FollowerOK
<1>8. Applied(a) \/ UNCHANGED <<table, feed>>
  BY <1>1
<1> HIDE DEF rest, c
<1>9. CASE UNCHANGED <<table, feed>>
  BY <1>0, <1>4, <1>6, <1>7, <1>9, StaleQuiet
<1>10. CASE Applied(a)
  <2> DEFINE r == [uid |-> a.uid, name |-> a.name, enabled |-> table'[a.uid].enabled]
  <2>1. /\ \A u, d : HasRow(u, d)' => Claimed(u, d)
        /\ HasRow(a.name, a.uid)' /\ TableType'
    BY <1>0, <1>3, <1>10, AppliedKeeps
  <2>2. a.uid \in Uid /\ a.name \in Unit /\ a.action \in {"insert", "update"}
    BY <1>3 DEF Crud
  <2>3. /\ table'[a.uid].enabled = (a.action = "update" /\ table[a.uid].enabled)
        /\ table'[a.uid] # NoRow /\ feed' = Append(feed, r)
        /\ \A d \in Uid : d # a.uid => table'[d] = table[d]
    BY <1>0, <1>10, <2>1, <2>2 DEF Applied, TableType, HasRow
  <2>4. IF a.action = "insert" THEN table[a.uid] = NoRow ELSE table[a.uid] # NoRow
    BY <1>0, <1>3, <2>2 DEF OnceOK, RowsStay, HasRow
  <2>5. r \in Record /\ r.uid = a.uid /\ r.name = a.name /\ r.enabled = table'[a.uid].enabled
    BY <2>1, <2>2, <2>3 DEF Record, TableType, Row
  <2> HIDE DEF r
  <2>6. PICK q \in Record : q = r
    BY <2>5
  <2>7. q.uid = a.uid /\ q.name = a.name /\ q.enabled = table'[a.uid].enabled
    BY <2>5, <2>6
  <2>8. Claimed(a.name, a.uid)
    BY <2>1
  <2>9. /\ ToldOK'
        /\ \A v : Excusable(v) => Excusable(v)'
        /\ \A v, e : Claimed(v, e)' => Claimed(v, e)
        /\ \A p : Own(p) => Own(p)'
        /\ \A p \in Record : Own(p) /\ Right(p) /\ p.name # q.name => Right(p)'
    <3>1. table'[q.uid] # NoRow /\ q.enabled = table'[q.uid].enabled /\ Claimed(q.name, q.uid)
          /\ \A d \in Uid : d # q.uid => table'[d] = table[d]
      BY <2>3, <2>7, <2>8
    <3> QED BY <1>0, <1>5, <2>1, <2>3, <2>6, <3>1, RowWritten
  <2>10. ASSUME NEW p \in Record, Own(p), Right(p) PROVE Right(p)'
    <3>1. p.uid \in Uid /\ p.enabled \in BOOLEAN /\ p # NoRecord
      BY <1>0 DEF Record
    <3>2. CASE p.uid # a.uid
      BY <2>3, <2>9, <2>10, <3>1, <3>2 DEF Right
    <3>3. CASE p.uid = a.uid
      <4>1. p.name = a.name
        BY <2>2, <2>8, <2>10, <3>1, <3>3 DEF Own
      <4>2. CASE a.action = "insert"
        BY <2>3, <2>4, <2>8, <2>10, <3>1, <3>3, <4>1, <4>2 DEF Right
      <4>3. CASE a.action = "update"
        <5>1. table[a.uid] \in Row
          BY <1>0, <2>2, <2>4, <4>3 DEF TableType
        <5>2. table[a.uid].enabled \in BOOLEAN
          BY <5>1 DEF Row
        <5>3. table'[a.uid].enabled = table[a.uid].enabled
          BY <2>3, <4>3, <5>2
        <5> QED BY <2>3, <2>4, <2>10, <3>3, <4>3, <5>3 DEF Right
      <4> QED BY <2>2, <4>2, <4>3
    <3> QED BY <3>2, <3>3
  <2>11. OwnOK'
    <3>1. Own(pending)' /\ \A v \in Unit : Own(memory[v])'
      BY <1>0, <2>9 DEF OwnOK, Own
    <3> QED BY <3>1 DEF OwnOK
  <2>12. OnceOK'
    <3>1. ASSUME NEW b \in InFlight', b.action = "insert" PROVE table'[b.uid] = NoRow
      <4>1. b \in InFlight /\ table[b.uid] = NoRow /\ b.uid \in Uid
        BY <1>0, <1>5, <3>1, InFlightType DEF OnceOK, Crud
      <4>2. b.uid # a.uid
        BY <1>0, <1>3, <1>4, <1>5, <2>2, <2>4, <3>1, <4>1 DEF OnceOK
      <4> QED BY <2>3, <4>1, <4>2
    <3> QED BY <1>0, <1>4, <1>5, <3>1 DEF OnceOK
  <2>13. ASSUME NEW v \in Unit, ~ Excusable(v)' PROVE Fresh(v)'
    <3>0. Fresh(v) /\ ~ Excusable(v)
      BY <1>0, <2>9, <2>13 DEF AllFresh
    <3>1. memory[v] # NoRecord => Right(memory[v])'
      <4> SUFFICES ASSUME memory[v] # NoRecord PROVE Right(memory[v])'
        OBVIOUS
      <4>1. memory[v] \in Record /\ Own(memory[v]) /\ Right(memory[v])
        BY <1>0, <3>0 DEF FollowType, OwnOK, Fresh
      <4>2. PICK p \in Record : p = memory[v]
        BY <4>1
      <4>3. Right(p)'
        BY <2>10, <4>1, <4>2
      <4> QED BY <1>0, <4>2, <4>3 DEF Right
    <3>2. pending # NoRecord /\ pending.name = v => Right(pending)'
      <4> SUFFICES ASSUME pending # NoRecord, pending.name = v PROVE Right(pending)'
        OBVIOUS
      <4>1. pending \in Record /\ Own(pending) /\ Right(pending)
        BY <1>0, <3>0 DEF SlurpType, OwnOK, Fresh
      <4>2. PICK p \in Record : p = pending
        BY <4>1
      <4>3. Right(p)'
        BY <2>10, <4>1, <4>2
      <4> QED BY <1>0, <4>2, <4>3 DEF Right
    <3>3. ReadRight("manager", v) => ReadRight("manager", v)'
      <4> SUFFICES ASSUME ReadRight("manager", v), NEW e \in Uid,
                          seen["manager"][e] # NoRow, seen["manager"][e].name = v
                   PROVE  seen["manager"][e].enabled = table'[e].enabled
        BY <1>0 DEF ReadRight
      <4>1. seen["manager"][e].enabled = table[e].enabled /\ table[e] \in Row
        BY <1>0, CallersAre DEF ReadRight, RowsStay, SeenOK, HasRow, TableType
      <4>2. table'[e].enabled = table[e].enabled
        <5>1. CASE e # a.uid
          BY <2>3, <5>1
        <5>2. CASE e = a.uid
          <6>1. table[e].enabled \in BOOLEAN /\ table[e] # NoRow
            BY <4>1, RegistryAssumption DEF Row
          <6> QED BY <2>2, <2>3, <2>4, <5>2, <6>1
        <5> QED BY <5>1, <5>2
      <4> QED BY <4>1, <4>2
    <3> QED BY <1>0, <1>3, <1>6, <3>0, <3>1, <3>2, <3>3 DEF Fresh
  <2>14. AllFresh'
    BY <2>13 DEF AllFresh, Fresh
  <2> QED BY <1>7, <2>9, <2>11, <2>12, <2>14 DEF StaleParts
<1> QED BY <1>8, <1>9, <1>10

LEMMA StaleStore ==
    ASSUME StaleInv, Store PROVE StaleParts'
<1>0. /\ SlurpType /\ FollowType /\ RecordsOK
      /\ FollowerOK /\ ToldOK /\ OnceOK /\ AllFresh /\ OwnOK /\ NoRecord \notin Record
      /\ UNCHANGED <<table, drawn, feed, inbox, minion, manager, crudActions, seen, left,
                     consumer, next, excused>>
      /\ slurper = "store" /\ slurper' = "compare" /\ pending' = NoRecord
      /\ memory' = [memory EXCEPT ![pending.name] = pending]
  BY StaleFacts DEF Store, NothingOfManager, answers, following
<1>1. /\ pending \in Record /\ pending.name \in Unit /\ memory'[pending.name] = pending
      /\ \A u \in Unit : u # pending.name => memory'[u] = memory[u]
  BY <1>0 DEF SlurpType, FollowType, Record
<1>2. Sent' = Sent /\ InFlight' = InFlight /\ OnceSent'
  BY <1>0 DEF Sent, InFlight, OnceSent, OnceOK
<1>3. \A u, d : Claimed(u, d)' => Claimed(u, d)
  BY <1>0, <1>2, ClaimsFewer
<1>4. \A r : (Own(r) => Own(r)') /\ (Right(r) => Right(r)')
  BY <1>0, <1>3, OwnStays, RightStays
<1>5. OwnOK'
  <2>1. Own(pending)'
    BY <1>0 DEF Own
  <2>2. ASSUME NEW u \in Unit PROVE Own(memory[u])'
    <3>1. PICK r : r = memory'[u]
      OBVIOUS
    <3>2. Own(r)
      BY <1>0, <1>1, <3>1 DEF OwnOK
    <3>3. Own(r)'
      BY <1>4, <3>2
    <3> QED BY <3>1, <3>3 DEF Own
  <2> QED BY <2>1, <2>2 DEF OwnOK
<1>6. OnceOK' /\ ToldOK' /\ FollowerOK'
  BY <1>0, <1>2, OnceStays DEF ToldOK, FollowerOK
<1>7. ASSUME NEW u \in Unit, ~ Excusable(u)' PROVE Fresh(u)'
  <2>1. Fresh(u) /\ ~ Excusable(u)
    BY <1>0, <1>7 DEF AllFresh, Excusable, Coming
  <2>2. memory'[u] # NoRecord => Right(memory[u])'
    <3> SUFFICES ASSUME memory'[u] # NoRecord PROVE Right(memory[u])'
      OBVIOUS
    <3>1. PICK r : r = memory'[u]
      OBVIOUS
    <3>2. Right(r)
      BY <1>0, <1>1, <2>1, <3>1 DEF Fresh
    <3>3. Right(r)'
      BY <1>4, <3>2
    <3> QED BY <3>1, <3>3 DEF Right
  <2>3. \A c \in Caller : ReadRight(c, u) => ReadRight(c, u)'
    BY <1>0 DEF ReadRight
  <2>4. memory'[u] = NoRecord => memory[u] = NoRecord
    BY <1>0, <1>1
  <2> QED BY <1>0, <2>1, <2>2, <2>3, <2>4, CallersAre DEF Fresh
<1>8. AllFresh'
  BY <1>7 DEF AllFresh, Fresh
<1> QED BY <1>5, <1>6, <1>8 DEF StaleParts

\* A record of a row, read before: the minion's record of the unit is of the row's uid, or of one
\* that nobody claims; with what the row says now, it is right.
LEMMA RecordRight ==
    ASSUME StaleInv, NEW r \in Record, HasRow(r.name, r.uid), ProcessRecord(r)
    PROVE  /\ r.name \in Unit /\ memory'[r.name] # NoRecord
           /\ \A u \in Unit : u # r.name => memory'[u] = memory[u]
           /\ Own(memory'[r.name])
           /\ r.enabled = table[r.uid].enabled => Right(memory'[r.name])
<1>0. /\ TableType /\ FollowType /\ OneClaim /\ RecordsOK /\ OwnOK /\ NoRecord \notin Record
      /\ r.name \in Unit /\ r.uid \in Uid
      /\ memory \in [Unit -> Record \cup {NoRecord}]
  BY StaleFacts DEF Record, FollowType
<1>1. Claimed(r.name, r.uid) /\ table[r.uid] # NoRow /\ r.uid <= drawn
  BY <1>0 DEF Claimed, HasRow, TableType, Uid
<1>2. Own(r) /\ (r.enabled = table[r.uid].enabled => Right(r))
  BY <1>0, <1>1 DEF Own, OneClaim, Right
<1>3. CASE memory[r.name] = NoRecord
  <2>1. memory' = [memory EXCEPT ![r.name] = r]
    BY <1>3 DEF ProcessRecord
  <2> QED BY <1>0, <1>2, <2>1
<1>4. CASE memory[r.name] # NoRecord
  <2> DEFINE m == [memory[r.name] EXCEPT !.enabled = r.enabled]
  <2>0. memory[r.name] \in Record /\ memory[r.name].name = r.name
    BY <1>0, <1>4 DEF RecordsOK
  <2>1. memory' = [memory EXCEPT ![r.name] = m]
    BY <1>4 DEF ProcessRecord
  <2>2. /\ m \in Record /\ m.name = r.name /\ m.uid = memory[r.name].uid
        /\ m.enabled = r.enabled
    BY <2>0 DEF Record
  <2>3. Own(m)
    BY <1>0, <2>0, <2>2 DEF OwnOK, Own
  <2> HIDE DEF m
  <2>4. ASSUME r.enabled = table[r.uid].enabled PROVE Right(m)
    <3>1. m.uid \in Uid /\ m # NoRecord
      BY <1>0, <2>2 DEF Record
    <3>2. CASE m.uid = r.uid
      BY <1>1, <2>2, <2>4, <3>2 DEF Right
    <3>3. CASE m.uid # r.uid
      <4>1. ~ Claimed(r.name, m.uid)
        BY <1>0, <1>1, <3>1, <3>3 DEF OneClaim
      <4>2. table[m.uid] = NoRow
        <5> SUFFICES ASSUME table[m.uid] # NoRow PROVE FALSE
          OBVIOUS
        <5>1. table[m.uid].name \in Unit /\ Claimed(table[m.uid].name, m.uid)
          BY <1>0, <3>1 DEF TableType, Row, Claimed, HasRow
        <5>2. table[m.uid].name = r.name
          BY <2>2, <2>3, <3>1, <5>1 DEF Own
        <5> QED BY <4>1, <5>1, <5>2
      <4> QED BY <2>2, <4>1, <4>2 DEF Right
    <3> QED BY <3>2, <3>3
  <2> QED BY <1>0, <2>1, <2>2, <2>3, <2>4
<1> QED BY <1>3, <1>4

LEMMA StaleInitial ==
    ASSUME StaleInv, NEW u \in Unit, ProcessInitial(u) PROVE StaleParts'
<1>0. /\ AskType /\ SlurpType /\ FollowType /\ RowsStay
      /\ FollowerOK /\ ToldOK /\ OnceOK /\ AllFresh /\ OwnOK /\ NoRecord \notin Record
      /\ UNCHANGED <<table, drawn, feed, inbox, minion, slurper, crudActions, pending,
                     consumer, next, excused>>
      /\ manager = "initial" /\ u \in left["manager"]
      /\ left' = [left EXCEPT !["manager"] = @ \ {u}]
      /\ \/ manager' = "watching" /\ seen' = [seen EXCEPT !["manager"] = NoTable]
         \/ UNCHANGED <<manager, seen>>
  BY StaleFacts DEF ProcessInitial, NothingOfSlurper, database, slurping, following
<1>1. PICK d \in Uid : /\ seen["manager"][d] # NoRow /\ seen["manager"][d].name = u
                       /\ ProcessRecord([uid |-> d, name |-> u,
                                         enabled |-> seen["manager"][d].enabled])
  BY DEF ProcessInitial
<1> DEFINE r == [uid |-> d, name |-> u, enabled |-> seen["manager"][d].enabled]
<1>2. /\ HasRow(u, d) /\ r \in Record /\ r.name = u /\ r.uid = d
      /\ r.enabled = seen["manager"][d].enabled
  <2>1. HasRow(u, d)
    BY <1>0, <1>1, CallersAre DEF RowsStay, SeenOK
  <2>2. seen["manager"][d] \in Row
    BY <1>0, <1>1, CallersAre DEF AskType
  <2> QED BY <2>1, <2>2 DEF Row, Record
<1> HIDE DEF r
<1>3. PICK q \in Record : q = r
  BY <1>2
<1>4. /\ ProcessRecord(q) /\ HasRow(q.name, q.uid) /\ q.name = u
      /\ q.enabled = seen["manager"][d].enabled /\ q.uid = d
  BY <1>1, <1>2, <1>3 DEF r
<1>5. /\ memory'[u] # NoRecord
      /\ \A v \in Unit : v # u => memory'[v] = memory[v]
      /\ Own(memory'[u])
      /\ q.enabled = table[d].enabled => Right(memory'[u])
  BY <1>4, RecordRight
<1>6. Sent' = Sent /\ InFlight' = InFlight /\ OnceSent'
  BY <1>0 DEF Sent, InFlight, OnceSent, OnceOK
<1>7. \A v, e : Claimed(v, e)' => Claimed(v, e)
  BY <1>0, <1>6, ClaimsFewer
<1>8. \A p : (Own(p) => Own(p)') /\ (Right(p) => Right(p)')
  BY <1>0, <1>7, OwnStays, RightStays
<1>9. OwnOK'
  <2>1. Own(pending)'
    BY <1>0, <1>8 DEF OwnOK, Own
  <2>2. ASSUME NEW v \in Unit PROVE Own(memory[v])'
    <3>1. PICK p : p = memory'[v]
      OBVIOUS
    <3>2. Own(p)
      BY <1>0, <1>5, <3>1 DEF OwnOK
    <3>3. Own(p)'
      BY <1>8, <3>2
    <3> QED BY <3>1, <3>3 DEF Own
  <2> QED BY <2>1, <2>2 DEF OwnOK
<1>10. OnceOK' /\ ToldOK' /\ FollowerOK'
  <2>1. OnceOK'
    BY <1>0, <1>6, OnceStays
  <2> QED BY <1>0, <2>1 DEF ToldOK, FollowerOK
<1>11. ASSUME NEW v \in Unit, ~ Excusable(v)' PROVE Fresh(v)'
  <2>1. Fresh(v) /\ ~ Excusable(v)
    BY <1>0, <1>11 DEF AllFresh, Excusable, Coming
  <2>2. memory'[v] # NoRecord => Right(memory[v])'
    <3> SUFFICES ASSUME memory'[v] # NoRecord PROVE Right(memory[v])'
      OBVIOUS
    <3>1. PICK p : p = memory'[v]
      OBVIOUS
    <3>2. Right(p)
      <4>1. CASE v # u
        BY <1>5, <2>1, <3>1, <4>1 DEF Fresh
      <4>2. CASE v = u
        <5>1. ReadRight("manager", u)
          BY <1>0, <2>1, <4>2 DEF Fresh
        <5>2. q.enabled = table[d].enabled
          BY <1>1, <1>4, <5>1 DEF ReadRight
        <5> QED BY <1>5, <3>1, <4>2, <5>2
      <4> QED BY <4>1, <4>2
    <3>3. Right(p)'
      BY <1>8, <3>2
    <3> QED BY <3>1, <3>3 DEF Right
  <2>3. pending' # NoRecord /\ pending'.name = v => Right(pending)'
    BY <1>0, <1>8, <2>1 DEF Fresh, Right
  <2>4. memory'[v] = NoRecord => memory[v] = NoRecord
    BY <1>5
  <2>5. /\ left'["slurper"] = left["slurper"] /\ seen'["slurper"] = seen["slurper"]
        /\ left'["manager"] \subseteq left["manager"]
    BY <1>0, CallersAre DEF AskType
  <2>6. ReadRight("slurper", v) => ReadRight("slurper", v)'
    BY <1>0, <2>5 DEF ReadRight
  <2>7. manager' = "initial" /\ ReadRight("manager", v) => ReadRight("manager", v)'
    BY <1>0 DEF ReadRight
  <2> QED BY <1>0, <2>1, <2>2, <2>3, <2>4, <2>5, <2>6, <2>7 DEF Fresh
<1>12. AllFresh'
  BY <1>11 DEF AllFresh, Fresh
<1> QED BY <1>9, <1>10, <1>12 DEF StaleParts

\* A change that is the last of its unit makes the record right; after one that is not, either a
\* later one is still to be read, or the unit is excused.
LEMMA StaleChange ==
    ASSUME StaleInv, NEW i \in 1..Len(feed), ProcessChangeEvent(i) PROVE StaleParts'
<1>0. /\ AskType /\ SlurpType /\ FollowType /\ RowsStay
      /\ feed \in Seq(Record) /\ Len(feed) \in Nat /\ next \in Nat \ {0} /\ i \in Nat
      /\ FollowerOK /\ ToldOK /\ OnceOK /\ AllFresh /\ OwnOK /\ NoRecord \notin Record
      /\ UNCHANGED <<table, drawn, feed, inbox, minion, slurper, crudActions, pending, manager,
                     seen, left, consumer>>
      /\ consumer = "reading" /\ next' = (IF i = next THEN next + 1 ELSE next)
      /\ ProcessRecord(feed[i])
  BY StaleFacts DEF ProcessChangeEvent, NothingOfSlurper, database, slurping, answers
<1>1. feed[i] \in Record /\ HasRow(feed[i].name, feed[i].uid)
  BY <1>0, ElementOfSeq DEF RowsStay, FeedOK
<1>2. PICK q \in Record : q = feed[i]
  BY <1>1
<1>3. PICK u \in Unit : u = feed[i].name
  BY <1>1 DEF Record
<1> DEFINE newer == \E j \in i + 1..next' - 1 : feed[j].name = u
<1>4. excused' = IF newer \/ Held(u) THEN excused \cup {u} ELSE excused \ {u}
  BY <1>3 DEF ProcessChangeEvent
<1>5. ProcessRecord(q) /\ HasRow(q.name, q.uid) /\ q.name = u
  BY <1>0, <1>1, <1>2, <1>3
<1>6. /\ u \in Unit /\ memory'[u] # NoRecord
      /\ \A v \in Unit : v # u => memory'[v] = memory[v]
      /\ Own(memory'[u])
      /\ q.enabled = table[q.uid].enabled => Right(memory'[u])
  BY <1>5, RecordRight
<1>7. Sent' = Sent /\ InFlight' = InFlight /\ OnceSent'
  BY <1>0 DEF Sent, InFlight, OnceSent, OnceOK
<1>8. \A v, e : Claimed(v, e)' => Claimed(v, e)
  BY <1>0, <1>7, ClaimsFewer
<1>9. \A p : (Own(p) => Own(p)') /\ (Right(p) => Right(p)')
  BY <1>0, <1>8, OwnStays, RightStays
<1>10. OwnOK'
  <2>1. Own(pending)'
    BY <1>0, <1>9 DEF OwnOK, Own
  <2>2. ASSUME NEW v \in Unit PROVE Own(memory[v])'
    <3>1. PICK p : p = memory'[v]
      OBVIOUS
    <3>2. Own(p)
      BY <1>0, <1>6, <3>1 DEF OwnOK
    <3>3. Own(p)'
      BY <1>9, <3>2
    <3> QED BY <3>1, <3>3 DEF Own
  <2> QED BY <2>1, <2>2 DEF OwnOK
<1>11. OnceOK' /\ ToldOK' /\ FollowerOK'
  <2>1. OnceOK'
    BY <1>0, <1>7, OnceStays
  <2>2. next' <= Len(feed) + 1
    BY <1>0 DEF ToldOK
  <2> QED BY <1>0, <2>1, <2>2 DEF ToldOK, FollowerOK
<1>12. ASSUME NEW v \in Unit, v # u, Excusable(v) PROVE Excusable(v)'
  <2>1. CASE v \in excused
    BY <1>12, <1>4, <2>1 DEF Excusable
  <2>2. CASE Coming(v)
    <3>1. PICK j \in next..Len(feed) : feed[j].name = v
      BY <2>2 DEF Coming
    <3>2. j \in next'..Len(feed)
      BY <1>0, <1>3, <1>12, <3>1
    <3> QED BY <1>0, <3>1, <3>2 DEF Excusable, Coming
  <2> QED BY <1>12, <2>1, <2>2 DEF Excusable
<1>13. ASSUME ~ Excusable(u)' PROVE ~ Held(u) /\ Right(memory'[u])
  <2>1. ~ newer /\ ~ Held(u)
    BY <1>13, <1>4 DEF Excusable
  <2>2. ASSUME NEW j \in 1..Len(feed), j > i, feed[j].name = u PROVE FALSE
    <3>1. j \in next'..Len(feed)
      <4>1. next' \in Nat /\ j \in Nat
        BY <1>0
      <4>2. ~ (j \in i + 1..next' - 1)
        BY <2>1, <2>2
      <4> QED BY <1>0, <2>2, <4>1, <4>2
    <3> QED BY <1>0, <1>13, <2>2, <3>1 DEF Excusable, Coming
  <2>3. q.enabled = table[q.uid].enabled
    BY <1>0, <1>2, <1>3, <2>2 DEF ToldOK
  <2> QED BY <1>6, <2>1, <2>3
<1> HIDE DEF newer
<1>14. ASSUME NEW v \in Unit, ~ Excusable(v)' PROVE Fresh(v)'
  <2>1. v # u => Fresh(v) /\ ~ Excusable(v)
    BY <1>0, <1>12, <1>14 DEF AllFresh
  <2>2. memory'[v] # NoRecord => Right(memory[v])'
    <3> SUFFICES ASSUME memory'[v] # NoRecord PROVE Right(memory[v])'
      OBVIOUS
    <3>1. PICK p : p = memory'[v]
      OBVIOUS
    <3>2. Right(p)
      <4>1. CASE v # u
        BY <1>6, <2>1, <3>1, <4>1 DEF Fresh
      <4>2. CASE v = u
        BY <1>13, <1>14, <3>1, <4>2
      <4> QED BY <4>1, <4>2
    <3>3. Right(p)'
      BY <1>9, <3>2
    <3> QED BY <3>1, <3>3 DEF Right
  <2>3. CASE v = u
    BY <1>0, <1>6, <1>13, <1>14, <2>2, <2>3 DEF Fresh, Held
  <2>4. CASE v # u
    <3>1. pending' # NoRecord /\ pending'.name = v => Right(pending)'
      BY <1>0, <1>9, <2>1, <2>4 DEF Fresh, Right
    <3>2. \A c \in Caller : ReadRight(c, v) => ReadRight(c, v)'
      BY <1>0 DEF ReadRight
    <3>3. memory'[v] = memory[v]
      BY <1>6, <2>4
    <3> QED BY <1>0, <2>1, <2>2, <2>4, <3>1, <3>2, <3>3, CallersAre DEF Fresh
  <2> QED BY <2>3, <2>4
<1>15. AllFresh'
  BY <1>14 DEF AllFresh, Fresh
<1> QED BY <1>10, <1>11, <1>15 DEF StaleParts

LEMMA StaleCompare ==
    ASSUME StaleInv, NEW u \in Unit, Compare(u) PROVE StaleParts'
<1>0. /\ TableType /\ AskType /\ SlurpType /\ FollowType /\ RowsStay /\ OneClaim
      /\ FollowerOK /\ ToldOK /\ OnceOK /\ AllFresh /\ OwnOK /\ NoRecord \notin Record
      /\ UNCHANGED <<table, feed, inbox, minion, memory, manager, seen, consumer, next, excused>>
      /\ slurper = "compare" /\ u \in left["slurper"]
      /\ left' = [left EXCEPT !["slurper"] = @ \ {u}]
  BY StaleFacts DEF Compare, NothingOfManager, following
<1> DEFINE isNew == RowsOf(u) = {}
<1>1. PICK d \in IF isNew THEN {drawn + 1} \cap Uid ELSE RowsOf(u) :
        LET r == seen["slurper"][d]
            crud(action) == [action |-> action, uid |-> d, name |-> u, status |-> units[u]]
        IN  /\ drawn' = IF isNew THEN d ELSE drawn
            /\ crudActions' = IF isNew THEN crudActions \cup {crud("insert")}
                 ELSE IF Differs(r.status, units[u]) THEN crudActions \cup {crud("update")}
                 ELSE crudActions
            /\ IF memory[u] # NoRecord THEN UNCHANGED <<slurper, pending>>
               ELSE /\ slurper' = "store"
                    /\ pending' = [uid |-> d, name |-> u, enabled |-> ~ isNew /\ r.enabled]
  BY DEF Compare
<1> DEFINE a == [action |-> IF isNew THEN "insert" ELSE "update", uid |-> d, name |-> u,
                 status |-> units[u]]
           new == [uid |-> d, name |-> u, enabled |-> ~ isNew /\ seen["slurper"][d].enabled]
<1>2. d \in Uid /\ (isNew => d = drawn + 1) /\ drawn \in Nat
  BY <1>0, <1>1 DEF RowsOf, TableType
<1>3. ~ isNew => seen["slurper"][d] # NoRow /\ seen["slurper"][d].name = u /\ HasRow(u, d)
  BY <1>0, <1>1, CallersAre DEF RowsOf, RowsStay, SeenOK
<1>4. /\ a.uid = d /\ a.name = u /\ a.action = (IF isNew THEN "insert" ELSE "update")
  OBVIOUS
<1>5. new \in Record /\ new.uid = d /\ new.name = u
      /\ new.enabled = (~ isNew /\ seen["slurper"][d].enabled)
  <2>1. (~ isNew /\ seen["slurper"][d].enabled) \in BOOLEAN
    OBVIOUS
  <2> QED BY <1>2, <2>1 DEF Record
<1>6. PICK p \in Record : p = new
  BY <1>5
<1>7. /\ p.uid = d /\ p.name = u /\ p # NoRecord
      /\ p.enabled = (~ isNew /\ seen["slurper"][d].enabled)
  BY <1>0, <1>5, <1>6
<1>8. /\ drawn' = IF isNew THEN d ELSE drawn
      /\ crudActions' = crudActions \cup {a} \/ (crudActions' = crudActions /\ ~ isNew)
      /\ \/ UNCHANGED <<slurper, pending>>
         \/ slurper' = "store" /\ pending' = p /\ memory[u] = NoRecord
  BY <1>1, <1>6
<1> HIDE DEF a, new, isNew
<1>9. Sent' = Sent /\ OnceSent' /\ InFlight' \subseteq InFlight \cup {a}
  BY <1>0, <1>8 DEF Sent, InFlight, OnceSent, OnceOK
\* Only the new uid is claimed.
<1>10. \A v, e : Claimed(v, e)' => Claimed(v, e) \/ (isNew /\ e = drawn + 1 /\ v = u)
  BY <1>0, <1>2, <1>4, <1>9, RowsSame DEF Claimed
<1>11. ASSUME NEW q \in Record, Own(q) PROVE Own(q)' /\ (Right(q) => Right(q)')
  <2>1. q.uid \in Nat /\ q.uid <= drawn /\ q # NoRecord
    BY <1>0, <1>11 DEF Own, Record, Uid
  <2>2. \A v : Claimed(v, q.uid)' => Claimed(v, q.uid)
    BY <1>2, <1>10, <2>1
  <2>3. q.uid <= drawn'
    BY <1>2, <1>8, <2>1
  <2> QED BY <1>0, <1>11, <2>2, <2>3 DEF Own, Right
<1>12. Own(p)'
  <2>1. OneClaim'
    BY IdentityCompare, IdentityParts DEF StaleInv, IdentityInv
  <2>2. Claimed(u, d)'
    <3>1. CASE isNew
      <4>1. \E b \in InFlight' : b.action = "insert" /\ b.uid = d /\ b.name = u
        BY <1>4, <1>8, <3>1 DEF InFlight
      <4> QED BY <4>1 DEF Claimed
    <3>2. CASE ~ isNew
      BY <1>0, <1>3, <3>2, RowsSame DEF Claimed
    <3> QED BY <3>1, <3>2
  <2>3. d <= drawn'
    BY <1>0, <1>2, <1>3, <1>8 DEF HasRow, TableType, Uid
  <2>4. \A v \in Unit : Claimed(v, d)' => v = u
    BY <1>2, <2>1, <2>2 DEF OneClaim
  <2> QED BY <1>7, <2>3, <2>4 DEF Own
<1>13. OwnOK'
  <2>1. Own(pending)'
    <3>1. CASE pending' = p
      BY <1>12, <3>1 DEF Own
    <3>2. CASE pending' = pending
      BY <1>0, <3>2 DEF SlurpType, Own
    <3> QED BY <1>8, <3>1, <3>2
  <2>2. ASSUME NEW v \in Unit PROVE Own(memory[v])'
    <3>1. CASE memory[v] = NoRecord
      BY <1>0, <3>1 DEF Own
    <3>2. CASE memory[v] # NoRecord
      <4>1. PICK q \in Record : q = memory[v]
        BY <1>0, <3>2 DEF FollowType
      <4>2. Own(q)'
        BY <1>0, <1>11, <4>1 DEF OwnOK
      <4> QED BY <1>0, <4>1, <4>2 DEF Own
    <3> QED BY <3>1, <3>2
  <2> QED BY <2>1, <2>2 DEF OwnOK
<1>14. OnceOK'
  <2>1. isNew => table[d] = NoRow /\ \A b \in InFlight : b.uid # d
    <3> SUFFICES ASSUME isNew PROVE table[d] = NoRow /\ \A b \in InFlight : b.uid # d
      OBVIOUS
    <3>1. table[d] = NoRow
      BY <1>0, <1>2 DEF TableType
    <3>2. \A b \in InFlight : b.uid # d
      BY <1>0, <1>2, InFlightType DEF OneClaim, Crud, Uid
    <3> QED BY <3>1, <3>2
  <2>2. a.action = "insert" => isNew
    BY <1>4
  <2> QED BY <1>0, <1>4, <1>9, <2>1, <2>2 DEF OnceOK
<1>15. ToldOK' /\ FollowerOK'
  BY <1>0 DEF ToldOK, FollowerOK
<1>16. ASSUME NEW v \in Unit, ~ Excusable(v)' PROVE Fresh(v)'
  <2>1. Fresh(v) /\ ~ Excusable(v)
    BY <1>0, <1>16 DEF AllFresh, Excusable, Coming
  <2>2. memory'[v] # NoRecord => Right(memory[v])'
    <3> SUFFICES ASSUME memory[v] # NoRecord PROVE Right(memory[v])'
      BY <1>0
    <3>1. PICK q \in Record : q = memory[v]
      BY <1>0 DEF FollowType
    <3>2. Right(q)'
      BY <1>0, <1>11, <2>1, <3>1 DEF OwnOK, Fresh
    <3> QED BY <1>0, <3>1, <3>2 DEF Right
  <2>3. pending' # NoRecord /\ pending'.name = v => Right(pending)'
    <3>1. CASE pending' = pending /\ UNCHANGED slurper
      BY <1>0, <3>1 DEF SlurpType
    <3>2. CASE pending' = p /\ memory[u] = NoRecord
      <4> SUFFICES ASSUME v = u PROVE Right(p)'
        BY <1>7, <3>2 DEF Right
      <4>1. CASE isNew
        <5>1. table[d] = NoRow
          BY <1>0, <1>2, <4>1 DEF TableType
        <5>2. ~ p.enabled
          BY <1>7, <4>1
        <5> QED BY <1>0, <1>7, <5>1, <5>2 DEF Right
      <4>2. CASE ~ isNew
        <5>1. ReadRight("slurper", u)
          BY <1>0, <2>1, <3>2 DEF Fresh
        <5>2. seen["slurper"][d].enabled = table[d].enabled /\ table[d] # NoRow
          BY <1>2, <1>3, <4>2, <5>1 DEF ReadRight, HasRow
        <5>3. p.enabled = table[d].enabled
          <6>1. table[d].enabled \in BOOLEAN
            BY <1>0, <1>2, <5>2 DEF TableType, Row
          <6> QED BY <1>7, <4>2, <5>2, <6>1
        <5> QED BY <1>0, <1>7, <5>2, <5>3 DEF Right
      <4> QED BY <4>1, <4>2
    <3> QED BY <1>8, <3>1, <3>2
  <2>4. \A c \in Caller : ReadRight(c, v) => ReadRight(c, v)'
    BY <1>0 DEF ReadRight
  <2>5. left'["slurper"] \subseteq left["slurper"] /\ left'["manager"] = left["manager"]
    BY <1>0, CallersAre DEF AskType
  <2> QED BY <1>0, <2>1, <2>2, <2>3, <2>4, <2>5, CallersAre DEF Fresh
<1>17. AllFresh'
  BY <1>16 DEF AllFresh, Fresh
<1> QED BY <1>13, <1>14, <1>15, <1>17 DEF StaleParts

LEMMA StaleNext == StaleInv /\ [Next]_vars => StaleInv'
<1> SUFFICES ASSUME StaleInv, [Next]_vars PROVE StaleParts'
  BY IdentityNext DEF StaleInv
<1>1. CASE Start BY <1>1, StaleStart
<1>2. CASE Crash BY <1>2, StaleCrash
<1>3. CASE \E u \in Unit : Move(u) BY <1>3, StaleMove
<1>4. CASE \E d \in Uid : Edit(d) BY <1>4, StaleEdit
<1>5. CASE \E c \in Caller : TimeOut(c) \/ NoAnswer(c)
  BY <1>5, StaleTimeOut, StaleNoAnswer
<1>6. CASE Nefario BY <1>6, StaleList, StaleCrud DEF Nefario
<1>7. CASE NefarioDies BY <1>7, StaleNefarioDies
<1>8. CASE RunServiceSlurper
  BY <1>8, StaleLoop, StaleCompare, StaleStore, StaleSend, StaleTicker DEF RunServiceSlurper
<1>9. CASE RunJournalCtlManager BY <1>9, StaleManager
<1>10. CASE \E u \in Unit : ProcessInitial(u) BY <1>10, StaleInitial
<1>11. CASE Follower BY <1>11, StaleSubscribe, StaleChange DEF Follower
<1>12. CASE FetchFails BY <1>12, StaleFetchFails
<1>13. CASE UNCHANGED vars BY <1>13, StaleStutter
<1> QED
  BY <1>1, <1>2, <1>3, <1>4, <1>5, <1>6, <1>7, <1>8, <1>9, <1>10, <1>11, <1>12, <1>13 DEF Next

LEMMA StaleHolds == StaleInv => StaleHasCause
<1> SUFFICES ASSUME StaleInv, NEW u \in Unit, memory[u] # NoRecord, u \notin excused
             PROVE  LET row == table[memory[u].uid] IN
                    \/ row = NoRow \/ row.enabled = memory[u].enabled
                    \/ consumer = "reading" /\ \E i \in next..Len(feed) : feed[i].name = u
  BY DEF StaleHasCause
<1>1. Fresh(u)
  BY StaleFacts DEF AllFresh
<1> QED BY <1>1 DEF Fresh, Excusable, Coming, Right

\* Whatever is delayed, overtaken, lost or dies, the minion has a wrong minionEnabled of a service
\* only while the change is still to be read, or from one of the causes that excused collects: no
\* other interleaving of RunServiceSlurpLoopOnce, RunJournalCtlManager, RunChangeDataCapture and
\* ListSystemdServices leaves it out of date.
THEOREM StalenessIsExplained == Spec => []StaleHasCause
BY StaleInit, StaleNext, StaleHolds, PTL DEF Spec
-----------------------------------------------------------------------------
(* A8App: nobody is left in the wait group *)

\* What the wait group counts: who has entered it, or has not left it.
Inside == {s \in SubProcess : pc[s] \in {"running", "send", "ended"}}

\* The parts of the state on which the wait group does not depend.
AppControl ==
    /\ program \in Programs /\ app \in {"up", "ended", "dead"}
    /\ main \in {"submit", "select", "wait", "waiting", "released", "check", "await"}
    /\ pc \in [SubProcess -> {"none", "submitted", "running", "send", "ended", "done"}]
    /\ combined \in {"collect", "complete", "send", "sent"}
AppFlags ==
    /\ cancelled \in BOOLEAN /\ draining \in BOOLEAN
    /\ closed \in BOOLEAN /\ complete \in BOOLEAN
AppCounts ==
    /\ shutdown \in 0..1 /\ streams \in 0..MaxStreams
    /\ signals \in 0..MaxSignals /\ faults \in 0..MaxFaults

AppState == AppControl /\ AppFlags /\ AppCounts

LEMMA AppTypeSplit == AppTypeOK <=> AppState /\ waitGroup = Cardinality(Inside)
BY DEF AppTypeOK, AppState, AppControl, AppFlags, AppCounts, Inside

LEMMA InsideFinite == IsFiniteSet(Inside) /\ Cardinality(Inside) \in Nat
<1>1. Inside \subseteq SubProcess
  BY DEF Inside
<1> QED BY <1>1, FS_Subset, FS_CardinalityType, AppAssumption

\* An empty wait group is nobody inside.
LEMMA NobodyInside ==
    ASSUME AppTypeOK, waitGroup = 0
    PROVE  Inside = {}
BY AppTypeSplit, InsideFinite, FS_EmptySet
(* Who is inside is counted *)

LEMMA AppTypeInit == AppInit => AppTypeOK
<1> SUFFICES ASSUME AppInit PROVE AppTypeOK
  OBVIOUS
<1>1. AppState
  <2>1. AppControl
    BY DEF AppInit, AppControl
  <2>2. AppFlags
    BY DEF AppInit, AppFlags
  <2>3. AppCounts
    BY AppAssumption DEF AppInit, AppCounts
  <2> QED BY <2>1, <2>2, <2>3 DEF AppState
<1>2. CASE program = "multi"
  <2>1. Members[program] \subseteq SubProcess
    BY AppAssumption DEF AppInit
  <2>2. Inside = Member
    BY <1>2, <2>1 DEF AppInit, Inside, Member
  <2> QED BY <1>1, <1>2, <2>2, AppTypeSplit DEF AppInit
<1>3. CASE program # "multi"
  <2>1. Inside = {}
    BY <1>3 DEF AppInit, Inside
  <2> QED BY <1>1, <1>3, <2>1, AppTypeSplit, FS_EmptySet DEF AppInit
<1> QED BY <1>2, <1>3

\* How the steps of a sub-process change who is inside.
LEMMA SubProcessMoves ==
    ASSUME AppState, NEW s \in SubProcess, NEW here, NEW there, At(s, here, there)
    PROVE  /\ here = "submitted" /\ there = "running" =>
                s \notin Inside /\ Inside' = Inside \cup {s}
           /\ here = "ended" /\ there = "done" => s \in Inside /\ Inside' = Inside \ {s}
           /\ here \in {"none", "submitted"} /\ there \in {"none", "submitted"} => Inside' = Inside
           /\ here \in {"running", "send", "ended"} /\ there \in {"running", "send", "ended"} =>
                Inside' = Inside
BY DEF AppState, AppControl, Inside, At

\* Each part keeps its type.
LEMMA AppControlNext == AppState /\ [AppNext]_appVars => AppControl'
<1> SUFFICES ASSUME AppState, [AppNext]_appVars PROVE AppControl'
  OBVIOUS
<1>1. CASE Signal \/ MainSteps
  BY <1>1 DEF AppState, AppControl, Signal, Submit, At, Submitted, WaitForCompletion, Wait, WakeUp,
     SelectSignal, Receive, CheckComplete, MainSteps, grpc, multi, bounds
<1>2. ASSUME NEW s \in SubProcess,
             SubmitSubProcess(s) \/ EndInError(s) \/ EndOfFunction(s) \/ RunMultiRoutineApp(s)
      PROVE  AppControl'
  BY <1>2 DEF AppState, AppControl, SubmitSubProcess, RunMultiRoutineApp, Enter, EndOfContext,
     EndOfCommand, Done, EndInError, EndOfFunction, SendError, FunctionDone, At, AppFails, grpc,
     multi, bounds
<1>3. CASE SubmitChild \/ Join \/ LeaveGrpc \/ GracefulStop \/ CloseErrors \/ Combine
           \/ UNCHANGED appVars
  BY <1>3 DEF AppState, AppControl, SubmitChild, At, Join, LeaveGrpc, GracefulStop, CloseErrors,
     Combine, appVars, grpc, multi, bounds
<1> QED BY <1>1, <1>2, <1>3 DEF AppNext

LEMMA AppFlagsNext == AppState /\ [AppNext]_appVars => AppFlags'
<1> SUFFICES ASSUME AppState, [AppNext]_appVars PROVE AppFlags'
  OBVIOUS
<1>1. CASE Signal \/ MainSteps
  BY <1>1 DEF AppState, AppFlags, Signal, Submit, At, Submitted, WaitForCompletion, Wait, WakeUp,
     SelectSignal, Receive, CheckComplete, MainSteps, grpc, multi, bounds
<1>2. ASSUME NEW s \in SubProcess,
             SubmitSubProcess(s) \/ EndInError(s) \/ EndOfFunction(s) \/ RunMultiRoutineApp(s)
      PROVE  AppFlags'
  <2>1. CASE Enter(s) \/ EndOfContext(s) \/ EndOfCommand(s) \/ Done(s)
    BY <2>1 DEF AppState, AppFlags, Enter, EndOfContext, EndOfCommand, Done, grpc, multi, bounds
  <2>2. CASE EndInError(s) \/ EndOfFunction(s)
    BY <2>2 DEF AppState, AppFlags, EndInError, EndOfFunction, AppFails, grpc, multi, bounds
  <2>3. CASE SendError(s) \/ FunctionDone(s)
    BY <2>3 DEF AppState, AppFlags, SendError, FunctionDone, grpc, multi, bounds
  <2> QED BY <1>2, <2>1, <2>2, <2>3 DEF SubmitSubProcess, RunMultiRoutineApp
<1>3. CASE SubmitChild \/ Join \/ LeaveGrpc \/ GracefulStop \/ CloseErrors \/ Combine
           \/ UNCHANGED appVars
  BY <1>3 DEF AppState, AppFlags, SubmitChild, At, Join, LeaveGrpc, GracefulStop, CloseErrors,
     Combine, appVars, grpc, multi, bounds
<1> QED BY <1>1, <1>2, <1>3 DEF AppNext

LEMMA AppCountsNext == AppState /\ [AppNext]_appVars => AppCounts'
<1> SUFFICES ASSUME AppState, [AppNext]_appVars PROVE AppCounts'
  OBVIOUS
<1> USE AppAssumption
<1>1. CASE Signal \/ MainSteps
  BY <1>1 DEF AppState, AppCounts, Signal, Submit, At, Submitted, WaitForCompletion, Wait, WakeUp,
     SelectSignal, Receive, CheckComplete, MainSteps, grpc, multi, bounds
<1>2. ASSUME NEW s \in SubProcess,
             SubmitSubProcess(s) \/ EndInError(s) \/ EndOfFunction(s) \/ RunMultiRoutineApp(s)
      PROVE  AppCounts'
  <2>1. CASE Enter(s) \/ EndOfContext(s) \/ EndOfCommand(s) \/ Done(s)
    BY <2>1 DEF AppState, AppCounts, Enter, EndOfContext, EndOfCommand, Done, grpc, multi, bounds
  <2>2. CASE EndInError(s) \/ EndOfFunction(s)
    BY <2>2 DEF AppState, AppCounts, EndInError, EndOfFunction, AppFails, grpc, multi, bounds
  <2>3. CASE SendError(s) \/ FunctionDone(s)
    BY <2>3 DEF AppState, AppCounts, SendError, FunctionDone, grpc, multi, bounds
  <2> QED BY <1>2, <2>1, <2>2, <2>3 DEF SubmitSubProcess, RunMultiRoutineApp
<1>3. CASE SubmitChild \/ Join \/ LeaveGrpc \/ GracefulStop \/ CloseErrors \/ Combine
           \/ UNCHANGED appVars
  BY <1>3 DEF AppState, AppCounts, SubmitChild, At, Join, LeaveGrpc, GracefulStop, CloseErrors,
     Combine, appVars, grpc, multi, bounds
<1> QED BY <1>1, <1>2, <1>3 DEF AppNext

\* Who enters and who leaves is counted.
LEMMA InsideNext ==
    ASSUME AppTypeOK, [AppNext]_appVars
    PROVE  waitGroup' = Cardinality(Inside')
<1>0. AppState /\ waitGroup = Cardinality(Inside) /\ waitGroup \in Nat
  BY AppTypeSplit, InsideFinite
<1>1. CASE Inside' = Inside /\ waitGroup' = waitGroup
  BY <1>0, <1>1
<1>2. ASSUME NEW s \in SubProcess, Submit(s) PROVE Inside' = Inside /\ waitGroup' = waitGroup
  BY <1>0, <1>2, SubProcessMoves DEF Submit
<1>3. ASSUME SubmitChild PROVE Inside' = Inside /\ waitGroup' = waitGroup
  BY <1>0, <1>3, SubProcessMoves, AppAssumption DEF SubmitChild
<1>4. ASSUME NEW s \in SubProcess, EndOfContext(s) \/ EndInError(s) \/ EndOfCommand(s)
      PROVE  Inside' = Inside /\ waitGroup' = waitGroup
  BY <1>0, <1>4, SubProcessMoves DEF EndOfContext, EndInError, EndOfCommand
<1>5. ASSUME NEW s \in SubProcess, EndOfFunction(s) \/ SendError(s)
      PROVE  Inside' = Inside /\ waitGroup' = waitGroup
  BY <1>0, <1>5, SubProcessMoves DEF EndOfFunction, SendError
<1>6. ASSUME NEW s \in SubProcess, Enter(s) PROVE waitGroup' = Cardinality(Inside')
  <2>1. s \notin Inside /\ Inside' = Inside \cup {s}
    BY <1>0, <1>6, SubProcessMoves DEF Enter
  <2> QED BY <1>0, <1>6, <2>1, InsideFinite, FS_AddElement DEF Enter
<1>7. ASSUME NEW s \in SubProcess, Done(s) \/ FunctionDone(s)
      PROVE waitGroup' = Cardinality(Inside')
  <2>1. s \in Inside /\ Inside' = Inside \ {s}
    BY <1>0, <1>7, SubProcessMoves DEF Done, FunctionDone
  <2>2. waitGroup' = waitGroup - 1
    BY <1>7 DEF Done, FunctionDone
  <2> QED BY <1>0, <2>1, <2>2, InsideFinite, FS_RemoveElement
<1>8. ASSUME \/ Signal \/ Submitted \/ WaitForCompletion \/ Wait \/ WakeUp
             \/ SelectSignal \/ Receive \/ CheckComplete
      PROVE  Inside' = Inside /\ waitGroup' = waitGroup
  BY <1>8 DEF Inside, Signal, Submitted, WaitForCompletion, Wait, WakeUp, SelectSignal, Receive,
     CheckComplete
<1>9. ASSUME Join \/ LeaveGrpc \/ GracefulStop \/ CloseErrors \/ Combine \/ UNCHANGED appVars
      PROVE  Inside' = Inside /\ waitGroup' = waitGroup
  BY <1>9 DEF Inside, Join, LeaveGrpc, GracefulStop, CloseErrors, Combine, appVars
<1> QED BY <1>1, <1>2, <1>3, <1>4, <1>5, <1>6, <1>7, <1>8, <1>9
       DEF AppNext, MainSteps, SubmitSubProcess, RunMultiRoutineApp

LEMMA AppTypeNext == AppTypeOK /\ [AppNext]_appVars => AppTypeOK'
<1> SUFFICES ASSUME AppTypeOK, [AppNext]_appVars PROVE AppTypeOK'
  OBVIOUS
<1>1. AppState'
  BY AppTypeSplit, AppControlNext, AppFlagsNext, AppCountsNext DEF AppState
<1>2. waitGroup' = Cardinality(Inside')
  BY InsideNext
<1> QED BY <1>1, <1>2 DEF AppTypeOK, AppState, AppControl, AppFlags, AppCounts, Inside

\* The counter of the wait group is the number of those who have entered and not left it.
THEOREM WaitGroupCounts == AppSpec => []AppTypeOK
BY AppTypeInit, AppTypeNext, PTL DEF AppSpec
(* The order of the end *)

\* The functions of RunMultiRoutineApp are in the wait group from the start and nobody enters
\* it later; errorsChan is closed when it is empty, and all that follows is after that.
AppInOrder ==
    /\ program = "multi" => /\ main # "submit"
                            /\ \A s \in SubProcess : pc[s] # "submitted"
    /\ closed => program = "multi" /\ waitGroup = 0
    /\ combined # "collect" => closed
    /\ complete => closed
    /\ app = "ended" => waitGroup = 0

AppInv == AppTypeOK /\ AppInOrder

LEMMA AppOrderInit == AppInit => AppInOrder
BY DEF AppInit, AppInOrder

LEMMA AppOrderNext == AppInv /\ [AppNext]_appVars => AppInOrder'
<1> SUFFICES ASSUME AppTypeOK, AppInOrder, [AppNext]_appVars PROVE AppInOrder'
  BY DEF AppInv
<1>0. AppState /\ waitGroup = Cardinality(Inside) /\ waitGroup \in Nat
  BY AppTypeSplit, InsideFinite
<1>1. \A s \in Inside : waitGroup # 0
  BY NobodyInside
<1>2. CASE Signal \/ Submitted \/ Join \/ LeaveGrpc \/ GracefulStop
  BY <1>2 DEF AppInOrder, Signal, Submitted, Join, LeaveGrpc, GracefulStop, multi
<1>3. ASSUME NEW s \in SubProcess, Submit(s) PROVE AppInOrder'
  BY <1>3 DEF AppInOrder, Submit, At, multi
<1>4. CASE WaitForCompletion \/ Wait \/ WakeUp
  BY <1>4 DEF AppInOrder, WaitForCompletion, Wait, WakeUp, multi, Global
<1>5. CASE SelectSignal \/ Receive \/ CheckComplete
  BY <1>5 DEF AppInOrder, SelectSignal, Receive, CheckComplete, multi
<1>6. CASE SubmitChild
  BY <1>6 DEF AppInOrder, SubmitChild, At, multi, Global
<1>7. ASSUME NEW s \in SubProcess, Enter(s) PROVE AppInOrder'
  BY <1>7 DEF AppInOrder, Enter, At, multi
<1>8. ASSUME NEW s \in SubProcess, EndOfContext(s) \/ EndInError(s) \/ EndOfCommand(s)
      PROVE AppInOrder'
  BY <1>0, <1>8 DEF AppInOrder, EndOfContext, EndInError, EndOfCommand, At, multi, Global, AppState,
     AppControl
<1>9. ASSUME NEW s \in SubProcess, EndOfFunction(s) \/ SendError(s) PROVE AppInOrder'
  BY <1>0, <1>9 DEF AppInOrder, EndOfFunction, SendError, At, multi, AppState, AppControl
<1>10. ASSUME NEW s \in SubProcess, Done(s) \/ FunctionDone(s) PROVE AppInOrder'
  <2>1. s \in Inside /\ app = "up"
    BY <1>10 DEF Done, FunctionDone, At, Inside
  <2>2. waitGroup # 0 /\ ~closed
    BY <1>1, <2>1 DEF AppInOrder
  <2> QED BY <1>0, <1>10, <2>1, <2>2 DEF AppInOrder, Done, FunctionDone, At, multi, Global,
     AppState, AppControl
<1>11. CASE CloseErrors \/ Combine
  BY <1>11 DEF AppInOrder, CloseErrors, Combine
<1>12. CASE UNCHANGED appVars
  BY <1>12 DEF AppInOrder, appVars, multi
<1> QED BY <1>2, <1>3, <1>4, <1>5, <1>6, <1>7, <1>8, <1>9, <1>10, <1>11, <1>12
       DEF AppNext, MainSteps, SubmitSubProcess, RunMultiRoutineApp

LEMMA AppOrderWaits == AppInv => ExitWaits
<1> SUFFICES ASSUME AppTypeOK, AppInOrder, closed \/ app = "ended" PROVE Inside = {}
  BY DEF AppInv, ExitWaits, Inside, AppTypeOK
<1> QED BY NobodyInside DEF AppInOrder

\* However many sub-processes and functions there are, and whenever they enter, end or fail, no
\* program ends under one that has entered the wait group, and errorsChan is closed after
\* the last error (WaitForCompletion, RunMultiRoutineApp, RunApp).
THEOREM NobodyLeft == AppSpec => []ExitWaits
<1>1. AppInit => AppInv
  BY AppTypeInit, AppOrderInit DEF AppInv
<1>2. AppInv /\ [AppNext]_appVars => AppInv'
  BY AppTypeNext, AppOrderNext DEF AppInv
<1> QED BY <1>1, <1>2, AppOrderWaits, PTL DEF AppSpec
=============================================================================
