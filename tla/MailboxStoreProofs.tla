------------------------- MODULE MailboxStoreProofs -------------------------
(***************************************************************************)
(* Theorems about the two parts of hermes that keep state.                 *)
(*                                                                         *)
(* Of MailboxStore, for any number of threads, mailboxes, names and        *)
(* channels: Types and ReachableHasStreams hold for any number of          *)
(* processes, any crashes and any failed gets, puts and stream creations;  *)
(* IndexConsistent, CacheCoherent and AddressNotTakenOver, which the mutex *)
(* is for, hold for one process that nothing disturbs; and KeptAliveStays, *)
(* for any number of processes, if timeouts are as long as                 *)
(* KeptAliveAssumption asks.                                               *)
(*                                                                         *)
(* Of ActiveClient, at the end: SessionTypes, AnsweringStaysKnown and      *)
(* DeliveredWithoutGap, for any number of sessions, subscriptions and      *)
(* messages, any batch size and any faults.                                *)
(***************************************************************************)
EXTENDS MailboxStore, ActiveClient, FiniteSetTheorems, SequenceTheorems, TLAPS

(* Type correctness needs to know which locals are set at which label. *)

WithMbox == {"createChannels", "putAddress", "putAdmin", "addStream", "updateStore",
             "purgeReader", "purgeAddress", "purgeAdmin", "purgeStreams"}
WithKey == {"lookupAdmin", "createChannels", "putAddress", "putAdmin"}

LocalsOK ==
    \A t \in Thread :
        /\ pc[t] \in WithMbox => mbox[t] # NoMbox
        /\ pc[t] \in WithKey => key[t] # NoKey
        /\ pc[t] = "lookupRW" => key[t] # NoKey \/ addr[t] # NoKey

TypeInv == TypeOK /\ LocalsOK

(***************************************************************************)
(* The inductive invariant of ReachableHasStreams.  A Mailbox object is    *)
(* copied from the bucket to the cache, to a thread, to the owner and back *)
(* to the bucket, so the invariant is about all the copies at once: every  *)
(* object outside a creation that still adds channels is Shared.           *)
(***************************************************************************)

Shared ==
    ({adminKV[a] : a \in AdminKey}
      \cup {owned[p] : p \in Proc}
      \cup {cached[p][a] : p \in Proc, a \in AdminKey}
      \cup {mbox[t] : t \in {u \in Thread : pc[u] # "createChannels"}}) \ {NoMbox}

HasStreams(m) == \A c \in m.channels : <<m.key, c>> \in streams

\* The uuid of a shared object was drawn, and while its reader key is out its
\* streams exist.
SharedSound ==
    \A m \in Shared : m.key \in issued /\ (m.key \in readerKV => HasStreams(m))

\* A mailbox that is being created is known to its thread alone, its reader key is
\* not out, and the streams of the channels added so far exist.
CreatingAlone ==
    \A t \in Thread : pc[t] = "createChannels" =>
        /\ key[t] \in issued \ readerKV
        /\ HasStreams(mbox[t])
        /\ \A m \in Shared : m.key # key[t]
        /\ \A u \in Thread \ {t} : pc[u] = "createChannels" => key[u] # key[t]

\* Once a purge is past its first step the reader key is gone for good.
Purging == {"purgeAddress", "purgeAdmin", "purgeStreams"}
PurgingUnreachable == \A t \in Thread : pc[t] \in Purging => mbox[t].key \notin readerKV

\* A mailbox is filed under its own key.
Creating == {"createChannels", "putAddress", "putAdmin"}
KeysMatch ==
    /\ \A a \in AdminKey : adminKV[a] # NoMbox => adminKV[a].key = a
    /\ \A t \in Thread : pc[t] \in Creating => mbox[t].key = key[t]

IInv ==
    /\ TypeInv
    /\ readerKV \subseteq issued
    /\ SharedSound
    /\ CreatingAlone
    /\ PurgingUnreachable
    /\ KeysMatch
-----------------------------------------------------------------------------
(* Type correctness *)

LEMMA TypeInit == Init => TypeInv
BY ConstantsAssumption
   DEF Init, TypeInv, TypeOK, StoreTypeOK, MemoryTypeOK, EnvTypeOK, LocalTypeOK, LocalsOK, WithMbox, WithKey, Labels, Address

\* A Mailbox has its fields, and updating one of them gives a Mailbox.
LEMMA MailboxFields ==
    ASSUME NEW m \in Mailbox
    PROVE  /\ m.key \in AdminKey
           /\ m.address \in Address
           /\ m.channels \in SUBSET Channel
           /\ m.lastActivity \in Nat
           /\ \A c \in Channel : [m EXCEPT !.channels = @ \cup {c}] \in Mailbox
           /\ \A n \in Nat : [m EXCEPT !.lastActivity = n] \in Mailbox
BY DEF Mailbox

\* The locals of a thread that returns are cleared.
LEMMA ReturnType ==
    ASSUME LocalTypeOK, LocalsOK, NEW t \in Thread, Return(t)
    PROVE  LocalTypeOK' /\ LocalsOK'
BY DEF Return, LocalTypeOK, LocalsOK, WithMbox, WithKey, Labels

LEMMA LookupMissType ==
    ASSUME LocalTypeOK, LocalsOK, NEW t \in Thread, LookupMiss(t)
    PROVE  LocalTypeOK' /\ LocalsOK'
<1>1. CASE op[t] = "lookup"
  BY <1>1, ReturnType DEF LookupMiss
<1>2. CASE op[t] # "lookup"
  BY <1>2 DEF LookupMiss, Goto, LocalTypeOK, LocalsOK, WithMbox, WithKey, Labels
<1> QED BY <1>1, <1>2

\* What MailboxLookup finds in memory is a mailbox or nothing.
LEMMA HitType ==
    ASSUME MemoryTypeOK, NEW p \in Proc, NEW a \in AdminKey \cup {NoKey},
           NEW x \in Address \cup {NoKey}, a # NoKey \/ x # NoKey
    PROVE  Hit(p, a, x) \in Mailbox \cup {NoMbox}
BY DEF Hit, MemoryTypeOK

\* Caching a mailbox under its keys keeps the types of the in-memory map.
CachedTypeOK ==
    /\ cached \in [Proc -> [AdminKey -> Mailbox \cup {NoMbox}]]
    /\ cachedAddr \in [Proc -> [Address -> AdminKey \cup {NoKey}]]
    /\ needsUpdate \in [Proc -> SUBSET AdminKey]

LEMMA CacheType ==
    ASSUME MemoryTypeOK, NEW p \in Proc, NEW m \in Mailbox,
           cached' = [cached EXCEPT ![p][m.key] = m],
           cachedAddr' = [cachedAddr EXCEPT ![p][m.address] = m.key],
           needsUpdate' = [needsUpdate EXCEPT ![p] = @ \ {m.key}]
    PROVE  CachedTypeOK'
<1>1. m.key \in AdminKey /\ m.address \in Address
  BY MailboxFields
<1> QED BY <1>1 DEF MemoryTypeOK, CachedTypeOK

\* Every step keeps the types.
LEMMA TypeNext == TypeInv /\ [Next]_vars => TypeInv'
<1> SUFFICES ASSUME StoreTypeOK, MemoryTypeOK, LocalTypeOK, EnvTypeOK, LocalsOK, [Next]_vars
             PROVE  StoreTypeOK' /\ MemoryTypeOK' /\ LocalTypeOK' /\ EnvTypeOK' /\ LocalsOK'
  BY DEF TypeInv, TypeOK
<1> DEFINE Typed == StoreTypeOK /\ MemoryTypeOK /\ LocalTypeOK /\ EnvTypeOK /\ LocalsOK
<1> USE ConstantsAssumption, NoMboxAssumption
<1>1. ASSUME NEW t \in Thread, NEW a \in AdminKey \cup {NoKey}, NEW x \in Address \cup {NoKey},
             a # NoKey \/ x # NoKey, StartLookup(t, a, x)
      PROVE  Typed'
  <2>1. StoreTypeOK' /\ MemoryTypeOK' /\ EnvTypeOK'
    BY <1>1 DEF StartLookup, StoreTypeOK, MemoryTypeOK, EnvTypeOK, store, memory, env
  <2>2. LocalTypeOK' /\ LocalsOK'
    BY <1>1 DEF StartLookup, Goto, LocalTypeOK, LocalsOK, WithMbox, WithKey, Labels
  <2> QED BY <2>1, <2>2
<1>2. ASSUME NEW t \in Thread, NEW n \in Name, NEW o \in {"serve", "own"}, StartFetchOrCreate(t, n, o)
      PROVE  Typed'
  <2>1. StoreTypeOK' /\ EnvTypeOK'
    BY <1>2 DEF StartFetchOrCreate, StoreTypeOK, EnvTypeOK, store, env
  <2>2. MemoryTypeOK'
    <3>1. Hit(ProcOf[t], NoKey, n) \in Mailbox \cup {NoMbox}
      BY <1>2, HitType DEF Address
    <3>2. \/ owned' = owned
          \/ owned' = [owned EXCEPT ![ProcOf[t]] = Hit(ProcOf[t], NoKey, n)]
      BY <1>2 DEF StartFetchOrCreate
    <3>3. owned' \in [Proc -> Mailbox \cup {NoMbox}]
      BY <3>1, <3>2 DEF MemoryTypeOK
    <3> QED BY <1>2, <3>3 DEF StartFetchOrCreate, MemoryTypeOK
  <2>3. LocalTypeOK' /\ LocalsOK'
    BY <1>2 DEF StartFetchOrCreate, Address, Goto, LocalTypeOK, LocalsOK, WithMbox, WithKey, Labels
  <2> QED BY <2>1, <2>2, <2>3
<1>3. ASSUME NEW t \in Thread, NEW o \in {"serve", "own"}, StartCreate(t, o)
      PROVE  Typed'
  <2>1. StoreTypeOK' /\ MemoryTypeOK' /\ EnvTypeOK'
    BY <1>3 DEF StartCreate, StoreTypeOK, MemoryTypeOK, EnvTypeOK, store, memory, env
  <2>2. LocalTypeOK' /\ LocalsOK'
    BY <1>3 DEF StartCreate, Goto, LocalTypeOK, LocalsOK, WithMbox, WithKey, Labels
  <2> QED BY <2>1, <2>2
<1>4. ASSUME NEW t \in Thread, NEW a \in AdminKey, NEW cs \in SUBSET Channel, StartAddChannel(t, a, cs)
      PROVE  Typed'
  <2>1. StoreTypeOK' /\ MemoryTypeOK' /\ EnvTypeOK'
    BY <1>4 DEF StartAddChannel, FetchMailboxByAdminKey, StoreTypeOK, MemoryTypeOK, EnvTypeOK, store, memory, env
  <2>2. LocalTypeOK' /\ LocalsOK'
    BY <1>4 DEF StartAddChannel, FetchMailboxByAdminKey, StoreTypeOK, Goto, LocalTypeOK, LocalsOK, WithMbox, WithKey, Labels
  <2> QED BY <2>1, <2>2
<1>5. ASSUME NEW t \in Thread, PurgeStart(t)
      PROVE  Typed'
  <2>1. StoreTypeOK' /\ MemoryTypeOK' /\ EnvTypeOK'
    BY <1>5 DEF PurgeStart, StoreTypeOK, MemoryTypeOK, EnvTypeOK, store, memory, env
  <2>2. LocalTypeOK' /\ LocalsOK'
    BY <1>5 DEF PurgeStart, Goto, LocalTypeOK, LocalsOK, WithMbox, WithKey, Labels
  <2> QED BY <2>1, <2>2
<1>6. ASSUME NEW t \in Thread, LookupRW(t)
      PROVE  Typed'
  <2>1. Hit(ProcOf[t], key[t], addr[t]) \in Mailbox \cup {NoMbox}
    BY <1>6, HitType DEF LookupRW, LocalTypeOK, LocalsOK
  <2>2. StoreTypeOK' /\ EnvTypeOK'
    BY <1>6 DEF LookupRW, store, StoreTypeOK, Succeeds, Fails, EnvTypeOK
  <2>3. MemoryTypeOK'
    <3>1. lock' \in [Proc -> Thread \cup {NoThread}]
      BY <1>6 DEF LookupRW, Acquire, MemoryTypeOK
    <3>2. owned' \in [Proc -> Mailbox \cup {NoMbox}]
      BY <1>6, <2>1 DEF LookupRW, Own, MemoryTypeOK
    <3> QED BY <1>6, <3>1, <3>2 DEF LookupRW, MemoryTypeOK
  <2>4. LocalTypeOK' /\ LocalsOK'
    BY <1>6, ReturnType, LookupMissType DEF LookupRW, RWGet, StoreTypeOK, Goto, LocalTypeOK, LocalsOK, WithMbox, WithKey, Labels
  <2> QED BY <2>1, <2>2, <2>3, <2>4
<1>7. ASSUME NEW t \in Thread, LookupAdmin(t)
      PROVE  Typed'
  <2>1. key[t] \in AdminKey /\ adminKV[key[t]] \in Mailbox \cup {NoMbox}
    BY <1>7 DEF LookupAdmin, FetchMailboxByAdminKey, LocalTypeOK, StoreTypeOK, LocalsOK, WithKey
  <2>2. StoreTypeOK' /\ EnvTypeOK'
    BY <1>7 DEF LookupAdmin, FetchMailboxByAdminKey, store, StoreTypeOK, Succeeds, Fails, EnvTypeOK
  <2>3. MemoryTypeOK'
    <3> DEFINE m == adminKV[key[t]]
    <3>1. lock' \in [Proc -> Thread \cup {NoThread}]
      BY <1>7 DEF LookupAdmin, FetchMailboxByAdminKey, Release, MemoryTypeOK
    <3>2. owned' \in [Proc -> Mailbox \cup {NoMbox}]
      BY <1>7, <2>1 DEF LookupAdmin, FetchMailboxByAdminKey, Own, MemoryTypeOK
    <3>3. m # NoMbox => m.key \in AdminKey /\ m.address \in Address
      BY <2>1, MailboxFields
    <3>4. \/ UNCHANGED <<cached, cachedAddr, needsUpdate>>
          \/ /\ m # NoMbox
             /\ cached' = [cached EXCEPT ![ProcOf[t]][m.key] = m]
             /\ cachedAddr' = [cachedAddr EXCEPT ![ProcOf[t]][m.address] = m.key]
             /\ needsUpdate' = [needsUpdate EXCEPT ![ProcOf[t]] = @ \ {m.key}]
      BY <1>7 DEF LookupAdmin, FetchMailboxByAdminKey
    <3>5. ASSUME UNCHANGED <<cached, cachedAddr, needsUpdate>> PROVE CachedTypeOK'
      BY <3>5 DEF MemoryTypeOK, CachedTypeOK
    <3>6. ASSUME ~ UNCHANGED <<cached, cachedAddr, needsUpdate>> PROVE CachedTypeOK'
      <4>1. ProcOf[t] \in Proc /\ m \in Mailbox
        BY <2>1, <3>4, <3>6
      <4> QED BY <3>4, <3>6, <4>1, CacheType
    <3>7. CachedTypeOK'
      BY <3>5, <3>6
    <3> QED BY <3>1, <3>2, <3>7 DEF MemoryTypeOK, CachedTypeOK
  <2>4. LocalTypeOK' /\ LocalsOK'
    BY <1>7, ReturnType, LookupMissType DEF LookupAdmin, FetchMailboxByAdminKey
  <2> QED BY <2>1, <2>2, <2>3, <2>4
<1>8. ASSUME NEW t \in Thread, NEW a \in AdminKey, CreateCheck(t, a)
      PROVE  Typed'
  <2>1. StoreTypeOK' /\ EnvTypeOK'
    BY <1>8 DEF CreateCheck, store, StoreTypeOK, Succeeds, Fails, EnvTypeOK
  <2>2. MemoryTypeOK'
    BY <1>8 DEF CreateCheck, Acquire, MemoryTypeOK
  <2>3. [key |-> a, address |-> IF addr[t] = NoKey THEN a ELSE addr[t],
             channels |-> {}, lastActivity |-> clock] \in Mailbox
    BY <1>8 DEF Mailbox, Address, LocalTypeOK, EnvTypeOK
  <2>4. LocalTypeOK' /\ LocalsOK'
    <3>1. CASE Return(t)
      BY <3>1, ReturnType
    <3>2. CASE ~ Return(t)
      <4> DEFINE m == [key |-> a, address |-> IF addr[t] = NoKey THEN a ELSE addr[t],
                       channels |-> {}, lastActivity |-> clock]
      <4>1. /\ pc' = [pc EXCEPT ![t] = "createChannels"]
            /\ key' = [key EXCEPT ![t] = a]
            /\ mbox' = [mbox EXCEPT ![t] = m]
            /\ chans' = [chans EXCEPT ![t] = CreateChannels]
            /\ UNCHANGED <<op, addr, todo>>
        BY <1>8, <3>2 DEF CreateCheck, Goto
      <4>2. m \in Mailbox /\ m # NoMbox /\ a # NoKey
        BY <2>3 DEF Address
      <4> HIDE DEF m
      <4> QED BY <4>1, <4>2 DEF LocalTypeOK, LocalsOK, WithMbox, WithKey, Labels
    <3> QED BY <3>1, <3>2
  <2> QED BY <2>1, <2>2, <2>3, <2>4
<1>9. ASSUME NEW t \in Thread, NEW c \in Channel, CreateChannel(t, c)
      PROVE  Typed'
  <2>1. mbox[t] \in Mailbox /\ key[t] \in AdminKey
    BY <1>9 DEF CreateChannel, LocalTypeOK, LocalsOK, WithMbox, WithKey
  <2>2. StoreTypeOK' /\ EnvTypeOK'
    BY <1>9, <2>1 DEF CreateChannel, StoreTypeOK, Succeeds, Fails, EnvTypeOK
  <2>3. MemoryTypeOK'
    BY <1>9 DEF CreateChannel, Release, MemoryTypeOK
  <2>4. LocalTypeOK' /\ LocalsOK'
    BY <1>9, <2>1, MailboxFields, ReturnType DEF CreateChannel, Goto, LocalTypeOK, LocalsOK, WithMbox, WithKey, Labels
  <2> QED BY <2>1, <2>2, <2>3, <2>4
<1>10. ASSUME NEW t \in Thread, PutReader(t)
      PROVE  Typed'
  <2>1. StoreTypeOK' /\ EnvTypeOK'
    BY <1>10 DEF PutReader, StoreTypeOK, LocalTypeOK, LocalsOK, WithKey, Succeeds, Fails, EnvTypeOK
  <2>2. MemoryTypeOK'
    BY <1>10 DEF PutReader, MemoryTypeOK, memory
  <2>3. LocalTypeOK' /\ LocalsOK'
    BY <1>10 DEF PutReader, Goto, LocalTypeOK, LocalsOK, WithMbox, WithKey, Labels
  <2> QED BY <2>1, <2>2, <2>3
<1>11. ASSUME NEW t \in Thread, PutAddress(t)
      PROVE  Typed'
  <2>1. mbox[t] \in Mailbox /\ key[t] \in AdminKey
    BY <1>11 DEF PutAddress, LocalTypeOK, LocalsOK, WithMbox, WithKey
  <2>2. StoreTypeOK' /\ EnvTypeOK'
    BY <1>11, <2>1, MailboxFields DEF PutAddress, StoreTypeOK, Succeeds, Fails, EnvTypeOK
  <2>3. MemoryTypeOK'
    BY <1>11 DEF PutAddress, MemoryTypeOK, memory
  <2>4. LocalTypeOK' /\ LocalsOK'
    BY <1>11 DEF PutAddress, Goto, LocalTypeOK, LocalsOK, WithMbox, WithKey, Labels
  <2> QED BY <2>1, <2>2, <2>3, <2>4
<1>12. ASSUME NEW t \in Thread, PutAdmin(t)
      PROVE  Typed'
  <2>1. mbox[t] \in Mailbox /\ key[t] \in AdminKey
    BY <1>12 DEF PutAdmin, LocalTypeOK, LocalsOK, WithMbox, WithKey
  <2>2. StoreTypeOK' /\ EnvTypeOK'
    BY <1>12, <2>1 DEF PutAdmin, StoreTypeOK, Succeeds, Fails, EnvTypeOK
  <2>3. [mbox[t] EXCEPT !.lastActivity = clock] \in Mailbox
    BY <1>12, <2>1, MailboxFields DEF EnvTypeOK
  <2>4. MemoryTypeOK'
    BY <1>12, <2>3 DEF PutAdmin, Own, Release, MemoryTypeOK
  <2>5. LocalTypeOK' /\ LocalsOK'
    BY <1>12, ReturnType DEF PutAdmin
  <2> QED BY <2>1, <2>2, <2>3, <2>4, <2>5
<1>13. ASSUME NEW t \in Thread, NEW c \in Channel, AddStream(t, c)
      PROVE  Typed'
  <2>1. mbox[t] \in Mailbox
    BY <1>13 DEF AddStream, LocalTypeOK, LocalsOK, WithMbox
  <2>2. StoreTypeOK' /\ EnvTypeOK'
    BY <1>13, <2>1, MailboxFields DEF AddStream, StoreTypeOK, Succeeds, Fails, EnvTypeOK
  <2>3. MemoryTypeOK'
    BY <1>13 DEF AddStream, MemoryTypeOK, memory
  <2>4. LocalTypeOK' /\ LocalsOK'
    BY <1>13, <2>1, MailboxFields, ReturnType DEF AddStream, Goto, LocalTypeOK, LocalsOK, WithMbox, WithKey, Labels
  <2> QED BY <2>1, <2>2, <2>3, <2>4
<1>14. ASSUME NEW t \in Thread, UpdateStore(t)
      PROVE  Typed'
  <2>1. mbox[t] \in Mailbox
    BY <1>14 DEF UpdateStore, LocalTypeOK, LocalsOK, WithMbox
  <2>2. StoreTypeOK' /\ EnvTypeOK'
    BY <1>14, <2>1, MailboxFields DEF UpdateStore, UpdateMailbox, StoreTypeOK, Succeeds, Fails, EnvTypeOK
  <2>3. MemoryTypeOK'
    BY <1>14 DEF UpdateStore, MemoryTypeOK, memory
  <2>4. LocalTypeOK' /\ LocalsOK'
    BY <1>14, ReturnType DEF UpdateStore, Goto, LocalTypeOK, LocalsOK, WithMbox, WithKey, Labels
  <2> QED BY <2>1, <2>2, <2>3, <2>4
<1>15. ASSUME NEW t \in Thread, NEW a \in AdminKey, PurgeNext(t, a)
      PROVE  Typed'
  <2>1. StoreTypeOK' /\ MemoryTypeOK' /\ EnvTypeOK'
    BY <1>15 DEF PurgeNext, FetchMailboxByAdminKey, StoreTypeOK, MemoryTypeOK, EnvTypeOK, store, memory, env
  <2>2. LocalTypeOK' /\ LocalsOK'
    BY <1>15, ReturnType DEF PurgeNext, FetchMailboxByAdminKey, StoreTypeOK, Goto, LocalTypeOK, LocalsOK, WithMbox, WithKey, Labels
  <2> QED BY <2>1, <2>2
<1>16. ASSUME NEW t \in Thread, PurgeReader(t)
      PROVE  Typed'
  <2>1. StoreTypeOK' /\ EnvTypeOK'
    BY <1>16 DEF PurgeReader, StoreTypeOK, Succeeds, Fails, EnvTypeOK
  <2>2. MemoryTypeOK'
    BY <1>16 DEF PurgeReader, Acquire, MemoryTypeOK
  <2>3. LocalTypeOK' /\ LocalsOK'
    BY <1>16 DEF PurgeReader, Goto, LocalTypeOK, LocalsOK, WithMbox, WithKey, Labels
  <2> QED BY <2>1, <2>2, <2>3
<1>17. ASSUME NEW t \in Thread, PurgeAddress(t)
      PROVE  Typed'
  <2>1. StoreTypeOK' /\ EnvTypeOK'
    BY <1>17 DEF PurgeAddress, StoreTypeOK, Succeeds, Fails, EnvTypeOK
  <2>2. MemoryTypeOK'
    BY <1>17 DEF PurgeAddress, MemoryTypeOK, memory
  <2>3. LocalTypeOK' /\ LocalsOK'
    BY <1>17 DEF PurgeAddress, Goto, LocalTypeOK, LocalsOK, WithMbox, WithKey, Labels
  <2> QED BY <2>1, <2>2, <2>3
<1>18. ASSUME NEW t \in Thread, PurgeAdmin(t)
      PROVE  Typed'
  <2>1. mbox[t] \in Mailbox
    BY <1>18 DEF PurgeAdmin, LocalTypeOK, LocalsOK, WithMbox
  <2>2. StoreTypeOK' /\ EnvTypeOK'
    BY <1>18 DEF PurgeAdmin, StoreTypeOK, Succeeds, Fails, EnvTypeOK
  <2>3. MemoryTypeOK'
    BY <1>18 DEF PurgeAdmin, Release, MemoryTypeOK
  <2>4. LocalTypeOK' /\ LocalsOK'
    BY <1>18, <2>1, MailboxFields DEF PurgeAdmin, Goto, LocalTypeOK, LocalsOK, WithMbox, WithKey, Labels
  <2> QED BY <2>1, <2>2, <2>3, <2>4
<1>19. ASSUME NEW t \in Thread, NEW c \in Channel, PurgeStream(t, c)
      PROVE  Typed'
  <2>1. StoreTypeOK' /\ EnvTypeOK'
    BY <1>19 DEF PurgeStream, StoreTypeOK, Succeeds, Fails, EnvTypeOK
  <2>2. MemoryTypeOK'
    BY <1>19 DEF PurgeStream, MemoryTypeOK, memory
  <2>3. LocalTypeOK' /\ LocalsOK'
    BY <1>19 DEF PurgeStream, Goto, LocalTypeOK, LocalsOK, WithMbox, WithKey, Labels
  <2> QED BY <2>1, <2>2, <2>3
<1>20. ASSUME NEW t \in Thread, PurgeDone(t)
      PROVE  Typed'
  <2>1. StoreTypeOK' /\ MemoryTypeOK' /\ EnvTypeOK'
    BY <1>20 DEF PurgeDone, StoreTypeOK, MemoryTypeOK, EnvTypeOK, store, memory, env
  <2>2. LocalTypeOK' /\ LocalsOK'
    BY <1>20, ReturnType DEF PurgeDone, Goto, LocalTypeOK, LocalsOK, WithMbox, WithKey, Labels
  <2> QED BY <2>1, <2>2
<1>21. ASSUME NEW p \in Proc, Restart(p), faults' \in Nat, crashes' \in Nat
      PROVE  Typed'
  <2>1. StoreTypeOK' /\ EnvTypeOK'
    BY <1>21 DEF Restart, store, StoreTypeOK, EnvTypeOK
  <2>2. MemoryTypeOK'
    BY <1>21 DEF Restart, Address, MemoryTypeOK
  <2>3. LocalTypeOK' /\ LocalsOK'
    BY <1>21 DEF Restart, LocalTypeOK, LocalsOK, WithMbox, WithKey, Labels
  <2> QED BY <2>1, <2>2, <2>3
<1>22. ASSUME NEW t \in Thread, NEW a \in AdminKey, PurgePanic(t, a)
      PROVE  Typed'
  BY <1>21, <1>22 DEF PurgePanic, FetchMailboxByAdminKey, Succeeds, Fails, EnvTypeOK
<1>23. ASSUME NEW p \in Proc, Crash(p)
      PROVE  Typed'
  BY <1>21, <1>23 DEF Crash, EnvTypeOK
<1>24. ASSUME NEW p \in Proc, KeepAlive(p)
      PROVE  Typed'
  <2>1. /\ owned[p] \in Mailbox
       /\ [owned[p] EXCEPT !.lastActivity = clock] \in Mailbox
       /\ [owned[p] EXCEPT !.lastActivity = clock].key \in AdminKey
    BY <1>24, MailboxFields DEF KeepAlive, MemoryTypeOK, EnvTypeOK
  <2>2. StoreTypeOK' /\ EnvTypeOK'
    <3> DEFINE m == [owned[p] EXCEPT !.lastActivity = clock]
    <3>1. m \in Mailbox /\ m.key \in AdminKey /\ m.address \in Address
      BY <2>1, MailboxFields
    <3>2. /\ \/ adminKV' = [adminKV EXCEPT ![m.key] = m] \/ UNCHANGED adminKV
          /\ revived' \subseteq revived \cup {m.address}
          /\ UNCHANGED <<readerKV, addressKV, streams, clock, issued, crashes>>
      BY <1>24 DEF KeepAlive, UpdateMailbox
    <3>3. faults' \in Nat
      BY <1>24 DEF KeepAlive, UpdateMailbox, Succeeds, Fails, EnvTypeOK
    <3> HIDE DEF m
    <3> QED BY <3>1, <3>2, <3>3 DEF StoreTypeOK, EnvTypeOK
  <2>3. MemoryTypeOK'
    BY <1>24, <2>1 DEF KeepAlive, MemoryTypeOK
  <2>4. LocalTypeOK' /\ LocalsOK'
    BY <1>24 DEF KeepAlive, local, LocalTypeOK, LocalsOK, WithMbox, WithKey, Labels
  <2> QED BY <2>1, <2>2, <2>3, <2>4
<1>25. ASSUME NEW p \in Proc, NEW a \in AdminKey, UpdateLastActivity(p, a)
      PROVE  Typed'
  <2>1. [cached[p][a] EXCEPT !.lastActivity = clock] \in Mailbox
    BY <1>25, MailboxFields DEF UpdateLastActivity, MemoryTypeOK, EnvTypeOK
  <2>2. StoreTypeOK' /\ EnvTypeOK'
    BY <1>25 DEF UpdateLastActivity, StoreTypeOK, EnvTypeOK, store, env
  <2>3. MemoryTypeOK'
    BY <1>25, <2>1 DEF UpdateLastActivity, MemoryTypeOK
  <2>4. LocalTypeOK' /\ LocalsOK'
    BY <1>25 DEF UpdateLastActivity, local, LocalTypeOK, LocalsOK, WithMbox, WithKey, Labels
  <2> QED BY <2>1, <2>2, <2>3, <2>4
<1>26. ASSUME NEW p \in Proc, SyncToDisk(p)
      PROVE  Typed'
  <2>1. StoreTypeOK'
    BY <1>26 DEF SyncToDisk, StoreTypeOK, MemoryTypeOK
  <2>2. MemoryTypeOK' /\ EnvTypeOK'
    BY <1>26 DEF SyncToDisk, MemoryTypeOK, EnvTypeOK, memory, env
  <2>3. LocalTypeOK' /\ LocalsOK'
    BY <1>26 DEF SyncToDisk, local, LocalTypeOK, LocalsOK, WithMbox, WithKey, Labels
  <2> QED BY <2>1, <2>2, <2>3
<1>27. CASE Tick
  BY <1>27 DEF Tick, store, memory, local, StoreTypeOK, MemoryTypeOK, LocalTypeOK, EnvTypeOK, LocalsOK
<1>28. CASE UNCHANGED vars
  BY <1>28 DEF vars, StoreTypeOK, MemoryTypeOK, LocalTypeOK, EnvTypeOK, LocalsOK
<1>29. ASSUME NEW t \in Thread, Start(t)
      PROVE  Typed'
  <2>1. issued \subseteq AdminKey /\ Name \subseteq Address /\ AdminKey \subseteq Address /\ NoKey \notin Address
    BY DEF EnvTypeOK, Address
  <2>2. Name \cap {NoKey} = {} /\ issued \cap {NoKey} = {}
    BY <2>1
  <2> QED BY <1>1, <1>2, <1>3, <1>4, <1>5, <1>29, <2>1, <2>2 DEF Start
<1>30. ASSUME NEW t \in Thread, Continue(t)
      PROVE  Typed'
  BY <1>6, <1>7, <1>8, <1>9, <1>10, <1>11, <1>12, <1>13, <1>14, <1>15, <1>16, <1>17, <1>18, <1>19, <1>20, <1>22, <1>30
     DEF Continue, CreateStep, PurgeStep
<1>31. ASSUME NEW p \in Proc, ProcStep(p)
      PROVE  Typed'
  BY <1>23, <1>24, <1>25, <1>26, <1>31 DEF ProcStep
<1> QED BY <1>27, <1>28, <1>29, <1>30, <1>31 DEF Next

\* In every reachable state the buckets, the memory of each process and the locals
\* of each thread have their types.
THEOREM TypeCorrect == Spec => []TypeOK
<1>1. TypeInv => TypeOK
  BY DEF TypeInv
<1> QED BY <1>1, TypeInit, TypeNext, PTL DEF Spec
-----------------------------------------------------------------------------
(* A mailbox that can be opened has its streams *)

LEMMA SoundInit == Init => IInv
<1> SUFFICES ASSUME Init PROVE IInv
  OBVIOUS
<1>1. TypeInv
  BY TypeInit
<1>2. Shared = {}
  BY DEF Init, Shared
<1>3. /\ readerKV \subseteq issued
      /\ SharedSound /\ CreatingAlone /\ PurgingUnreachable /\ KeysMatch
  BY <1>2 DEF Init, SharedSound, CreatingAlone, PurgingUnreachable, Purging, KeysMatch, Creating
<1> QED BY <1>1, <1>3 DEF IInv

\* m is absent, or a copy of a shared object up to its last activity.
Copied(m) == m = NoMbox \/ \E n \in Shared : n.key = m.key /\ n.channels = m.channels

LEMMA SharedMembers ==
    /\ Copied(NoMbox)
    /\ \A a \in AdminKey : Copied(adminKV[a])
    /\ \A p \in Proc : Copied(owned[p])
    /\ \A p \in Proc, a \in AdminKey : Copied(cached[p][a])
    /\ \A t \in Thread : pc[t] # "createChannels" => Copied(mbox[t])
<1>1. ASSUME NEW m, m = NoMbox \/ m \in Shared PROVE Copied(m)
  BY <1>1 DEF Copied
<1>2. /\ \A a \in AdminKey : adminKV[a] = NoMbox \/ adminKV[a] \in Shared
      /\ \A p \in Proc : owned[p] = NoMbox \/ owned[p] \in Shared
      /\ \A p \in Proc, a \in AdminKey : cached[p][a] = NoMbox \/ cached[p][a] \in Shared
      /\ \A t \in Thread : pc[t] # "createChannels" => mbox[t] = NoMbox \/ mbox[t] \in Shared
  BY DEF Shared
<1> QED BY <1>2 DEF Copied

\* Setting the last activity of an object makes a copy of it.
LEMMA ActivityCopied ==
    ASSUME NEW m \in Mailbox, Copied(m), NEW n
    PROVE  /\ Copied([m EXCEPT !.lastActivity = n])
           /\ [m EXCEPT !.lastActivity = n].key = m.key
<1>1. /\ [m EXCEPT !.lastActivity = n].key = m.key
      /\ [m EXCEPT !.lastActivity = n].channels = m.channels
  BY DEF Mailbox
<1>2. m # NoMbox
  BY NoMboxAssumption
<1> QED BY <1>1, <1>2 DEF Copied

LEMMA HitCopied ==
    ASSUME MemoryTypeOK, NEW p \in Proc, NEW a \in AdminKey \cup {NoKey},
           NEW x \in Address \cup {NoKey}, a # NoKey \/ x # NoKey
    PROVE  Copied(Hit(p, a, x))
BY SharedMembers DEF Hit, MemoryTypeOK

LEMMA OwnCopied ==
    ASSUME MemoryTypeOK, NEW t \in Thread, NEW m, Copied(m), Own(t, m)
    PROVE  \A p \in Proc : Copied(owned'[p])
BY SharedMembers DEF Own, MemoryTypeOK

\* A step that only moves copies of shared objects around.
Carries ==
    /\ \A a \in AdminKey : Copied(adminKV'[a])
    /\ \A p \in Proc : Copied(owned'[p])
    /\ \A p \in Proc, a \in AdminKey : Copied(cached'[p][a])
    /\ \A t \in Thread : pc'[t] # "createChannels" => Copied(mbox'[t])

LEMMA CarriedShared ==
    ASSUME Carries, NEW m \in Shared'
    PROVE  \E n \in Shared : n.key = m.key /\ n.channels = m.channels
<1>1. /\ m # NoMbox
      /\ \/ \E a \in AdminKey : m = adminKV'[a]
         \/ \E p \in Proc : m = owned'[p]
         \/ \E p \in Proc, a \in AdminKey : m = cached'[p][a]
         \/ \E t \in Thread : pc'[t] # "createChannels" /\ m = mbox'[t]
  BY DEF Shared
<1>2. Copied(m)
  BY <1>1 DEF Carries
<1> QED BY <1>1, <1>2 DEF Copied

\* Nothing enters the creation of a mailbox or the second half of a purge.
NothingEnters ==
    /\ \A t \in Thread : pc'[t] = "createChannels" =>
          pc[t] = "createChannels" /\ key'[t] = key[t] /\ mbox'[t] = mbox[t]
    /\ \A t \in Thread : pc'[t] \in Purging => pc[t] \in Purging /\ mbox'[t] = mbox[t]

\* The three parts of the invariant that most steps keep for the same reasons.
Quiet == SharedSound /\ CreatingAlone /\ PurgingUnreachable

LEMMA QuietStep ==
    ASSUME Quiet, Carries, NothingEnters, readerKV \subseteq issued,
           UNCHANGED issued, readerKV' \subseteq readerKV, UNCHANGED streams
    PROVE  Quiet' /\ readerKV' \subseteq issued'
<1>1. SharedSound'
  <2> SUFFICES ASSUME NEW m \in Shared'
               PROVE  m.key \in issued' /\ (m.key \in readerKV' => HasStreams(m)')
    BY DEF SharedSound
  <2>1. PICK n \in Shared : n.key = m.key /\ n.channels = m.channels
    BY CarriedShared
  <2> QED BY <2>1 DEF Quiet, SharedSound, HasStreams
<1>2. CreatingAlone'
  <2> SUFFICES ASSUME NEW t \in Thread, pc'[t] = "createChannels"
               PROVE  /\ key'[t] \in issued' \ readerKV'
                      /\ HasStreams(mbox[t])'
                      /\ \A m \in Shared' : m.key # key'[t]
                      /\ \A u \in Thread \ {t} : pc'[u] = "createChannels" => key'[u] # key'[t]
    BY DEF CreatingAlone
  <2>1. pc[t] = "createChannels" /\ key'[t] = key[t] /\ mbox'[t] = mbox[t]
    BY DEF NothingEnters
  <2>2. key'[t] \in issued' \ readerKV' /\ HasStreams(mbox[t])'
    BY <2>1 DEF Quiet, CreatingAlone, HasStreams
  <2>3. \A m \in Shared' : m.key # key'[t]
    BY <2>1, CarriedShared DEF Quiet, CreatingAlone
  <2>4. \A u \in Thread \ {t} : pc'[u] = "createChannels" => key'[u] # key'[t]
    BY <2>1 DEF NothingEnters, Quiet, CreatingAlone
  <2> QED BY <2>2, <2>3, <2>4
<1>3. PurgingUnreachable'
  BY DEF NothingEnters, Quiet, PurgingUnreachable
<1> QED BY <1>1, <1>2, <1>3 DEF Quiet

\* Every step keeps the invariant, unless a delete of Purge fails unnoticed.
LEMMA SoundNext ==
    ASSUME "delete" \notin FaultyOps
    PROVE  IInv /\ [Next]_vars => IInv'
<1> SUFFICES ASSUME IInv, [Next]_vars PROVE IInv'
  OBVIOUS
<1> DEFINE Others == readerKV \subseteq issued /\ Quiet /\ KeysMatch
<1> USE ConstantsAssumption, NoMboxAssumption
<1>1. TypeInv'
  BY TypeNext DEF IInv
<1>2. /\ StoreTypeOK /\ MemoryTypeOK /\ LocalTypeOK /\ EnvTypeOK /\ LocalsOK
      /\ readerKV \subseteq issued /\ Quiet /\ KeysMatch
  BY <1>1 DEF IInv, TypeInv, TypeOK, Quiet
<1>3. ASSUME NEW t \in Thread, NEW a \in AdminKey \cup {NoKey}, NEW x \in Address \cup {NoKey}, StartLookup(t, a, x)
      PROVE  Others'
  <2>1. Carries
    BY <1>2, <1>3, SharedMembers DEF StartLookup, Carries, store, memory, Goto, LocalTypeOK
  <2>2. NothingEnters
    BY <1>2, <1>3 DEF StartLookup, NothingEnters, Purging, Goto, LocalTypeOK
  <2>3. KeysMatch'
    BY <1>2, <1>3 DEF StartLookup, KeysMatch, Creating, store, Goto, LocalTypeOK
  <2> QED BY <1>2, <1>3, <2>1, <2>2, <2>3, QuietStep DEF StartLookup, store, env
<1>4. ASSUME NEW t \in Thread, NEW n \in Name, NEW o \in {"serve", "own"}, StartFetchOrCreate(t, n, o)
      PROVE  Others'
  <2>1. Carries
    <3>1. Copied(Hit(ProcOf[t], NoKey, n))
      BY <1>2, HitCopied DEF Address
    <3>2. \A p \in Proc : owned'[p] = owned[p] \/ owned'[p] = Hit(ProcOf[t], NoKey, n)
      BY <1>2, <1>4 DEF StartFetchOrCreate, MemoryTypeOK
    <3>3. \A p \in Proc : Copied(owned'[p])
      BY <3>1, <3>2, SharedMembers
    <3>4. UNCHANGED <<adminKV, cached, mbox>>
      BY <1>4 DEF StartFetchOrCreate, store
    <3>5. \A u \in Thread : pc'[u] # "createChannels" => pc[u] # "createChannels"
      BY <1>2, <1>4 DEF StartFetchOrCreate, Goto, LocalTypeOK
    <3> QED BY <3>3, <3>4, <3>5, SharedMembers DEF Carries
  <2>2. NothingEnters
    BY <1>2, <1>4 DEF StartFetchOrCreate, NothingEnters, Purging, Goto, LocalTypeOK
  <2>3. KeysMatch'
    BY <1>2, <1>4 DEF StartFetchOrCreate, KeysMatch, Creating, store, Goto, LocalTypeOK
  <2> QED BY <1>2, <1>4, <2>1, <2>2, <2>3, QuietStep DEF StartFetchOrCreate, store, env
<1>5. ASSUME NEW t \in Thread, NEW o \in {"serve", "own"}, StartCreate(t, o)
      PROVE  Others'
  <2>1. Carries
    BY <1>2, <1>5, SharedMembers DEF StartCreate, Carries, store, memory, Goto, LocalTypeOK
  <2>2. NothingEnters
    BY <1>2, <1>5 DEF StartCreate, NothingEnters, Purging, Goto, LocalTypeOK
  <2>3. KeysMatch'
    BY <1>2, <1>5 DEF StartCreate, KeysMatch, Creating, store, Goto, LocalTypeOK
  <2> QED BY <1>2, <1>5, <2>1, <2>2, <2>3, QuietStep DEF StartCreate, store, env
<1>6. ASSUME NEW t \in Thread, NEW a \in AdminKey, NEW cs \in SUBSET Channel, StartAddChannel(t, a, cs)
      PROVE  Others'
  <2>1. Carries
    BY <1>2, <1>6, SharedMembers DEF StartAddChannel, FetchMailboxByAdminKey, Carries, store, memory, Goto, LocalTypeOK
  <2>2. NothingEnters
    BY <1>2, <1>6 DEF StartAddChannel, FetchMailboxByAdminKey, NothingEnters, Purging, Goto, LocalTypeOK
  <2>3. KeysMatch'
    BY <1>2, <1>6 DEF StartAddChannel, FetchMailboxByAdminKey, KeysMatch, Creating, store, Goto, LocalTypeOK
  <2> QED BY <1>2, <1>6, <2>1, <2>2, <2>3, QuietStep DEF StartAddChannel, FetchMailboxByAdminKey, store, env
<1>7. ASSUME NEW t \in Thread, PurgeStart(t)
      PROVE  Others'
  <2>1. Carries
    BY <1>2, <1>7, SharedMembers DEF PurgeStart, Carries, store, memory, Goto, LocalTypeOK
  <2>2. NothingEnters
    BY <1>2, <1>7 DEF PurgeStart, NothingEnters, Purging, Goto, LocalTypeOK
  <2>3. KeysMatch'
    BY <1>2, <1>7 DEF PurgeStart, KeysMatch, Creating, store, Goto, LocalTypeOK
  <2> QED BY <1>2, <1>7, <2>1, <2>2, <2>3, QuietStep DEF PurgeStart, store, env
<1>8. ASSUME NEW t \in Thread, LookupRW(t)
      PROVE  Others'
  <2>1. Carries
    <3>1. Copied(Hit(ProcOf[t], key[t], addr[t]))
      BY <1>2, <1>8, HitCopied DEF LookupRW, LocalTypeOK, LocalsOK
    <3>2. \A p \in Proc : Copied(owned'[p])
      BY <1>2, <1>8, <3>1, OwnCopied, SharedMembers DEF LookupRW
    <3>3. UNCHANGED <<adminKV, cached>>
      BY <1>8 DEF LookupRW, store
    <3>4. \A u \in Thread : /\ mbox'[u] = mbox[u] \/ mbox'[u] = NoMbox
                            /\ pc'[u] # "createChannels" => pc[u] # "createChannels"
      BY <1>2, <1>8 DEF LookupRW, LookupMiss, Return, Goto, LocalTypeOK
    <3> QED BY <3>2, <3>3, <3>4, SharedMembers DEF Carries
  <2>2. NothingEnters
    BY <1>2, <1>8 DEF LookupRW, NothingEnters, Purging, LookupMiss, Return, Goto, LocalTypeOK
  <2>3. KeysMatch'
    BY <1>2, <1>8 DEF LookupRW, KeysMatch, Creating, store, LookupMiss, Return, Goto, LocalTypeOK
  <2> QED BY <1>2, <1>8, <2>1, <2>2, <2>3, QuietStep DEF LookupRW, store, env
<1>9. ASSUME NEW t \in Thread, LookupAdmin(t)
      PROVE  Others'
  <2>1. Carries
    <3>1. key[t] \in AdminKey
      BY <1>2, <1>9 DEF LookupAdmin, FetchMailboxByAdminKey, LocalTypeOK, LocalsOK, WithKey
    <3>2. Copied(adminKV[key[t]])
      BY <3>1, SharedMembers
    <3>3. \A p \in Proc : Copied(owned'[p])
      BY <1>2, <1>9, <3>2, OwnCopied, SharedMembers DEF LookupAdmin, FetchMailboxByAdminKey
    <3>4. \A p \in Proc, a \in AdminKey :
              cached'[p][a] = cached[p][a] \/ cached'[p][a] = adminKV[key[t]]
      <4> DEFINE m == FetchMailboxByAdminKey(key[t])
      <4>1. CASE cached' = cached
        BY <4>1
      <4>2. CASE m # NoMbox /\ cached' = [cached EXCEPT ![ProcOf[t]][m.key] = m]
        <5>1. m = adminKV[key[t]]
          BY <4>2 DEF FetchMailboxByAdminKey
        <5>2. \A p \in Proc : cached[p] \in [AdminKey -> Mailbox \cup {NoMbox}]
          BY <1>2 DEF MemoryTypeOK
        <5> HIDE DEF m
        <5>3. \A p \in Proc, a \in AdminKey : cached'[p][a] = cached[p][a] \/ cached'[p][a] = m
          BY <1>2, <4>2, <5>2 DEF MemoryTypeOK
        <5> QED BY <5>1, <5>3
      <4> QED BY <1>9, <4>1, <4>2 DEF LookupAdmin
    <3>5. \A u \in Thread : /\ mbox'[u] = mbox[u] \/ mbox'[u] = NoMbox
                            /\ pc'[u] # "createChannels" => pc[u] # "createChannels"
      BY <1>2, <1>9 DEF LookupAdmin, FetchMailboxByAdminKey, LookupMiss, Return, Goto, LocalTypeOK
    <3>6. adminKV' = adminKV
      BY <1>9 DEF LookupAdmin, FetchMailboxByAdminKey, store
    <3> QED BY <3>2, <3>3, <3>4, <3>5, <3>6, SharedMembers DEF Carries
  <2>2. NothingEnters
    BY <1>2, <1>9 DEF LookupAdmin, FetchMailboxByAdminKey, NothingEnters, Purging, LookupMiss, Return, Goto, LocalTypeOK
  <2>3. KeysMatch'
    BY <1>2, <1>9 DEF LookupAdmin, FetchMailboxByAdminKey, KeysMatch, Creating, store, LookupMiss, Return, Goto, LocalTypeOK
  <2> QED BY <1>2, <1>9, <2>1, <2>2, <2>3, QuietStep DEF LookupAdmin, FetchMailboxByAdminKey, store, env
<1>10. ASSUME NEW t \in Thread, NEW a \in AdminKey, CreateCheck(t, a)
      PROVE  Others'
  <2>1. CASE Return(t) /\ issued' = issued
    <3>1. Carries /\ NothingEnters /\ KeysMatch'
      BY <1>2, <1>10, <2>1, SharedMembers
         DEF CreateCheck, Carries, NothingEnters, Purging, KeysMatch, Creating, Copied, Return, store, LocalTypeOK
    <3> QED BY <1>2, <1>10, <2>1, <3>1, QuietStep DEF CreateCheck, store
  <2>2. CASE ~ (Return(t) /\ issued' = issued)
    <3> DEFINE m == [key |-> a, address |-> IF addr[t] = NoKey THEN a ELSE addr[t],
                     channels |-> {}, lastActivity |-> clock]
    <3>1. /\ a \notin issued /\ issued' = issued \cup {a}
          /\ pc' = [pc EXCEPT ![t] = "createChannels"]
          /\ key' = [key EXCEPT ![t] = a]
          /\ mbox' = [mbox EXCEPT ![t] = m]
          /\ UNCHANGED <<adminKV, readerKV, streams, owned, cached>>
      BY <1>10, <2>2 DEF CreateCheck, Goto, store
    <3>2. m.key = a /\ m.channels = {}
      OBVIOUS
    <3> HIDE DEF m
    <3>3. Shared' \subseteq Shared
      BY <3>1, <1>2 DEF Shared, LocalTypeOK
    <3>4. SharedSound'
      BY <1>2, <3>1, <3>3 DEF Quiet, SharedSound, HasStreams
    <3>5. \A s \in Shared : s.key \in issued
      BY <1>2 DEF Quiet, SharedSound
    <3>6. \A u \in Thread : pc[u] = "createChannels" => key[u] \in issued
      BY <1>2 DEF Quiet, CreatingAlone
    <3>7. CreatingAlone'
      BY <1>2, <3>1, <3>2, <3>3, <3>5, <3>6 DEF Quiet, CreatingAlone, HasStreams, LocalTypeOK
    <3>8. PurgingUnreachable' /\ KeysMatch'
      BY <1>2, <3>1, <3>2 DEF Quiet, PurgingUnreachable, Purging, KeysMatch, Creating, LocalTypeOK
    <3>9. readerKV' \subseteq issued'
      BY <1>2, <3>1
    <3> QED BY <3>4, <3>7, <3>8, <3>9 DEF Quiet
  <2> QED BY <2>1, <2>2
<1>11. ASSUME NEW t \in Thread, NEW c \in Channel, CreateChannel(t, c)
      PROVE  Others'
  <2>1. CASE Return(t) /\ streams' = streams
    <3>1. Carries /\ NothingEnters /\ KeysMatch'
      BY <1>2, <1>11, <2>1, SharedMembers
         DEF CreateChannel, Carries, NothingEnters, Purging, KeysMatch, Creating, Copied, Return, LocalTypeOK
    <3> QED BY <1>2, <1>11, <2>1, <3>1, QuietStep DEF CreateChannel
  <2>2. CASE ~ (Return(t) /\ streams' = streams)
    <3>1. /\ pc[t] = "createChannels"
          /\ streams' = streams \cup {<<key[t], c>>}
          /\ mbox' = [mbox EXCEPT ![t].channels = @ \cup {c}]
          /\ UNCHANGED <<adminKV, readerKV, owned, cached, issued, pc, key>>
      BY <1>11, <2>2 DEF CreateChannel
    <3>2. mbox[t] \in Mailbox /\ mbox[t].key = key[t]
      BY <1>2, <3>1 DEF LocalTypeOK, LocalsOK, WithMbox, KeysMatch, Creating
    <3>3. /\ mbox'[t].key = key[t] /\ mbox'[t].channels = mbox[t].channels \cup {c}
          /\ \A u \in Thread \ {t} : mbox'[u] = mbox[u]
      BY <1>2, <3>1, <3>2 DEF LocalTypeOK, Mailbox
    <3>4. Shared' = Shared
      BY <3>1, <3>3 DEF Shared
    <3>5. SharedSound'
      BY <1>2, <3>1, <3>4 DEF Quiet, SharedSound, HasStreams
    <3>6. \A u \in Thread : pc[u] = "createChannels" => HasStreams(mbox[u])'
      BY <1>2, <3>1, <3>2, <3>3 DEF Quiet, CreatingAlone, HasStreams
    <3>7. CreatingAlone'
      BY <1>2, <3>1, <3>4, <3>6 DEF Quiet, CreatingAlone
    <3>8. PurgingUnreachable' /\ KeysMatch'
      BY <1>2, <3>1, <3>2, <3>3 DEF Quiet, PurgingUnreachable, Purging, KeysMatch, Creating
    <3> QED BY <1>2, <3>1, <3>5, <3>7, <3>8 DEF Quiet
  <2> QED BY <2>1, <2>2
<1>12. ASSUME NEW t \in Thread, PutReader(t)
      PROVE  Others'
  <2>1. /\ pc[t] = "createChannels"
        /\ readerKV' \subseteq readerKV \cup {key[t]}
        /\ pc' = [pc EXCEPT ![t] = "putAddress"]
        /\ UNCHANGED <<adminKV, streams, owned, cached, issued, key, mbox>>
    BY <1>12 DEF PutReader, Goto, memory
  <2>2. mbox[t].key = key[t] /\ key[t] \in issued /\ HasStreams(mbox[t])
    BY <1>2, <2>1 DEF Quiet, CreatingAlone, KeysMatch, Creating
  <2>3. Shared' \subseteq Shared \cup {mbox[t]}
    BY <1>2, <2>1 DEF Shared, LocalTypeOK
  <2>4. \A s \in Shared : s.key # key[t]
    BY <1>2, <2>1 DEF Quiet, CreatingAlone
  <2>5. SharedSound'
    BY <1>2, <2>1, <2>2, <2>3, <2>4 DEF Quiet, SharedSound, HasStreams
  <2>6. \A u \in Thread \ {t} : pc[u] = "createChannels" => key[u] # key[t]
    BY <1>2, <2>1 DEF Quiet, CreatingAlone
  <2>7. CreatingAlone'
    BY <1>2, <2>1, <2>2, <2>3, <2>6 DEF Quiet, CreatingAlone, HasStreams, LocalTypeOK
  <2>8. \A u \in Thread : pc[u] \in Purging => mbox[u] \in Shared
    BY <1>2 DEF Shared, Purging, LocalsOK, WithMbox
  <2>9. PurgingUnreachable'
    BY <1>2, <2>1, <2>4, <2>8 DEF Quiet, PurgingUnreachable, Purging, LocalTypeOK
  <2>10. KeysMatch'
    BY <1>2, <2>1 DEF KeysMatch, Creating, LocalTypeOK
  <2> QED BY <1>2, <2>1, <2>2, <2>5, <2>7, <2>9, <2>10 DEF Quiet
<1>13. ASSUME NEW t \in Thread, PutAddress(t)
      PROVE  Others'
  <2>1. Carries
    BY <1>2, <1>13, SharedMembers DEF PutAddress, Carries, memory, Goto, LocalTypeOK
  <2>2. NothingEnters
    BY <1>2, <1>13 DEF PutAddress, NothingEnters, Purging, Goto, LocalTypeOK
  <2>3. KeysMatch'
    BY <1>2, <1>13 DEF PutAddress, KeysMatch, Creating, Goto, LocalTypeOK
  <2> QED BY <1>2, <1>13, <2>1, <2>2, <2>3, QuietStep DEF PutAddress, store, env
<1>14. ASSUME NEW t \in Thread, PutAdmin(t)
      PROVE  Others'
  <2>1. Carries
    <3>1. mbox[t] \in Mailbox /\ Copied(mbox[t])
      BY <1>2, <1>14, SharedMembers DEF PutAdmin, LocalTypeOK, LocalsOK, WithMbox
    <3>2. Copied([mbox[t] EXCEPT !.lastActivity = clock])
      BY <3>1, ActivityCopied
    <3>3. \A p \in Proc : Copied(owned'[p])
      BY <1>2, <1>14, <3>2, OwnCopied DEF PutAdmin
    <3>4. \A a \in AdminKey : adminKV'[a] = adminKV[a] \/ adminKV'[a] = mbox[t]
      BY <1>2, <1>14 DEF PutAdmin, StoreTypeOK
    <3>5. \A u \in Thread : /\ mbox'[u] = mbox[u] \/ mbox'[u] = NoMbox
                            /\ pc'[u] # "createChannels" => pc[u] # "createChannels"
      BY <1>2, <1>14 DEF PutAdmin, Return, LocalTypeOK
    <3>6. cached' = cached
      BY <1>14 DEF PutAdmin
    <3> QED BY <3>1, <3>3, <3>4, <3>5, <3>6, SharedMembers DEF Carries
  <2>2. NothingEnters
    BY <1>2, <1>14 DEF PutAdmin, NothingEnters, Purging, Return, Goto, LocalTypeOK
  <2>3. KeysMatch'
    BY <1>2, <1>14 DEF PutAdmin, KeysMatch, Creating, LocalsOK, WithKey, WithMbox, StoreTypeOK, Return, Goto, LocalTypeOK
  <2> QED BY <1>2, <1>14, <2>1, <2>2, <2>3, QuietStep DEF PutAdmin, store, env
<1>15. ASSUME NEW t \in Thread, NEW c \in Channel, AddStream(t, c)
      PROVE  Others'
  <2>1. CASE streams' = streams /\ (Return(t) \/ UNCHANGED <<pc, op, key, addr, mbox, todo>>)
    <3>1. Carries /\ NothingEnters /\ KeysMatch'
      BY <1>2, <1>15, <2>1, SharedMembers
         DEF AddStream, Carries, NothingEnters, Purging, KeysMatch, Creating, Copied, Return, memory, LocalTypeOK
    <3> QED BY <1>2, <1>15, <2>1, <3>1, QuietStep DEF AddStream
  <2>2. CASE ~ (streams' = streams /\ (Return(t) \/ UNCHANGED <<pc, op, key, addr, mbox, todo>>))
    <3>1. /\ pc[t] = "addStream"
          /\ streams' = streams \cup {<<mbox[t].key, c>>}
          /\ mbox' = [mbox EXCEPT ![t].channels = @ \cup {c}]
          /\ pc' = [pc EXCEPT ![t] = "updateStore"]
          /\ UNCHANGED <<adminKV, readerKV, owned, cached, issued, key>>
      BY <1>15, <2>2 DEF AddStream, Goto, memory
    <3>2. mbox[t] \in Mailbox /\ mbox[t] \in Shared
      BY <1>2, <3>1 DEF LocalTypeOK, LocalsOK, WithMbox, Shared
    <3>3. /\ mbox'[t].key = mbox[t].key /\ mbox'[t].channels = mbox[t].channels \cup {c}
          /\ \A u \in Thread \ {t} : mbox'[u] = mbox[u] /\ pc'[u] = pc[u]
      BY <1>2, <3>1, <3>2 DEF LocalTypeOK, Mailbox
    <3>4. Shared' \subseteq Shared \cup {mbox'[t]}
      BY <1>2, <3>1, <3>3 DEF Shared, LocalTypeOK
    <3>5. SharedSound'
      <4>1. \A m \in Shared : m.key \in issued /\ (m.key \in readerKV => HasStreams(m)')
        BY <1>2, <3>1 DEF Quiet, SharedSound, HasStreams
      <4>2. mbox'[t].key \in readerKV => \A d \in mbox'[t].channels : <<mbox'[t].key, d>> \in streams'
        BY <3>1, <3>2, <3>3, <4>1 DEF HasStreams
      <4> QED BY <3>1, <3>2, <3>3, <3>4, <4>1, <4>2 DEF SharedSound, HasStreams
    <3>6. pc'[t] = "updateStore"
      BY <1>2, <3>1 DEF LocalTypeOK
    <3>7. CreatingAlone'
      <4>1. \A u \in Thread : pc'[u] = "createChannels" =>
               u # t /\ pc[u] = "createChannels" /\ key'[u] = key[u] /\ mbox'[u] = mbox[u]
        BY <3>1, <3>3, <3>6
      <4>2. \A u \in Thread : pc[u] = "createChannels" => \A m \in Shared' : m.key # key[u]
        BY <1>2, <3>2, <3>3, <3>4 DEF Quiet, CreatingAlone
      <4> QED BY <1>2, <3>1, <4>1, <4>2 DEF Quiet, CreatingAlone, HasStreams
    <3>8. PurgingUnreachable' /\ KeysMatch'
      BY <1>2, <3>1, <3>3, <3>6 DEF Quiet, PurgingUnreachable, Purging, KeysMatch, Creating
    <3> QED BY <1>2, <3>1, <3>5, <3>7, <3>8 DEF Quiet
  <2> QED BY <2>1, <2>2
<1>16. ASSUME NEW t \in Thread, UpdateStore(t)
      PROVE  Others'
  <2>1. Carries
    <3>1. \A a \in AdminKey : adminKV'[a] = adminKV[a] \/ adminKV'[a] = mbox[t]
      BY <1>2, <1>16 DEF UpdateStore, UpdateMailbox, StoreTypeOK
    <3>2. \A u \in Thread : /\ mbox'[u] = mbox[u] \/ mbox'[u] = NoMbox
                            /\ pc'[u] # "createChannels" => pc[u] # "createChannels"
      BY <1>2, <1>16 DEF UpdateStore, Return, Goto, LocalTypeOK
    <3>3. Copied(mbox[t]) /\ UNCHANGED memory
      BY <1>16, SharedMembers DEF UpdateStore
    <3> QED BY <3>1, <3>2, <3>3, SharedMembers DEF Carries, memory
  <2>2. NothingEnters
    BY <1>2, <1>16 DEF UpdateStore, NothingEnters, Purging, Return, Goto, LocalTypeOK
  <2>3. KeysMatch'
    BY <1>2, <1>16 DEF UpdateStore, KeysMatch, Creating, UpdateMailbox, LocalsOK, WithMbox, StoreTypeOK, Return, Goto, LocalTypeOK
  <2> QED BY <1>2, <1>16, <2>1, <2>2, <2>3, QuietStep DEF UpdateStore, store, env
<1>17. ASSUME NEW t \in Thread, NEW a \in AdminKey, PurgeNext(t, a)
      PROVE  Others'
  <2>1. Carries
    BY <1>2, <1>17, SharedMembers DEF PurgeNext, FetchMailboxByAdminKey, Carries, store, memory, Return, Goto, LocalTypeOK
  <2>2. NothingEnters
    BY <1>2, <1>17 DEF PurgeNext, FetchMailboxByAdminKey, NothingEnters, Purging, Return, Goto, LocalTypeOK
  <2>3. KeysMatch'
    BY <1>2, <1>17 DEF PurgeNext, FetchMailboxByAdminKey, KeysMatch, Creating, store, Return, Goto, LocalTypeOK
  <2> QED BY <1>2, <1>17, <2>1, <2>2, <2>3, QuietStep DEF PurgeNext, FetchMailboxByAdminKey, store, env
<1>18. ASSUME NEW t \in Thread, PurgeReader(t)
      PROVE  Others'
  <2>1. /\ readerKV' = readerKV \ {mbox[t].key}
        /\ pc[t] = "purgeReader" /\ pc' = [pc EXCEPT ![t] = "purgeAddress"]
        /\ UNCHANGED <<adminKV, streams, owned, cached, issued, key, mbox>>
    BY <1>18 DEF PurgeReader, Fails, Goto
  <2>2. Shared' = Shared
    BY <1>2, <2>1 DEF Shared, LocalTypeOK
  <2>3. SharedSound' /\ readerKV' \subseteq issued'
    BY <1>2, <2>1, <2>2 DEF Quiet, SharedSound, HasStreams
  <2>4. CreatingAlone'
    BY <1>2, <2>1, <2>2 DEF Quiet, CreatingAlone, HasStreams, LocalTypeOK
  <2>5. PurgingUnreachable' /\ KeysMatch'
    BY <1>2, <2>1 DEF Quiet, PurgingUnreachable, Purging, KeysMatch, Creating, LocalTypeOK
  <2> QED BY <2>3, <2>4, <2>5 DEF Quiet
<1>19. ASSUME NEW t \in Thread, PurgeAddress(t)
      PROVE  Others'
  <2>1. Carries
    BY <1>2, <1>19, SharedMembers DEF PurgeAddress, Carries, memory, Goto, LocalTypeOK
  <2>2. NothingEnters
    BY <1>2, <1>19 DEF PurgeAddress, NothingEnters, Purging, Goto, LocalTypeOK
  <2>3. KeysMatch'
    BY <1>2, <1>19 DEF PurgeAddress, KeysMatch, Creating, Goto, LocalTypeOK
  <2> QED BY <1>2, <1>19, <2>1, <2>2, <2>3, QuietStep DEF PurgeAddress, store, env
<1>20. ASSUME NEW t \in Thread, PurgeAdmin(t)
      PROVE  Others'
  <2>1. Carries
    <3>1. \A a \in AdminKey : adminKV'[a] = adminKV[a] \/ adminKV'[a] = NoMbox
      BY <1>2, <1>20 DEF PurgeAdmin, StoreTypeOK
    <3>2. \A p \in Proc, a \in AdminKey : cached'[p][a] = cached[p][a] \/ cached'[p][a] = NoMbox
      BY <1>2, <1>20 DEF PurgeAdmin, MemoryTypeOK
    <3>3. /\ owned' = owned /\ mbox' = mbox
          /\ \A u \in Thread : pc'[u] # "createChannels" => pc[u] # "createChannels"
      BY <1>2, <1>20 DEF PurgeAdmin, Goto, LocalTypeOK
    <3> QED BY <3>1, <3>2, <3>3, SharedMembers DEF Carries
  <2>2. NothingEnters
    BY <1>2, <1>20 DEF PurgeAdmin, NothingEnters, Purging, Goto, LocalTypeOK
  <2>3. KeysMatch'
    BY <1>2, <1>20 DEF PurgeAdmin, KeysMatch, Creating, StoreTypeOK, Goto, LocalTypeOK
  <2> QED BY <1>2, <1>20, <2>1, <2>2, <2>3, QuietStep DEF PurgeAdmin, store, env
<1>21. ASSUME NEW t \in Thread, NEW c \in Channel, PurgeStream(t, c)
      PROVE  Others'
  <2>1. /\ pc[t] = "purgeStreams" /\ streams \ {<<mbox[t].key, c>>} \subseteq streams'
        /\ UNCHANGED <<adminKV, readerKV, owned, cached, issued, pc, key, mbox>>
    BY <1>21 DEF PurgeStream, memory
  <2>2. mbox[t] \in Shared /\ mbox[t].key \notin readerKV
    BY <1>2, <2>1 DEF Shared, LocalsOK, WithMbox, Quiet, PurgingUnreachable, Purging
  <2>3. Shared' = Shared
    BY <2>1 DEF Shared
  <2>4. SharedSound'
    BY <1>2, <2>1, <2>2, <2>3 DEF Quiet, SharedSound, HasStreams
  <2>5. \A u \in Thread : pc[u] = "createChannels" => mbox[u].key # mbox[t].key
    BY <1>2, <2>2 DEF Quiet, CreatingAlone, KeysMatch, Creating
  <2>6. CreatingAlone'
    BY <1>2, <2>1, <2>3, <2>5 DEF Quiet, CreatingAlone, HasStreams
  <2>7. PurgingUnreachable' /\ KeysMatch' /\ readerKV' \subseteq issued'
    BY <1>2, <2>1 DEF Quiet, PurgingUnreachable, KeysMatch
  <2> QED BY <2>4, <2>6, <2>7 DEF Quiet
<1>22. ASSUME NEW t \in Thread, PurgeDone(t)
      PROVE  Others'
  <2>1. Carries
    BY <1>2, <1>22, SharedMembers DEF PurgeDone, Carries, store, memory, Return, Goto, LocalTypeOK
  <2>2. NothingEnters
    BY <1>2, <1>22 DEF PurgeDone, NothingEnters, Purging, Return, Goto, LocalTypeOK
  <2>3. KeysMatch'
    BY <1>2, <1>22 DEF PurgeDone, KeysMatch, Creating, store, Return, Goto, LocalTypeOK
  <2> QED BY <1>2, <1>22, <2>1, <2>2, <2>3, QuietStep DEF PurgeDone, store, env
<1>23. ASSUME NEW p \in Proc, Restart(p)
      PROVE  Others'
  <2>1. Carries
    BY <1>2, <1>23, SharedMembers DEF Restart, Carries, Copied, store, MemoryTypeOK, LocalTypeOK
  <2>2. NothingEnters
    BY <1>2, <1>23 DEF Restart, NothingEnters, Purging, LocalTypeOK
  <2>3. KeysMatch'
    BY <1>2, <1>23 DEF Restart, KeysMatch, Creating, store, LocalTypeOK
  <2> QED BY <1>2, <1>23, <2>1, <2>2, <2>3, QuietStep DEF Restart, store, env
<1>24. ASSUME NEW t \in Thread, NEW a \in AdminKey, PurgePanic(t, a)
      PROVE  Others'
  BY <1>23, <1>24 DEF PurgePanic, FetchMailboxByAdminKey
<1>25. ASSUME NEW p \in Proc, Crash(p)
      PROVE  Others'
  BY <1>23, <1>25 DEF Crash
<1>26. ASSUME NEW p \in Proc, KeepAlive(p)
      PROVE  Others'
  <2>0. owned[p] \in Mailbox /\ Copied(owned[p])
    BY <1>2, <1>26, SharedMembers DEF KeepAlive, MemoryTypeOK
  <2>1. Carries
    <3>1. Copied([owned[p] EXCEPT !.lastActivity = clock])
      BY <2>0, ActivityCopied
    <3>2. \A q \in Proc : \/ owned'[q] = owned[q]
                          \/ owned'[q] = [owned[p] EXCEPT !.lastActivity = clock]
      BY <1>2, <1>26 DEF KeepAlive, MemoryTypeOK
    <3>3. \A a \in AdminKey : \/ adminKV'[a] = adminKV[a]
                              \/ adminKV'[a] = [owned[p] EXCEPT !.lastActivity = clock]
      BY <1>2, <1>26 DEF KeepAlive, UpdateMailbox, StoreTypeOK
    <3>4. UNCHANGED <<cached, mbox, pc>>
      BY <1>26 DEF KeepAlive, local
    <3> QED BY <3>1, <3>2, <3>3, <3>4, SharedMembers DEF Carries
  <2>2. NothingEnters
    BY <1>2, <1>26 DEF KeepAlive, NothingEnters, Purging, local
  <2>3. KeysMatch'
    <3> DEFINE m == [owned[p] EXCEPT !.lastActivity = clock]
    <3>1. m \in Mailbox /\ m.key = owned[p].key /\ owned[p].key \in AdminKey
      BY <2>0, <1>2, MailboxFields DEF Mailbox, EnvTypeOK
    <3>2. NoMbox # m
      BY <3>1, NoMboxAssumption
    <3>3. adminKV' = adminKV \/ adminKV' = [adminKV EXCEPT ![m.key] = m]
      BY <1>26 DEF KeepAlive, UpdateMailbox
    <3>4. UNCHANGED <<pc, key, mbox>>
      BY <1>26 DEF KeepAlive, local
    <3> HIDE DEF m
    <3>5. \A a \in AdminKey : adminKV'[a] = adminKV[a] \/ (a = m.key /\ adminKV'[a] = m)
      BY <3>1, <3>3, <1>2 DEF StoreTypeOK
    <3> QED BY <1>2, <3>2, <3>4, <3>5 DEF KeysMatch, Creating
  <2> QED BY <1>2, <1>26, <2>1, <2>2, <2>3, QuietStep DEF KeepAlive, store, env
<1>27. ASSUME NEW p \in Proc, NEW a \in AdminKey, UpdateLastActivity(p, a)
      PROVE  Others'
  <2>1. Carries
    <3>1. cached[p][a] \in Mailbox /\ Copied(cached[p][a])
      BY <1>2, <1>27, SharedMembers DEF UpdateLastActivity, MemoryTypeOK
    <3>2. Copied([cached[p][a] EXCEPT !.lastActivity = clock])
      BY <3>1, ActivityCopied
    <3>3. \A q \in Proc, b \in AdminKey : \/ cached'[q][b] = cached[q][b]
                                          \/ cached'[q][b] = [cached[p][a] EXCEPT !.lastActivity = clock]
      BY <1>2, <1>27 DEF UpdateLastActivity, MemoryTypeOK
    <3>4. UNCHANGED <<adminKV, owned, mbox, pc>>
      BY <1>27 DEF UpdateLastActivity, store, local
    <3> QED BY <3>2, <3>3, <3>4, SharedMembers DEF Carries
  <2>2. NothingEnters
    BY <1>2, <1>27 DEF UpdateLastActivity, NothingEnters, Purging, local
  <2>3. KeysMatch'
    BY <1>2, <1>27 DEF UpdateLastActivity, KeysMatch, Creating, store, local
  <2> QED BY <1>2, <1>27, <2>1, <2>2, <2>3, QuietStep DEF UpdateLastActivity, store, env
<1>28. ASSUME NEW p \in Proc, SyncToDisk(p)
      PROVE  Others'
  <2>0. adminKV' = adminKV
    BY <1>2, <1>28 DEF SyncToDisk, IsAdminKeyInMemory, UuidDigit, StoreTypeOK
  <2>1. Carries
    BY <1>2, <1>28, SharedMembers DEF SyncToDisk, Carries, memory, local
  <2>2. NothingEnters
    BY <1>2, <1>28 DEF SyncToDisk, NothingEnters, Purging, local
  <2>3. KeysMatch'
    BY <1>2, <1>28, <2>0 DEF SyncToDisk, KeysMatch, Creating, local
  <2> QED BY <1>2, <1>28, <2>1, <2>2, <2>3, QuietStep DEF SyncToDisk, store, env
<1>29. ASSUME Tick PROVE Others'
  <2>1. Carries
    BY <1>29, SharedMembers DEF Tick, Carries, store, memory, local
  <2>2. NothingEnters /\ KeysMatch'
    BY <1>2, <1>29 DEF Tick, NothingEnters, KeysMatch, store, local
  <2> QED BY <1>2, <1>29, <2>1, <2>2, QuietStep DEF Tick, store
<1>30. ASSUME UNCHANGED vars PROVE Others'
  <2>1. Carries
    BY <1>30, SharedMembers DEF vars, Carries
  <2>2. NothingEnters /\ KeysMatch'
    BY <1>2, <1>30 DEF vars, NothingEnters, KeysMatch
  <2> QED BY <1>2, <1>30, <2>1, <2>2, QuietStep DEF vars
<1>31. ASSUME NEW t \in Thread, Start(t)
      PROVE  Others'
  <2>1. issued \subseteq AdminKey /\ Name \subseteq Address /\ AdminKey \subseteq Address
    BY <1>2 DEF EnvTypeOK, Address
  <2> QED BY <1>3, <1>4, <1>5, <1>6, <1>7, <1>31, <2>1 DEF Start
<1>32. ASSUME NEW t \in Thread, Continue(t)
      PROVE  Others'
  BY <1>8, <1>9, <1>10, <1>11, <1>12, <1>13, <1>14, <1>15, <1>16, <1>17, <1>18, <1>19, <1>20, <1>21, <1>22, <1>24, <1>32
     DEF Continue, CreateStep, PurgeStep
<1>33. ASSUME NEW p \in Proc, ProcStep(p)
      PROVE  Others'
  BY <1>25, <1>26, <1>27, <1>28, <1>33 DEF ProcStep
<1>34. Others'
  BY <1>29, <1>30, <1>31, <1>32, <1>33 DEF Next
<1> QED BY <1>1, <1>34 DEF IInv, Quiet

\* In any number of processes and threads, through crashes of any of them and
\* failures of any operation but Delete, a mailbox that a reader can open has a
\* stream behind every channel it lists: the order in which _CreateMailboxImpl
\* and AddChannel publish, and Purge withdraws.
THEOREM ReachableStreams ==
    ASSUME "delete" \notin FaultyOps
    PROVE  Spec => []ReachableHasStreams
<1>1. IInv => ReachableHasStreams
  <2>1. ASSUME IInv, NEW a \in readerKV, adminKV[a] # NoMbox
        PROVE  \A c \in adminKV[a].channels : <<a, c>> \in streams
    <3>1. a \in AdminKey
      BY <2>1 DEF IInv, TypeInv, TypeOK, StoreTypeOK
    <3>2. adminKV[a].key = a /\ adminKV[a] \in Shared
      BY <2>1, <3>1 DEF IInv, KeysMatch, Shared
    <3> QED BY <2>1, <3>2 DEF IInv, SharedSound, HasStreams
  <2> QED BY <2>1 DEF ReachableHasStreams
<1> QED BY SoundInit, SoundNext, <1>1, PTL DEF Spec
-----------------------------------------------------------------------------
(***************************************************************************)
(* The inductive invariant of IndexConsistent, CacheCoherent and           *)
(* AddressNotTakenOver, for one process whose purge loop is the only one   *)
(* and which nothing disturbs.  It says of every thread inside the mutex   *)
(* what it has done so far, and of the buckets and the memory what holds   *)
(* but for that.                                                           *)
(***************************************************************************)

\* One process, for a mutex orders no others, with one purge loop; no operation on a bucket
\* fails, though AddStream may, and nobody kills the process, which leaves half a creation or half a purge behind;
\* and the mailboxes that encoding/json has written it can read back.
Undisturbed ==
    /\ \A p, q \in Proc : p = q
    /\ \A t, u \in PurgeThread : t = u
    /\ FaultyOps \subseteq {"addStream"} /\ CrashProc = {} /\ OpaqueDecodes

\* Every Mailbox object there is, those under creation included.
Objects ==
    ({adminKV[a] : a \in AdminKey}
      \cup {owned[p] : p \in Proc}
      \cup {cached[p][a] : p \in Proc, a \in AdminKey}
      \cup {mbox[t] : t \in Thread}) \ {NoMbox}

LockOK == \A t \in Thread : lock[ProcOf[t]] = t <=> pc[t] \in Critical

\* The address of a mailbox never changes.
OneAddress == \A m, n \in Objects : m.key = n.key => m.address = n.address

\* Only the purge loop purges, and what it has still to visit is in the bucket.
PurgeLabels == {"purgeNext", "purgeReader", "purgeAddress", "purgeAdmin", "purgeStreams"}
Deleting == {"purgeReader", "purgeAddress", "purgeAdmin"}
PurgeOK ==
    \A t \in Thread :
        /\ pc[t] \in PurgeLabels \/ todo[t] # {} => t \in PurgeThread
        /\ \A a \in todo[t] : adminKV[a] # NoMbox
        /\ pc[t] \in Deleting => adminKV[mbox[t].key] # NoMbox /\ mbox[t].key \notin todo[t]

\* What a creation has put so far, and what a lookup has found.
CreateOK ==
    \A t \in Thread :
        /\ pc[t] \in {"createChannels", "putAddress"} => addressKV[mbox[t].address] = NoKey
        /\ pc[t] \in {"putAddress", "putAdmin", "lookupAdmin"} => key[t] \in readerKV
        /\ pc[t] = "putAdmin" => addressKV[mbox[t].address] = key[t]

\* A reader key leads to a mailbox, or to one that is about to be put.
ReaderOK ==
    \A a \in readerKV : adminKV[a] # NoMbox \/
        \E t \in Thread : pc[t] \in {"putAddress", "putAdmin"} /\ key[t] = a

\* An address leads to a mailbox whose reader key is out, or was a moment ago, ...
AddressOK ==
    \A x \in Address : addressKV[x] # NoKey =>
        \/ addressKV[x] \in readerKV
        \/ \E t \in Thread : pc[t] = "purgeAddress" /\ mbox[t].key = addressKV[x]

\* ... and which has that address.
AddressesMatch ==
    \A x \in Address : \A m \in Objects : m.key = addressKV[x] => m.address = x

\* A mailbox in the bucket is found under both its keys, but for what its purge has deleted.
FoundOK ==
    \A a \in AdminKey : adminKV[a] # NoMbox /\ adminKV[a].address \notin revived =>
        /\ \/ a \in readerKV
           \/ \E t \in Thread : pc[t] \in {"purgeAddress", "purgeAdmin"} /\ mbox[t].key = a
        /\ \/ addressKV[adminKV[a].address] = a
           \/ \E t \in Thread : pc[t] = "purgeAdmin" /\ mbox[t].key = a

\* So is a mailbox in memory.
CacheOK ==
    \A p \in Proc :
        /\ \A a \in AdminKey : cached[p][a] # NoMbox =>
              \/ a \in readerKV
              \/ \E t \in Thread : pc[t] \in {"purgeAddress", "purgeAdmin"} /\ mbox[t].key = a
        /\ \A x \in Address \ revived : cachedAddr[p][x] # NoKey =>
              \/ addressKV[x] = cachedAddr[p][x]
              \/ \E t \in Thread : pc[t] = "purgeAdmin" /\ mbox[t].address = x

Addressed == OneAddress /\ AddressesMatch
Indexed == ReaderOK /\ AddressOK /\ FoundOK /\ CacheOK
IndexInv == LockOK /\ PurgeOK /\ CreateOK /\ Addressed /\ Indexed

LEMMA IndexInit == Init => IndexInv
<1> SUFFICES ASSUME Init PROVE IndexInv
  OBVIOUS
<1>1. Objects = {}
  BY DEF Init, Objects
<1>2. LockOK
  BY ConstantsAssumption DEF Init, LockOK, Critical
<1>3. PurgeOK /\ CreateOK
  BY DEF Init, PurgeOK, PurgeLabels, Deleting, CreateOK
<1>4. Addressed
  BY <1>1 DEF Addressed, OneAddress, AddressesMatch
<1>5. Indexed
  BY DEF Init, Indexed, ReaderOK, AddressOK, FoundOK, CacheOK
<1> QED BY <1>2, <1>3, <1>4, <1>5 DEF IndexInv

\* The mutex of the one process lets one thread in at a time.
LEMMA Inside ==
    ASSUME Undisturbed, LockOK
    PROVE  /\ \A t, u \in Thread : pc[t] \in Critical /\ pc[u] \in Critical => t = u
           /\ \A t, u \in Thread : Free(t) => pc[u] \notin Critical
           /\ \A p \in Proc : lock[p] = NoThread => \A u \in Thread : pc[u] \notin Critical
<1>1. \A t, u \in Thread : ProcOf[t] = ProcOf[u]
  BY ConstantsAssumption DEF Undisturbed
<1>2. \A p \in Proc, u \in Thread : ProcOf[u] = p
  BY ConstantsAssumption DEF Undisturbed
<1>3. \A t \in Thread : t # NoThread
  BY ConstantsAssumption
<1> QED BY <1>1, <1>2, <1>3 DEF LockOK, Free

(* Most steps only move mailboxes around, up to their channels and activity. *)

\* m is absent, or has the key and the address of an object there is.
Known(m) == m = NoMbox \/ \E n \in Objects : n.key = m.key /\ n.address = m.address

LEMMA ObjectMembers ==
    /\ Known(NoMbox)
    /\ \A a \in AdminKey : Known(adminKV[a])
    /\ \A p \in Proc : Known(owned[p])
    /\ \A p \in Proc, a \in AdminKey : Known(cached[p][a])
    /\ \A t \in Thread : Known(mbox[t])
<1>1. ASSUME NEW m, m = NoMbox \/ m \in Objects PROVE Known(m)
  BY <1>1 DEF Known
<1>2. /\ \A a \in AdminKey : adminKV[a] = NoMbox \/ adminKV[a] \in Objects
      /\ \A p \in Proc : owned[p] = NoMbox \/ owned[p] \in Objects
      /\ \A p \in Proc, a \in AdminKey : cached[p][a] = NoMbox \/ cached[p][a] \in Objects
      /\ \A t \in Thread : mbox[t] = NoMbox \/ mbox[t] \in Objects
  BY DEF Objects
<1> QED BY <1>1, <1>2 DEF Known

\* Other channels or another last activity leave key and address.
LEMMA FieldsKnown ==
    ASSUME NEW m \in Mailbox, Known(m)
    PROVE  /\ \A n : Known([m EXCEPT !.lastActivity = n])
           /\ \A c : Known([m EXCEPT !.channels = @ \cup {c}])
<1>1. m # NoMbox
  BY NoMboxAssumption
<1>2. /\ \A n : /\ [m EXCEPT !.lastActivity = n].key = m.key
                /\ [m EXCEPT !.lastActivity = n].address = m.address
      /\ \A c : /\ [m EXCEPT !.channels = @ \cup {c}].key = m.key
                /\ [m EXCEPT !.channels = @ \cup {c}].address = m.address
  BY DEF Mailbox
<1> QED BY <1>1, <1>2 DEF Known

LEMMA HitKnown ==
    ASSUME MemoryTypeOK, NEW p \in Proc, NEW a \in AdminKey \cup {NoKey},
           NEW x \in Address \cup {NoKey}, a # NoKey \/ x # NoKey
    PROVE  Known(Hit(p, a, x))
BY ObjectMembers DEF Hit, MemoryTypeOK

LEMMA OwnKnown ==
    ASSUME MemoryTypeOK, NEW t \in Thread, NEW m, Known(m), Own(t, m)
    PROVE  \A p \in Proc : Known(owned'[p])
BY ObjectMembers DEF Own, MemoryTypeOK

\* A step after which every object is one there was.
Keeps ==
    /\ \A a \in AdminKey : Known(adminKV'[a])
    /\ \A p \in Proc : Known(owned'[p])
    /\ \A p \in Proc, a \in AdminKey : Known(cached'[p][a])
    /\ \A t \in Thread : Known(mbox'[t])

LEMMA KeptObjects ==
    ASSUME Keeps, NEW m \in Objects'
    PROVE  \E n \in Objects : n.key = m.key /\ n.address = m.address
<1>1. /\ m # NoMbox
      /\ \/ \E a \in AdminKey : m = adminKV'[a]
         \/ \E p \in Proc : m = owned'[p]
         \/ \E p \in Proc, a \in AdminKey : m = cached'[p][a]
         \/ \E t \in Thread : m = mbox'[t]
  BY DEF Objects
<1>2. Known(m)
  BY <1>1 DEF Keeps
<1> QED BY <1>1, <1>2 DEF Known

LEMMA KeepsOneAddress ==
    ASSUME OneAddress, Keeps
    PROVE  OneAddress'
<1> SUFFICES ASSUME NEW m \in Objects', NEW n \in Objects', m.key = n.key
             PROVE  m.address = n.address
  BY DEF OneAddress
<1>1. PICK i \in Objects : i.key = m.key /\ i.address = m.address
  BY KeptObjects
<1>2. PICK j \in Objects : j.key = n.key /\ j.address = n.address
  BY KeptObjects
<1> QED BY <1>1, <1>2 DEF OneAddress

\* Entries of addresses only go.
LEMMA KeepsAddressed ==
    ASSUME Addressed, Keeps,
           \A x \in Address : addressKV'[x] = addressKV[x] \/ \A m \in Objects : m.key # addressKV'[x]
    PROVE  Addressed'
<1>1. OneAddress'
  BY KeepsOneAddress DEF Addressed
<1>2. AddressesMatch'
  <2> SUFFICES ASSUME NEW x \in Address, NEW m \in Objects', m.key = addressKV'[x]
               PROVE  m.address = x
    BY DEF AddressesMatch
  <2>1. PICK n \in Objects : n.key = m.key /\ n.address = m.address
    BY KeptObjects
  <2> QED BY <2>1 DEF Addressed, AddressesMatch
<1> QED BY <1>1, <1>2 DEF Addressed

\* A step outside of the purge, of the puts of a creation and of UpdateMailbox.
Still ==
    /\ UNCHANGED <<adminKV, readerKV, addressKV, revived, cachedAddr>>
    /\ \A p \in Proc, a \in AdminKey : cached'[p][a] # NoMbox => cached[p][a] # NoMbox
    /\ \A t \in Thread : pc[t] \in {"putAddress", "putAdmin", "purgeAddress", "purgeAdmin"} =>
          pc'[t] = pc[t] /\ key'[t] = key[t] /\ mbox'[t] = mbox[t]

LEMMA StillStep ==
    ASSUME Indexed, Still
    PROVE  Indexed'
<1>1. ReaderOK'
  BY DEF Indexed, Still, ReaderOK
<1>2. AddressOK'
  BY DEF Indexed, Still, AddressOK
<1>3. FoundOK'
  BY DEF Indexed, Still, FoundOK
<1>4. CacheOK'
  BY DEF Indexed, Still, CacheOK
<1> QED BY <1>1, <1>2, <1>3, <1>4 DEF Indexed

\* What a thread does to the mutex of its process.
LEMMA LockStep ==
    ASSUME LockOK, MemoryTypeOK, NEW t \in Thread,
           \A u \in Thread \ {t} : pc'[u] = pc[u],
           \/ UNCHANGED lock /\ (pc'[t] \in Critical <=> pc[t] \in Critical)
           \/ Free(t) /\ Acquire(t) /\ pc'[t] \in Critical
           \/ pc[t] \in Critical /\ Release(t) /\ pc'[t] \notin Critical
    PROVE  LockOK'
<1>1. NoThread \notin Thread /\ \A u \in Thread : ProcOf[u] \in Proc
  BY ConstantsAssumption
<1>2. CASE UNCHANGED lock /\ (pc'[t] \in Critical <=> pc[t] \in Critical)
  BY <1>2 DEF LockOK
<1>3. CASE Free(t) /\ Acquire(t) /\ pc'[t] \in Critical
  <2>1. \A p \in Proc : lock'[p] = IF p = ProcOf[t] THEN t ELSE lock[p]
    BY <1>3 DEF Acquire, MemoryTypeOK
  <2> QED BY <1>1, <1>3, <2>1 DEF LockOK, Free
<1>4. CASE pc[t] \in Critical /\ Release(t) /\ pc'[t] \notin Critical
  <2>1. \A p \in Proc : lock'[p] = IF p = ProcOf[t] THEN NoThread ELSE lock[p]
    BY <1>4 DEF Release, MemoryTypeOK
  <2> QED BY <1>1, <1>4, <2>1 DEF LockOK
<1> QED BY <1>2, <1>3, <1>4

\* A thread that is neither in the mutex nor in the purge after its step, which leaves
\* buckets and memory alone.
Roams(t) ==
    /\ UNCHANGED <<adminKV, readerKV, addressKV, revived, lock, cached, cachedAddr>>
    /\ \A p \in Proc : Known(owned'[p])
    /\ pc[t] \notin Critical /\ pc'[t] \notin Critical \cup PurgeLabels
    /\ Known(mbox'[t]) /\ todo'[t] \subseteq todo[t]
    /\ \A u \in Thread \ {t} : /\ pc'[u] = pc[u] /\ key'[u] = key[u]
                               /\ mbox'[u] = mbox[u] /\ todo'[u] = todo[u]

LEMMA RoamsStep ==
    ASSUME IndexInv, MemoryTypeOK, NEW t \in Thread, Roams(t)
    PROVE  IndexInv'
<1>1. LockOK'
  BY LockStep DEF IndexInv, Roams
<1>2. PurgeOK'
  BY DEF IndexInv, Roams, PurgeOK, PurgeLabels, Deleting
<1>3. CreateOK'
  BY DEF IndexInv, Roams, CreateOK, Critical
<1>4. Addressed'
  <2>1. Keeps
    BY ObjectMembers DEF Roams, Keeps
  <2> QED BY <2>1, KeepsAddressed DEF IndexInv, Roams
<1>5. Indexed'
  <2>1. Still
    BY DEF Roams, Still, Critical
  <2> QED BY <2>1, StillStep DEF IndexInv
<1> QED BY <1>1, <1>2, <1>3, <1>4, <1>5 DEF IndexInv

\* Whoever returns from outside of the mutex roams.
LEMMA ReturnRoams ==
    ASSUME LocalTypeOK, NEW t \in Thread, Return(t), pc[t] \notin Critical,
           UNCHANGED <<adminKV, readerKV, addressKV, revived, lock, cached, cachedAddr>>,
           \A p \in Proc : Known(owned'[p])
    PROVE  Roams(t)
<1>1. /\ pc'[t] = "idle" /\ mbox'[t] = NoMbox /\ todo'[t] = {}
      /\ \A u \in Thread \ {t} : /\ pc'[u] = pc[u] /\ key'[u] = key[u]
                                 /\ mbox'[u] = mbox[u] /\ todo'[u] = todo[u]
  BY DEF Return, LocalTypeOK
<1> QED BY <1>1, ObjectMembers DEF Roams, Critical, PurgeLabels

\* A step that changes neither the buckets' keys nor who is where.
LEMMA QuietIndex ==
    ASSUME IndexInv, Still, Keeps, LockOK', PurgeOK', CreateOK'
    PROVE  IndexInv'
<1>1. Addressed'
  BY KeepsAddressed DEF IndexInv, Still
<1> QED BY <1>1, StillStep DEF IndexInv

\* The threads in the mutex or in the purge stay where they are, and nobody joins them.
NobodyEnters ==
    \A t \in Thread :
        \/ pc'[t] = pc[t] /\ key'[t] = key[t] /\ mbox'[t] = mbox[t] /\ todo'[t] = todo[t]
        \/ /\ pc[t] \notin Critical \cup PurgeLabels /\ pc'[t] \notin Critical \cup PurgeLabels
           /\ todo'[t] \subseteq todo[t]

LEMMA NobodyPurges ==
    ASSUME StoreTypeOK, LocalTypeOK, LocalsOK, PurgeOK, NobodyEnters,
           \A a \in AdminKey : adminKV[a] # NoMbox => adminKV'[a] # NoMbox
    PROVE  PurgeOK'
<1> SUFFICES ASSUME NEW t \in Thread
             PROVE  /\ pc'[t] \in PurgeLabels \/ todo'[t] # {} => t \in PurgeThread
                    /\ \A a \in todo'[t] : adminKV'[a] # NoMbox
                    /\ pc'[t] \in Deleting =>
                         adminKV'[mbox'[t].key] # NoMbox /\ mbox'[t].key \notin todo'[t]
  BY DEF PurgeOK
<1>1. todo[t] \subseteq AdminKey /\ (pc[t] \in Deleting => mbox[t].key \in AdminKey)
  BY MailboxFields DEF LocalTypeOK, LocalsOK, WithMbox, Deleting
<1>2. /\ todo'[t] \subseteq todo[t]
      /\ pc'[t] \in PurgeLabels => pc'[t] = pc[t] /\ mbox'[t] = mbox[t] /\ todo'[t] = todo[t]
  BY DEF NobodyEnters
<1>3. pc'[t] \in PurgeLabels \/ todo'[t] # {} => t \in PurgeThread
  BY <1>2 DEF PurgeOK
<1>4. \A a \in todo'[t] : adminKV'[a] # NoMbox
  BY <1>1, <1>2 DEF PurgeOK
<1>5. pc'[t] \in Deleting => adminKV'[mbox'[t].key] # NoMbox /\ mbox'[t].key \notin todo'[t]
  BY <1>1, <1>2 DEF PurgeOK, PurgeLabels, Deleting
<1> QED BY <1>3, <1>4, <1>5

\* UpdateMailbox, as AddChannel and the keep-alive call it, whatever has become of m.
LEMMA PutBack ==
    ASSUME Undisturbed, IInv, IndexInv, NEW p \in Proc, NEW m \in Mailbox, Known(m),
           UpdateMailbox(p, m), UNCHANGED <<readerKV, addressKV, lock, cached, cachedAddr>>,
           \A q \in Proc : Known(owned'[q]), \A t \in Thread : Known(mbox'[t]), NobodyEnters
    PROVE  IndexInv'
<1> USE NoMboxAssumption
<1>0. /\ StoreTypeOK /\ LocalTypeOK /\ LocalsOK /\ LockOK /\ PurgeOK /\ CreateOK /\ Addressed /\ Indexed /\ KeysMatch
      /\ ReaderOK /\ AddressOK /\ FoundOK /\ CacheOK /\ OneAddress
  BY DEF IInv, TypeInv, TypeOK, IndexInv, Indexed, Addressed
<1>1. /\ adminKV' = [adminKV EXCEPT ![m.key] = m]
      /\ revived' = revived \cup {x \in {m.address} : adminKV[m.key] = NoMbox}
  BY DEF UpdateMailbox, Undisturbed, Fails
<1>2. m.key \in AdminKey /\ m.address \in Address /\ m # NoMbox
  BY MailboxFields
<1>3. \A a \in AdminKey : adminKV'[a] = IF a = m.key THEN m ELSE adminKV[a]
  BY <1>0, <1>1 DEF StoreTypeOK
<1>4. \A t \in Thread : pc[t] \notin Critical
  BY <1>0, Inside DEF UpdateMailbox
<1>5. \A t \in Thread : pc'[t] \notin Critical
  BY <1>4 DEF NobodyEnters
<1>6. LockOK'
  BY <1>0, <1>4, <1>5 DEF LockOK
<1>7. PurgeOK'
  BY <1>0, <1>2, <1>3, NobodyPurges
<1>8. CreateOK'
  BY <1>5 DEF CreateOK, Critical
<1>9. Addressed'
  <2>1. Keeps
    BY <1>3, ObjectMembers DEF Keeps
  <2> QED BY <1>0, <2>1, KeepsAddressed
<1>10. ReaderOK'
  BY <1>0, <1>2, <1>3, <1>4 DEF ReaderOK, Critical, StoreTypeOK
<1>11. AddressOK'
  BY <1>0, <1>4 DEF AddressOK, Critical
<1>12. FoundOK'
  <2> SUFFICES ASSUME NEW a \in AdminKey, adminKV'[a] # NoMbox, adminKV'[a].address \notin revived'
               PROVE  a \in readerKV /\ addressKV[adminKV'[a].address] = a
    BY DEF FoundOK
  <2>1. adminKV[a] # NoMbox
    BY <1>1, <1>2, <1>3
  <2>2. adminKV'[a].address = adminKV[a].address
    <3>1. CASE a # m.key
      BY <1>3, <3>1
    <3>2. CASE a = m.key
      <4>1. PICK n \in Objects : n.key = m.key /\ n.address = m.address
        BY <1>2 DEF Known
      <4>2. adminKV[a] \in Objects /\ adminKV[a].key = a
        BY <1>0, <2>1 DEF Objects, KeysMatch
      <4> QED BY <1>0, <1>3, <3>2, <4>1, <4>2 DEF OneAddress
    <3> QED BY <3>1, <3>2
  <2> QED BY <1>0, <1>1, <1>4, <2>1, <2>2 DEF FoundOK, Critical
<1>13. CacheOK'
  BY <1>0, <1>1, <1>4 DEF CacheOK, Critical
<1> QED BY <1>6, <1>7, <1>8, <1>9, <1>10, <1>11, <1>12, <1>13 DEF IndexInv, Indexed

\* The steps of a creation and of a lookup, and the purge, by the one thread inside.
LEMMA LookupIndex ==
    ASSUME Undisturbed, IInv, IndexInv, NEW t \in Thread, LookupRW(t)
    PROVE  IndexInv'
<1>0. /\ StoreTypeOK /\ MemoryTypeOK /\ LocalTypeOK /\ LocalsOK
      /\ LockOK /\ PurgeOK /\ CreateOK /\ AddressOK
  BY DEF IInv, TypeInv, TypeOK, IndexInv, Indexed
<1>1. Known(Hit(ProcOf[t], key[t], addr[t]))
  BY <1>0, ConstantsAssumption, HitKnown DEF LookupRW, LocalTypeOK, LocalsOK
<1>2. /\ pc[t] = "lookupRW" /\ Free(t)
      /\ UNCHANGED <<adminKV, readerKV, addressKV, revived, cached, cachedAddr>>
  BY DEF LookupRW, store
<1>3. CASE lock' = lock /\ Return(t) /\ Own(t, Hit(ProcOf[t], key[t], addr[t]))
  <2>1. Roams(t)
    BY <1>0, <1>1, <1>2, <1>3, OwnKnown, ReturnRoams DEF Critical
  <2> QED BY <1>0, <2>1, RoamsStep
<1>4. CASE UNCHANGED <<lock, owned>> /\ LookupMiss(t)
  <2>1. CASE Return(t)
    <3>1. Roams(t)
      BY <1>0, <1>2, <1>4, <2>1, ObjectMembers, ReturnRoams DEF Critical
    <3> QED BY <1>0, <3>1, RoamsStep
  <2>2. CASE ~ Return(t)
    <3>1. /\ pc' = [pc EXCEPT ![t] = "createCheck"] /\ key' = [key EXCEPT ![t] = NoKey]
          /\ UNCHANGED <<mbox, todo>>
      BY <1>4, <2>2 DEF LookupMiss, Goto
    <3>2. Roams(t)
      BY <1>0, <1>2, <1>4, <3>1, ObjectMembers DEF Roams, Critical, PurgeLabels, LocalTypeOK
    <3> QED BY <1>0, <3>2, RoamsStep
  <2> QED BY <2>1, <2>2
<1>5. CASE /\ RWGet(key[t], addr[t]) # NoKey /\ Acquire(t)
           /\ pc' = [pc EXCEPT ![t] = "lookupAdmin"]
           /\ key' = [key EXCEPT ![t] = RWGet(key[t], addr[t])]
           /\ UNCHANGED <<owned, mbox, todo>>
  <2>1. /\ pc'[t] = "lookupAdmin" /\ key'[t] = RWGet(key[t], addr[t])
        /\ \A u \in Thread \ {t} : pc'[u] = pc[u] /\ key'[u] = key[u]
    BY <1>0, <1>5 DEF LocalTypeOK
  <2>2. \A u \in Thread : pc[u] \notin Critical
    BY <1>0, <1>2, Inside
  <2>3. LockOK'
    BY <1>0, <1>2, <1>5, <2>1, LockStep DEF Critical
  <2>4. PurgeOK'
    BY <1>0, <1>2, <1>5, <2>1 DEF PurgeOK, PurgeLabels, Deleting
  <2>5. key'[t] \in readerKV
    <3>1. CASE addr[t] = NoKey
      BY <1>5, <2>1, <3>1 DEF RWGet
    <3>2. CASE addr[t] # NoKey
      BY <1>0, <1>5, <2>1, <2>2, <3>2 DEF RWGet, AddressOK, Critical, LocalTypeOK
    <3> QED BY <3>1, <3>2
  <2>6. CreateOK'
    BY <1>0, <1>2, <2>1, <2>2, <2>5 DEF CreateOK, Critical
  <2>7. Still
    BY <1>2, <2>2 DEF Still, Critical
  <2>8. Keeps
    BY <1>2, <1>5, ObjectMembers DEF Keeps
  <2> QED BY <2>3, <2>4, <2>6, <2>7, <2>8, QuietIndex
<1> QED BY <1>3, <1>4, <1>5 DEF LookupRW, Goto, Undisturbed, Fails

LEMMA LookupAdminIndex ==
    ASSUME Undisturbed, IInv, IndexInv, NEW t \in Thread, LookupAdmin(t)
    PROVE  IndexInv'
<1> DEFINE p == ProcOf[t]
           m == adminKV[key[t]]
<1>0. /\ StoreTypeOK /\ MemoryTypeOK /\ LocalTypeOK /\ LocalsOK /\ KeysMatch
      /\ LockOK /\ PurgeOK /\ CreateOK /\ Addressed /\ Indexed
      /\ ReaderOK /\ AddressOK /\ FoundOK /\ CacheOK
  BY DEF IInv, TypeInv, TypeOK, IndexInv, Indexed
<1>1. /\ pc[t] = "lookupAdmin" /\ Release(t)
      /\ UNCHANGED <<adminKV, readerKV, addressKV, revived>>
  BY DEF LookupAdmin, store
<1>2. key[t] \in AdminKey /\ key[t] \in readerKV /\ p \in Proc
  BY <1>0, <1>1, ConstantsAssumption DEF LocalTypeOK, LocalsOK, WithKey, CreateOK
<1>3. Known(m) /\ (m # NoMbox => m \in Mailbox /\ m.key = key[t])
  BY <1>0, <1>2, ObjectMembers DEF StoreTypeOK, KeysMatch
<1>4. \/ UNCHANGED <<cached, cachedAddr, owned>> /\ LookupMiss(t)
      \/ /\ m # NoMbox /\ Own(t, m) /\ Return(t)
         /\ cached' = [cached EXCEPT ![p][m.key] = m]
         /\ cachedAddr' = [cachedAddr EXCEPT ![p][m.address] = m.key]
  BY DEF LookupAdmin, FetchMailboxByAdminKey, Undisturbed
<1> HIDE DEF m
<1>5. \A u \in Thread \ {t} : pc[u] \notin Critical
  BY <1>0, <1>1, Inside DEF Critical
<1>6. /\ pc'[t] \in {"idle", "createCheck"}
      /\ \A u \in Thread \ {t} : /\ pc'[u] = pc[u] /\ key'[u] = key[u]
                                 /\ mbox'[u] = mbox[u] /\ todo'[u] = todo[u]
      /\ mbox'[t] \in {mbox[t], NoMbox} /\ todo'[t] \in {todo[t], {}}
  BY <1>0, <1>4 DEF LookupMiss, Return, Goto, LocalTypeOK
<1>7. LockOK'
  BY <1>0, <1>1, <1>6, LockStep DEF Critical
<1>8. PurgeOK'
  BY <1>0, <1>1, <1>6 DEF PurgeOK, PurgeLabels, Deleting
<1>9. CreateOK'
  BY <1>5, <1>6 DEF CreateOK, Critical
<1>10. Addressed'
  <2>1. \A q \in Proc : Known(owned'[q])
    BY <1>0, <1>3, <1>4, ObjectMembers, OwnKnown
  <2>2. \A q \in Proc, a \in AdminKey : Known(cached'[q][a])
    <3>1. CASE UNCHANGED cached
      BY <3>1, ObjectMembers
    <3>2. CASE m # NoMbox /\ cached' = [cached EXCEPT ![p][m.key] = m]
      <4>1. \A q \in Proc, a \in AdminKey : cached'[q][a] \in {cached[q][a], m}
        BY <1>0, <1>2, <3>2 DEF MemoryTypeOK
      <4> QED BY <1>3, <4>1, ObjectMembers
    <3> QED BY <1>4, <3>1, <3>2
  <2>3. Keeps
    BY <1>1, <1>6, <2>1, <2>2, ObjectMembers DEF Keeps
  <2> QED BY <1>0, <1>1, <2>3, KeepsAddressed
<1>11. ReaderOK' /\ AddressOK' /\ FoundOK'
  <2>1. ReaderOK'
    BY <1>0, <1>1, <1>5, <1>6 DEF ReaderOK, Critical
  <2>2. AddressOK'
    BY <1>0, <1>1, <1>5, <1>6 DEF AddressOK, Critical
  <2>3. FoundOK'
    BY <1>0, <1>1, <1>5, <1>6 DEF FoundOK, Critical
  <2> QED BY <2>1, <2>2, <2>3
<1>12. CacheOK'
  <2>1. \A u \in Thread : pc[u] \notin {"purgeAddress", "purgeAdmin"}
    BY <1>1, <1>5 DEF Critical
  <2>2. CASE UNCHANGED <<cached, cachedAddr>>
    BY <1>0, <1>1, <2>1, <2>2 DEF CacheOK
  <2>3. CASE /\ m # NoMbox /\ cached' = [cached EXCEPT ![p][m.key] = m]
             /\ cachedAddr' = [cachedAddr EXCEPT ![p][m.address] = m.key]
    <3>1. m.key \in readerKV /\ (m.address \notin revived => addressKV[m.address] = m.key)
      BY <1>0, <1>2, <1>3, <2>1, <2>3 DEF FoundOK, m
    <3>2. \A q \in Proc, a \in AdminKey : cached'[q][a] # NoMbox => cached[q][a] # NoMbox \/ a = m.key
      BY <1>0, <1>2, <2>3 DEF MemoryTypeOK
    <3>3. \A q \in Proc, x \in Address :
             \/ cachedAddr'[q][x] = cachedAddr[q][x]
             \/ x = m.address /\ cachedAddr'[q][x] = m.key
      BY <1>0, <1>2, <2>3 DEF MemoryTypeOK
    <3> QED BY <1>0, <1>1, <2>1, <3>1, <3>2, <3>3 DEF CacheOK
  <2> QED BY <1>4, <2>2, <2>3
<1> QED BY <1>7, <1>8, <1>9, <1>10, <1>11, <1>12 DEF IndexInv, Indexed

LEMMA CreateCheckIndex ==
    ASSUME Undisturbed, IInv, IndexInv, NEW t \in Thread, NEW a \in AdminKey, CreateCheck(t, a)
    PROVE  IndexInv'
<1> DEFINE x == IF addr[t] = NoKey THEN a ELSE addr[t]
           m == [key |-> a, address |-> x, channels |-> {}, lastActivity |-> clock]
<1>0. /\ StoreTypeOK /\ MemoryTypeOK /\ LocalTypeOK /\ LocalsOK
      /\ SharedSound /\ CreatingAlone /\ KeysMatch /\ readerKV \subseteq issued
      /\ LockOK /\ PurgeOK /\ CreateOK /\ OneAddress /\ AddressesMatch /\ Indexed /\ AddressOK
  BY DEF IInv, TypeInv, TypeOK, IndexInv, Addressed, Indexed
<1>1. /\ pc[t] = "createCheck" /\ Free(t) /\ a \notin issued
      /\ UNCHANGED <<adminKV, readerKV, addressKV, revived, cached, cachedAddr, owned>>
  BY DEF CreateCheck, store
<1>2. CASE Return(t) /\ lock' = lock
  <2>1. Roams(t)
    BY <1>0, <1>1, <1>2, ObjectMembers, ReturnRoams DEF Critical
  <2> QED BY <1>0, <2>1, RoamsStep
<1>3. CASE ~ (Return(t) /\ lock' = lock)
  <2>1. /\ addressKV[x] = NoKey
        /\ Acquire(t) /\ pc' = [pc EXCEPT ![t] = "createChannels"]
        /\ key' = [key EXCEPT ![t] = a]
        /\ mbox' = [mbox EXCEPT ![t] = m]
        /\ todo' = todo
    BY <1>3 DEF CreateCheck, Goto, Undisturbed, Fails
  <2>2. m.key = a /\ m.address = x
    OBVIOUS
  <2> HIDE DEF m, x
  <2>3. /\ pc'[t] = "createChannels" /\ key'[t] = a /\ mbox'[t] = m
        /\ \A u \in Thread \ {t} : pc'[u] = pc[u] /\ key'[u] = key[u] /\ mbox'[u] = mbox[u]
    BY <1>0, <2>1 DEF LocalTypeOK
  <2>4. \A u \in Thread : pc[u] \notin Critical
    BY <1>0, <1>1, Inside
  <2>5. LockOK'
    BY <1>0, <1>1, <2>1, <2>3, LockStep DEF Critical
  <2>6. PurgeOK'
    BY <1>0, <1>1, <2>1, <2>3 DEF PurgeOK, PurgeLabels, Deleting
  <2>7. CreateOK'
    BY <1>1, <2>1, <2>2, <2>3, <2>4 DEF CreateOK, Critical
  <2>8. Objects' \subseteq Objects \cup {m}
    BY <1>1, <2>3 DEF Objects
  <2>9. \A n \in Objects : n.key # a
    <3>1. Objects \subseteq Shared \cup {mbox[u] : u \in {v \in Thread : pc[v] = "createChannels"}}
      BY DEF Objects, Shared
    <3>2. \A u \in Thread : pc[u] # "createChannels"
      BY <2>4 DEF Critical
    <3> QED BY <1>0, <1>1, <3>1, <3>2 DEF SharedSound
  <2>10. \A y \in Address : addressKV[y] # a
    <3> SUFFICES ASSUME NEW y \in Address, addressKV[y] = a PROVE FALSE
      OBVIOUS
    <3>1. a # NoKey
      BY ConstantsAssumption DEF Address
    <3> QED BY <1>0, <1>1, <2>4, <3>1 DEF AddressOK, Critical
  <2>11. OneAddress'
    BY <1>0, <2>2, <2>8, <2>9 DEF OneAddress
  <2>12. AddressesMatch'
    BY <1>0, <1>1, <2>2, <2>8, <2>10 DEF AddressesMatch
  <2>13. Still
    BY <1>1, <2>4 DEF Still, Critical
  <2> QED BY <1>0, <2>5, <2>6, <2>7, <2>11, <2>12, <2>13, StillStep DEF IndexInv, Addressed
<1> QED BY <1>2, <1>3

LEMMA CreateIndex ==
    ASSUME Undisturbed, IInv, IndexInv, NEW t \in Thread,
           (\E c \in Channel : CreateChannel(t, c)) \/ PutReader(t) \/ PutAddress(t) \/ PutAdmin(t)
    PROVE  IndexInv'
<1>0. /\ StoreTypeOK /\ MemoryTypeOK /\ LocalTypeOK /\ LocalsOK /\ KeysMatch
      /\ LockOK /\ PurgeOK /\ CreateOK /\ Addressed /\ OneAddress /\ Indexed
      /\ ReaderOK /\ AddressOK /\ FoundOK /\ CacheOK
  BY DEF IInv, TypeInv, TypeOK, IndexInv, Addressed, Indexed
<1>1. pc[t] \in Creating
  BY DEF CreateChannel, PutReader, PutAddress, PutAdmin, Creating
<1>2. \A u \in Thread \ {t} : pc[u] \notin Critical
  BY <1>0, <1>1, Inside DEF Critical, Creating
<1>3. \A u \in Thread : pc[u] \notin {"purgeAddress", "purgeAdmin"}
  BY <1>1, <1>2 DEF Critical, Creating
<1>4. /\ mbox[t] \in Mailbox /\ mbox[t] \in Objects /\ Known(mbox[t])
      /\ key[t] \in AdminKey /\ mbox[t].key = key[t] /\ mbox[t].address \in Address
  BY <1>0, <1>1, NoMboxAssumption, MailboxFields, ObjectMembers
     DEF LocalTypeOK, LocalsOK, WithMbox, WithKey, Creating, KeysMatch, Objects
<1>5. ASSUME NEW c \in Channel, CreateChannel(t, c), Return(t) PROVE IndexInv'
  <2>1. /\ pc[t] = "createChannels"
        /\ UNCHANGED <<adminKV, readerKV, addressKV, revived, cached, cachedAddr, owned>>
    BY <1>5 DEF CreateChannel
  <2>2. /\ pc'[t] = "idle" /\ mbox'[t] = NoMbox /\ todo'[t] = {}
        /\ \A u \in Thread \ {t} : /\ pc'[u] = pc[u] /\ key'[u] = key[u]
                                   /\ mbox'[u] = mbox[u] /\ todo'[u] = todo[u]
    BY <1>0, <1>5 DEF Return, LocalTypeOK
  <2>3. Release(t)
    BY <1>5, <2>1, <2>2 DEF CreateChannel
  <2>4. LockOK'
    BY <1>0, <2>1, <2>2, <2>3, LockStep DEF Critical
  <2>5. PurgeOK'
    BY <1>0, <2>1, <2>2 DEF PurgeOK, PurgeLabels, Deleting
  <2>6. CreateOK'
    BY <1>2, <2>2 DEF CreateOK, Critical
  <2>7. Still /\ Keeps
    BY <1>3, <2>1, <2>2, ObjectMembers DEF Still, Keeps
  <2> QED BY <2>4, <2>5, <2>6, <2>7, QuietIndex
<1>6. ASSUME NEW c \in Channel, CreateChannel(t, c), ~ Return(t) PROVE IndexInv'
  <2>1. /\ mbox' = [mbox EXCEPT ![t].channels = @ \cup {c}]
        /\ UNCHANGED <<adminKV, readerKV, addressKV, revived, cached, cachedAddr, owned,
                       lock, pc, key, todo>>
        /\ pc[t] = "createChannels"
    BY <1>6 DEF CreateChannel
  <2>2. /\ mbox'[t].key = mbox[t].key /\ mbox'[t].address = mbox[t].address
        /\ \A u \in Thread \ {t} : mbox'[u] = mbox[u]
    BY <1>0, <1>4, <2>1 DEF LocalTypeOK, Mailbox
  <2>3. Known(mbox'[t])
    BY <1>0, <1>4, <2>1, FieldsKnown DEF LocalTypeOK
  <2>4. LockOK' /\ PurgeOK'
    BY <1>0, <2>1, <2>2 DEF LockOK, PurgeOK, PurgeLabels, Deleting
  <2>5. CreateOK'
    BY <1>0, <1>2, <2>1, <2>2 DEF CreateOK, Critical
  <2>6. Still /\ Keeps
    BY <1>3, <2>1, <2>2, <2>3, ObjectMembers DEF Still, Keeps
  <2> QED BY <2>4, <2>5, <2>6, QuietIndex
<1>7. ASSUME PutReader(t) PROVE IndexInv'
  <2>1. /\ pc[t] = "createChannels" /\ pc' = [pc EXCEPT ![t] = "putAddress"]
        /\ readerKV' = readerKV \cup {key[t]}
        /\ UNCHANGED <<adminKV, addressKV, revived, memory, key, mbox, todo>>
    BY <1>7 DEF PutReader, Goto, Undisturbed, Fails
  <2>2. pc'[t] = "putAddress" /\ \A u \in Thread \ {t} : pc'[u] = pc[u]
    BY <1>0, <2>1 DEF LocalTypeOK
  <2>3. LockOK'
    BY <1>0, <2>1, <2>2, LockStep DEF memory, Critical
  <2>4. PurgeOK'
    BY <1>0, <2>1, <2>2 DEF PurgeOK, PurgeLabels, Deleting
  <2>5. CreateOK'
    BY <1>0, <1>2, <2>1, <2>2 DEF CreateOK, Critical
  <2>6. Addressed'
    <3>1. Keeps
      BY <2>1, ObjectMembers DEF Keeps, memory
    <3> QED BY <1>0, <2>1, <3>1, KeepsAddressed
  <2>7. ReaderOK'
    BY <1>0, <1>1, <1>2, <2>1, <2>2 DEF ReaderOK, Critical
  <2>8. AddressOK' /\ FoundOK' /\ CacheOK'
    BY <1>0, <1>3, <2>1, <2>2 DEF AddressOK, FoundOK, CacheOK, memory
  <2> QED BY <2>3, <2>4, <2>5, <2>6, <2>7, <2>8 DEF IndexInv, Indexed
<1>8. ASSUME PutAddress(t) PROVE IndexInv'
  <2> DEFINE x == mbox[t].address
  <2>1. /\ pc[t] = "putAddress" /\ pc' = [pc EXCEPT ![t] = "putAdmin"]
        /\ addressKV' = [addressKV EXCEPT ![x] = key[t]]
        /\ UNCHANGED <<adminKV, readerKV, revived, memory, key, mbox, todo>>
    BY <1>8 DEF PutAddress, Goto, Undisturbed, Fails
  <2>2. pc'[t] = "putAdmin" /\ \A u \in Thread \ {t} : pc'[u] = pc[u]
    BY <1>0, <2>1 DEF LocalTypeOK
  <2>3. \A y \in Address : addressKV'[y] = IF y = x THEN key[t] ELSE addressKV[y]
    BY <1>0, <1>4, <2>1 DEF StoreTypeOK
  <2>4. key[t] \in readerKV /\ addressKV[x] = NoKey
    BY <1>0, <2>1 DEF CreateOK
  <2>5. LockOK'
    BY <1>0, <2>1, <2>2, LockStep DEF memory, Critical
  <2>6. PurgeOK'
    BY <1>0, <2>1, <2>2 DEF PurgeOK, PurgeLabels, Deleting
  <2>7. CreateOK'
    BY <1>2, <1>4, <2>1, <2>2, <2>3, <2>4 DEF CreateOK, Critical
  <2>8. Objects' = Objects
    BY <2>1 DEF Objects, memory
  <2>9. Addressed'
    BY <1>0, <1>4, <2>3, <2>8 DEF Addressed, OneAddress, AddressesMatch
  <2>10. ReaderOK'
    BY <1>0, <2>1, <2>2 DEF ReaderOK
  <2>11. AddressOK'
    BY <1>0, <1>3, <2>1, <2>3, <2>4 DEF AddressOK
  <2>12. FoundOK'
    <3> SUFFICES ASSUME NEW a \in AdminKey, adminKV[a] # NoMbox, adminKV[a].address \notin revived
                 PROVE  a \in readerKV /\ addressKV'[adminKV[a].address] = a
      BY <2>1 DEF FoundOK
    <3>1. a \in readerKV /\ addressKV[adminKV[a].address] = a
      BY <1>0, <1>3 DEF FoundOK
    <3>2. adminKV[a].address \in Address /\ a # NoKey
      BY <1>0, MailboxFields, ConstantsAssumption DEF StoreTypeOK, Address
    <3> QED BY <2>3, <2>4, <3>1, <3>2
  <2>13. CacheOK'
    BY <1>0, <1>3, <2>1, <2>3, <2>4 DEF CacheOK, memory
  <2> QED BY <2>5, <2>6, <2>7, <2>9, <2>10, <2>11, <2>12, <2>13 DEF IndexInv, Indexed
<1>9. ASSUME PutAdmin(t) PROVE IndexInv'
  <2>1. /\ pc[t] = "putAdmin" /\ adminKV' = [adminKV EXCEPT ![key[t]] = mbox[t]]
        /\ Own(t, [mbox[t] EXCEPT !.lastActivity = clock]) /\ Release(t) /\ Return(t)
        /\ UNCHANGED <<readerKV, addressKV, revived, cached, cachedAddr>>
    BY <1>9 DEF PutAdmin, Undisturbed, Fails
  <2>2. /\ pc'[t] = "idle" /\ mbox'[t] = NoMbox /\ todo'[t] = {}
        /\ \A u \in Thread \ {t} : /\ pc'[u] = pc[u] /\ key'[u] = key[u]
                                   /\ mbox'[u] = mbox[u] /\ todo'[u] = todo[u]
    BY <1>0, <2>1 DEF Return, LocalTypeOK
  <2>3. \A a \in AdminKey : adminKV'[a] = IF a = key[t] THEN mbox[t] ELSE adminKV[a]
    BY <1>0, <2>1 DEF StoreTypeOK
  <2>4. \A a \in AdminKey : adminKV[a] # NoMbox => adminKV'[a] # NoMbox
    BY <1>4, <2>3, NoMboxAssumption
  <2>5. LockOK'
    BY <1>0, <2>1, <2>2, LockStep DEF Critical
  <2>6. PurgeOK'
    <3>1. \A u \in Thread : /\ todo[u] \subseteq AdminKey
                            /\ pc[u] \in Deleting => mbox[u].key \in AdminKey
      BY <1>0, MailboxFields DEF LocalTypeOK, LocalsOK, WithMbox, Deleting
    <3> QED BY <1>0, <2>2, <2>4, <3>1 DEF PurgeOK, PurgeLabels, Deleting
  <2>7. CreateOK'
    BY <1>2, <2>2 DEF CreateOK, Critical
  <2>8. Addressed'
    <3>1. Keeps
      BY <1>0, <1>4, <2>1, <2>2, <2>3, ObjectMembers, OwnKnown, FieldsKnown DEF Keeps
    <3> QED BY <1>0, <2>1, <3>1, KeepsAddressed
  <2>9. ReaderOK'
    BY <1>0, <1>1, <1>2, <1>4, <2>1, <2>3, <2>4, NoMboxAssumption DEF ReaderOK, Critical, StoreTypeOK
  <2>10. AddressOK'
    BY <1>0, <1>3, <2>1 DEF AddressOK
  <2>11. FoundOK'
    BY <1>0, <1>3, <1>4, <2>1, <2>3 DEF FoundOK, CreateOK
  <2>12. CacheOK'
    BY <1>0, <1>3, <2>1 DEF CacheOK
  <2> QED BY <2>5, <2>6, <2>7, <2>8, <2>9, <2>10, <2>11, <2>12 DEF IndexInv, Indexed
<1> QED BY <1>5, <1>7, <1>8, <1>9, <1>6

LEMMA PurgeIndex ==
    ASSUME Undisturbed, IInv, IndexInv, NEW t \in Thread,
           PurgeReader(t) \/ PurgeAddress(t) \/ PurgeAdmin(t)
    PROVE  IndexInv'
<1> DEFINE k == mbox[t].key
           x == mbox[t].address
<1>0. /\ StoreTypeOK /\ MemoryTypeOK /\ LocalTypeOK /\ LocalsOK /\ KeysMatch /\ PurgingUnreachable
      /\ LockOK /\ PurgeOK /\ CreateOK /\ Addressed /\ OneAddress /\ AddressesMatch /\ Indexed
      /\ ReaderOK /\ AddressOK /\ FoundOK /\ CacheOK
  BY DEF IInv, TypeInv, TypeOK, IndexInv, Addressed, Indexed
<1>1. pc[t] \in Deleting
  BY DEF PurgeReader, PurgeAddress, PurgeAdmin, Deleting
<1>2. \A u \in Thread \ {t} : pc[u] \notin Critical
  BY <1>0, Inside DEF PurgeReader, PurgeAddress, PurgeAdmin, Critical
<1>3. \A u \in Thread \ {t} : pc[u] \notin PurgeLabels /\ todo[u] = {}
  BY <1>0, <1>1 DEF PurgeOK, PurgeLabels, Deleting, Undisturbed
<1>4. /\ mbox[t] \in Mailbox /\ mbox[t] \in Objects /\ k \in AdminKey /\ x \in Address
      /\ adminKV[k] # NoMbox /\ k \notin todo[t]
  BY <1>0, <1>1, NoMboxAssumption, MailboxFields
     DEF LocalTypeOK, LocalsOK, WithMbox, Deleting, Objects, PurgeOK
<1> HIDE DEF k, x
<1>5. ASSUME PurgeReader(t) PROVE IndexInv'
  <2>1. /\ pc[t] = "purgeReader" /\ Free(t) /\ Acquire(t)
        /\ pc' = [pc EXCEPT ![t] = "purgeAddress"] /\ readerKV' = readerKV \ {k}
        /\ UNCHANGED <<adminKV, addressKV, revived, cached, cachedAddr, owned, key, mbox, todo>>
    BY <1>5 DEF PurgeReader, Goto, Undisturbed, Fails, k
  <2>2. pc'[t] = "purgeAddress" /\ \A u \in Thread \ {t} : pc'[u] = pc[u]
    BY <1>0, <2>1 DEF LocalTypeOK
  <2>3. \A u \in Thread : pc[u] \notin Critical
    BY <1>2, <2>1 DEF Critical
  <2>4. LockOK'
    BY <1>0, <2>1, <2>2, LockStep DEF Critical
  <2>5. PurgeOK'
    BY <1>0, <2>1, <2>2 DEF PurgeOK, PurgeLabels, Deleting
  <2>6. CreateOK'
    BY <1>2, <2>2 DEF CreateOK, Critical
  <2>7. Addressed'
    <3>1. Keeps
      BY <2>1, ObjectMembers DEF Keeps
    <3> QED BY <1>0, <2>1, <3>1, KeepsAddressed
  <2>8. ReaderOK'
    BY <1>0, <2>1, <2>3 DEF ReaderOK, Critical
  <2>9. AddressOK'
    BY <1>0, <2>1, <2>2, <2>3 DEF AddressOK, Critical, k
  <2>10. FoundOK'
    BY <1>0, <2>1, <2>2, <2>3 DEF FoundOK, Critical, k
  <2>11. CacheOK'
    BY <1>0, <2>1, <2>2, <2>3 DEF CacheOK, Critical, k
  <2> QED BY <2>4, <2>5, <2>6, <2>7, <2>8, <2>9, <2>10, <2>11 DEF IndexInv, Indexed
<1>6. ASSUME PurgeAddress(t) PROVE IndexInv'
  <2>1. /\ pc[t] = "purgeAddress" /\ pc' = [pc EXCEPT ![t] = "purgeAdmin"]
        /\ addressKV' = [addressKV EXCEPT ![x] = NoKey]
        /\ UNCHANGED <<adminKV, readerKV, revived, memory, key, mbox, todo>>
    BY <1>6 DEF PurgeAddress, Goto, Undisturbed, Fails, x
  <2>2. pc'[t] = "purgeAdmin" /\ \A u \in Thread \ {t} : pc'[u] = pc[u]
    BY <1>0, <2>1 DEF LocalTypeOK
  <2>3. \A y \in Address : addressKV'[y] = IF y = x THEN NoKey ELSE addressKV[y]
    BY <1>0, <2>1 DEF StoreTypeOK
  <2>4. \A u \in Thread : /\ pc[u] # "purgeAdmin"
                          /\ pc[u] = "purgeAddress" => u = t
    BY <1>2, <2>1 DEF Critical
  <2>5. LockOK'
    BY <1>0, <2>1, <2>2, LockStep DEF memory, Critical
  <2>6. PurgeOK'
    BY <1>0, <2>1, <2>2 DEF PurgeOK, PurgeLabels, Deleting
  <2>7. CreateOK'
    BY <1>2, <2>2 DEF CreateOK, Critical
  <2>8. Addressed'
    <3>1. Keeps
      BY <2>1, ObjectMembers DEF Keeps, memory
    <3>2. \A m \in Objects : m.key # NoKey
      <4>1. Objects \subseteq Mailbox
        BY <1>0 DEF Objects, StoreTypeOK, MemoryTypeOK, LocalTypeOK
      <4> QED BY <4>1, MailboxFields, ConstantsAssumption DEF Address
    <3> QED BY <1>0, <2>3, <3>1, <3>2, KeepsAddressed
  <2>9. ReaderOK'
    BY <1>0, <1>2, <2>1, <2>2 DEF ReaderOK, Critical
  <2>10. AddressOK'
    <3> SUFFICES ASSUME NEW y \in Address, addressKV'[y] # NoKey
                 PROVE  addressKV[y] \in readerKV
      BY <2>1, <2>3 DEF AddressOK
    <3>1. y # x /\ addressKV[y] # NoKey
      BY <2>3
    <3>2. addressKV[y] # k
      BY <1>0, <1>4, <3>1 DEF AddressesMatch, k, x
    <3> QED BY <1>0, <2>4, <3>1, <3>2 DEF AddressOK, k
  <2>11. FoundOK'
    <3> SUFFICES ASSUME NEW a \in AdminKey, adminKV[a] # NoMbox, adminKV[a].address \notin revived
                 PROVE  /\ a \in readerKV \/ k = a
                        /\ addressKV'[adminKV[a].address] = a \/ k = a
      BY <2>1, <2>2 DEF FoundOK, k
    <3>1. a \in readerKV \/ k = a
      BY <1>0, <2>4 DEF FoundOK, k
    <3>2. addressKV[adminKV[a].address] = a
      BY <1>0, <2>4 DEF FoundOK
    <3>3. adminKV[a].address = x => k = a
      <4>1. adminKV[k].address = x
        <5>1. adminKV[k] \in Objects /\ adminKV[k].key = k
          BY <1>0, <1>4 DEF Objects, KeysMatch
        <5> QED BY <1>0, <1>4, <5>1 DEF OneAddress, k, x
      <4> QED BY <1>0, <1>4, <2>4, <3>2, <4>1 DEF FoundOK
    <3>4. adminKV[a].address \in Address
      BY <1>0, MailboxFields DEF StoreTypeOK
    <3> QED BY <2>3, <3>1, <3>2, <3>3, <3>4
  <2>12. CacheOK'
    BY <1>0, <2>1, <2>2, <2>3, <2>4 DEF CacheOK, memory, k, x
  <2> QED BY <2>5, <2>6, <2>7, <2>8, <2>9, <2>10, <2>11, <2>12 DEF IndexInv, Indexed
<1>7. ASSUME PurgeAdmin(t) PROVE IndexInv'
  <2>1. /\ pc[t] = "purgeAdmin" /\ pc' = [pc EXCEPT ![t] = "purgeStreams"] /\ Release(t)
        /\ adminKV' = [adminKV EXCEPT ![k] = NoMbox]
        /\ cached' = [cached EXCEPT ![ProcOf[t]][k] = NoMbox]
        /\ cachedAddr' = [cachedAddr EXCEPT ![ProcOf[t]][x] = NoKey]
        /\ UNCHANGED <<readerKV, addressKV, revived, owned, key, mbox, todo>>
    BY <1>7 DEF PurgeAdmin, Goto, Undisturbed, Fails, k, x
  <2>2. pc'[t] = "purgeStreams" /\ \A u \in Thread \ {t} : pc'[u] = pc[u]
    BY <1>0, <2>1 DEF LocalTypeOK
  <2>3. \A a \in AdminKey : adminKV'[a] = IF a = k THEN NoMbox ELSE adminKV[a]
    BY <1>0, <2>1 DEF StoreTypeOK
  <2>4. /\ \A p \in Proc, a \in AdminKey : cached'[p][a] = IF a = k THEN NoMbox ELSE cached[p][a]
        /\ \A p \in Proc, y \in Address :
              cachedAddr'[p][y] = IF y = x THEN NoKey ELSE cachedAddr[p][y]
    <3>1. \A p \in Proc : p = ProcOf[t]
      BY ConstantsAssumption DEF Undisturbed
    <3> QED BY <1>0, <1>4, <2>1, <3>1 DEF MemoryTypeOK
  <2>5. \A u \in Thread : /\ pc[u] # "purgeAddress"
                          /\ pc[u] = "purgeAdmin" => u = t
    BY <1>2, <2>1 DEF Critical
  <2>6. LockOK'
    BY <1>0, <2>1, <2>2, LockStep DEF Critical
  <2>7. PurgeOK'
    BY <1>0, <1>3, <1>4, <2>1, <2>2, <2>3 DEF PurgeOK, PurgeLabels, Deleting, LocalTypeOK
  <2>8. CreateOK'
    BY <1>2, <2>2 DEF CreateOK, Critical
  <2>9. Addressed'
    <3>1. Keeps
      BY <2>1, <2>3, <2>4, ObjectMembers DEF Keeps
    <3> QED BY <1>0, <2>1, <3>1, KeepsAddressed
  <2>10. ReaderOK'
    <3>1. k \notin readerKV
      BY <1>0, <2>1 DEF PurgingUnreachable, Purging, k
    <3> QED BY <1>0, <1>2, <2>1, <2>2, <2>3, <3>1 DEF ReaderOK, Critical, StoreTypeOK
  <2>11. AddressOK'
    BY <1>0, <2>1, <2>5 DEF AddressOK
  <2>12. FoundOK'
    BY <1>0, <2>1, <2>3, <2>5 DEF FoundOK, k
  <2>13. CacheOK'
    BY <1>0, <2>1, <2>4, <2>5 DEF CacheOK, k, x
  <2> QED BY <2>6, <2>7, <2>8, <2>9, <2>10, <2>11, <2>12, <2>13 DEF IndexInv, Indexed
<1> QED BY <1>5, <1>6, <1>7

\* The rest of the purge loop, outside of the mutex.
LEMMA PassIndex ==
    ASSUME Undisturbed, IInv, IndexInv, NEW t \in Thread,
           \/ PurgeStart(t) \/ PurgeDone(t)
           \/ \E a \in AdminKey : PurgeNext(t, a)
           \/ \E c \in Channel : PurgeStream(t, c)
    PROVE  IndexInv'
<1>0. /\ StoreTypeOK /\ MemoryTypeOK /\ LocalTypeOK /\ LocalsOK /\ KeysMatch
      /\ LockOK /\ PurgeOK /\ CreateOK /\ Addressed /\ Indexed
  BY DEF IInv, TypeInv, TypeOK, IndexInv
<1>1. /\ pc[t] \in {"idle", "purgeNext", "purgeStreams"}
      /\ UNCHANGED <<adminKV, readerKV, addressKV, revived, lock, cached, cachedAddr, owned>>
  BY DEF PurgeStart, PurgeDone, PurgeNext, PurgeStream, store, memory
<1>2. CASE Return(t)
  <2>1. Roams(t)
    BY <1>0, <1>1, <1>2, ObjectMembers, ReturnRoams DEF Critical
  <2> QED BY <1>0, <2>1, RoamsStep
<1>3. ASSUME ~ Return(t),
             /\ t \in PurgeThread
             /\ pc' = [pc EXCEPT ![t] = pc'[t]] /\ pc'[t] \in PurgeLabels \ Critical
             /\ mbox' = [mbox EXCEPT ![t] = mbox'[t]] /\ Known(mbox'[t])
             /\ todo' = [todo EXCEPT ![t] = todo'[t]] /\ \A a \in todo'[t] : adminKV[a] # NoMbox
             /\ UNCHANGED key,
             pc'[t] = "purgeReader" => adminKV[mbox'[t].key] # NoMbox /\ mbox'[t].key \notin todo'[t]
      PROVE  IndexInv'
  <2>1. \A u \in Thread \ {t} : /\ pc'[u] = pc[u] /\ key'[u] = key[u]
                                /\ mbox'[u] = mbox[u] /\ todo'[u] = todo[u]
    BY <1>0, <1>3 DEF LocalTypeOK
  <2>2. LockOK'
    BY <1>0, <1>1, <1>3, <2>1, LockStep DEF Critical
  <2>3. PurgeOK'
    BY <1>0, <1>1, <1>3, <2>1 DEF PurgeOK, PurgeLabels, Deleting, Critical
  <2>4. CreateOK'
    BY <1>0, <1>1, <1>3, <2>1 DEF CreateOK, PurgeLabels
  <2>5. Still /\ Keeps
    BY <1>1, <1>3, <2>1, ObjectMembers DEF Still, Keeps
  <2> QED BY <2>2, <2>3, <2>4, <2>5, QuietIndex
<1>4. ASSUME PurgeStart(t) PROVE IndexInv'
  <2>1. /\ t \in PurgeThread /\ pc[t] = "idle" /\ pc' = [pc EXCEPT ![t] = "purgeNext"]
        /\ todo' = [todo EXCEPT ![t] = {a \in AdminKey : adminKV[a] # NoMbox}]
        /\ UNCHANGED <<key, mbox>>
    BY <1>4 DEF PurgeStart, Goto
  <2>2. pc'[t] = "purgeNext" /\ todo'[t] = {a \in AdminKey : adminKV[a] # NoMbox}
    BY <1>0, <2>1 DEF LocalTypeOK
  <2> QED BY <1>0, <1>2, <1>3, <2>1, <2>2, ObjectMembers DEF PurgeLabels, Critical, LocalTypeOK
<1>5. ASSUME PurgeDone(t) PROVE IndexInv'
  <2>1. CASE ~ Return(t)
    <3>1. /\ pc[t] = "purgeStreams" /\ pc' = [pc EXCEPT ![t] = "purgeNext"]
          /\ mbox' = [mbox EXCEPT ![t] = NoMbox] /\ UNCHANGED <<key, todo>>
      BY <1>5, <2>1 DEF PurgeDone, Goto
    <3>2. /\ pc'[t] = "purgeNext" /\ mbox'[t] = NoMbox /\ todo' = [todo EXCEPT ![t] = todo'[t]]
          /\ t \in PurgeThread /\ \A a \in todo'[t] : adminKV[a] # NoMbox
      BY <1>0, <3>1 DEF LocalTypeOK, PurgeOK, PurgeLabels
    <3> QED BY <1>3, <2>1, <3>1, <3>2, ObjectMembers DEF PurgeLabels, Critical
  <2> QED BY <1>2, <2>1
<1>6. ASSUME NEW a \in AdminKey, PurgeNext(t, a) PROVE IndexInv'
  <2>0. pc[t] = "purgeNext" /\ t \in PurgeThread /\ a \in todo[t]
    BY <1>0, <1>6 DEF PurgeNext, PurgeOK, PurgeLabels
  <2>1. CASE Expired(adminKV[a])
    <3>1. /\ pc' = [pc EXCEPT ![t] = "purgeReader"]
          /\ mbox' = [mbox EXCEPT ![t] = adminKV[a]]
          /\ todo' = [todo EXCEPT ![t] = @ \ {a}] /\ UNCHANGED key
      BY <1>6, <2>1 DEF PurgeNext, Goto
    <3>2. /\ pc'[t] = "purgeReader" /\ mbox'[t] = adminKV[a] /\ todo'[t] = todo[t] \ {a}
          /\ pc[t] # "idle" /\ pc'[t] # "idle"
      BY <1>0, <2>0, <3>1 DEF LocalTypeOK
    <3>3. adminKV[a].key = a /\ adminKV[a] # NoMbox /\ \A b \in todo[t] : adminKV[b] # NoMbox
      BY <1>0, <2>0 DEF PurgeOK, KeysMatch
    <3>4. ~ Return(t)
      BY <1>0, <3>2 DEF Return, LocalTypeOK
    <3> QED BY <1>3, <2>0, <3>1, <3>2, <3>3, <3>4, ObjectMembers DEF PurgeLabels, Critical
  <2>2. CASE ~ Expired(adminKV[a]) /\ ~ Return(t)
    <3>1. /\ pc' = pc /\ mbox' = mbox /\ todo' = [todo EXCEPT ![t] = @ \ {a}] /\ UNCHANGED key
      BY <1>6, <2>2 DEF PurgeNext
    <3>2. /\ pc'[t] = "purgeNext" /\ todo'[t] = todo[t] \ {a}
          /\ \A b \in todo[t] : adminKV[b] # NoMbox
          /\ pc' = [pc EXCEPT ![t] = pc'[t]] /\ mbox' = [mbox EXCEPT ![t] = mbox'[t]]
      BY <1>0, <2>0, <3>1 DEF LocalTypeOK, PurgeOK
    <3> QED BY <1>3, <2>0, <2>2, <3>1, <3>2, ObjectMembers DEF PurgeLabels, Critical
  <2> QED BY <1>2, <2>1, <2>2
<1>7. ASSUME NEW c \in Channel, PurgeStream(t, c) PROVE IndexInv'
  <2>1. pc[t] = "purgeStreams" /\ UNCHANGED <<pc, key, mbox, todo, memory>>
    BY <1>7 DEF PurgeStream
  <2>2. Still /\ Keeps /\ LockOK' /\ PurgeOK' /\ CreateOK'
    BY <1>0, <1>1, <2>1, ObjectMembers DEF Still, Keeps, LockOK, PurgeOK, CreateOK, Deleting, PurgeLabels
  <2> QED BY <2>2, QuietIndex
<1> QED BY <1>4, <1>5, <1>6, <1>7

\* The requests, up to the first step inside of the mutex, and AddChannel.
LEMMA RequestIndex ==
    ASSUME Undisturbed, IInv, IndexInv, NEW t \in Thread,
           \/ \E a \in AdminKey \cup {NoKey}, x \in Address \cup {NoKey} : StartLookup(t, a, x)
           \/ \E n \in Name, o \in {"serve", "own"} : StartFetchOrCreate(t, n, o)
           \/ \E o \in {"serve", "own"} : StartCreate(t, o)
           \/ \E a \in AdminKey, cs \in SUBSET Channel : StartAddChannel(t, a, cs)
           \/ \E c \in Channel : AddStream(t, c)
    PROVE  IndexInv'
<1>0. StoreTypeOK /\ MemoryTypeOK /\ LocalTypeOK /\ LocalsOK
  BY DEF IInv, TypeInv, TypeOK, IndexInv
<1>1. ASSUME NEW a \in AdminKey \cup {NoKey}, NEW x \in Address \cup {NoKey}, StartLookup(t, a, x)
      PROVE  Roams(t)
  BY <1>0, <1>1, ObjectMembers
     DEF StartLookup, Roams, store, memory, Goto, Critical, PurgeLabels, LocalTypeOK
<1>2. ASSUME NEW n \in Name, NEW o \in {"serve", "own"}, StartFetchOrCreate(t, n, o)
      PROVE  Roams(t)
  <2>1. Known(Hit(ProcOf[t], NoKey, n))
    BY <1>0, ConstantsAssumption, HitKnown DEF Address
  <2>2. \A p \in Proc : Known(owned'[p])
    <3>1. \A p \in Proc : owned'[p] \in {owned[p], Hit(ProcOf[t], NoKey, n)}
      BY <1>0, <1>2, ConstantsAssumption DEF StartFetchOrCreate, MemoryTypeOK
    <3> QED BY <2>1, <3>1, ObjectMembers
  <2> QED BY <1>0, <1>2, <2>2, ObjectMembers
          DEF StartFetchOrCreate, Roams, store, Goto, Critical, PurgeLabels, LocalTypeOK
<1>3. ASSUME NEW o \in {"serve", "own"}, StartCreate(t, o)
      PROVE  Roams(t)
  BY <1>0, <1>3, ObjectMembers
     DEF StartCreate, Roams, store, memory, Goto, Critical, PurgeLabels, LocalTypeOK
<1>4. ASSUME NEW a \in AdminKey, NEW cs \in SUBSET Channel, StartAddChannel(t, a, cs)
      PROVE  Roams(t)
  BY <1>0, <1>4, ObjectMembers DEF StartAddChannel, FetchMailboxByAdminKey, Undisturbed,
     Roams, store, memory, Goto, Critical, PurgeLabels, LocalTypeOK
<1>5. ASSUME NEW c \in Channel, AddStream(t, c)
      PROVE  Roams(t)
  <2>1. /\ pc[t] = "addStream"
        /\ UNCHANGED <<adminKV, readerKV, addressKV, revived, lock, cached, cachedAddr, owned>>
    BY <1>5 DEF AddStream, memory
  <2>2. CASE Return(t)
    BY <1>0, <2>1, <2>2, ObjectMembers, ReturnRoams DEF Critical
  <2>3. CASE UNCHANGED <<pc, key, mbox, todo>>
    BY <2>1, <2>3, ObjectMembers DEF Roams, Critical, PurgeLabels
  <2>4. CASE /\ mbox' = [mbox EXCEPT ![t].channels = @ \cup {c}]
             /\ pc' = [pc EXCEPT ![t] = "updateStore"] /\ UNCHANGED <<key, todo>>
    <3>1. mbox[t] \in Mailbox
      BY <1>0, <2>1 DEF LocalTypeOK, LocalsOK, WithMbox
    <3>2. Known(mbox'[t])
      BY <1>0, <2>4, <3>1, ObjectMembers, FieldsKnown DEF LocalTypeOK
    <3>3. pc'[t] = "updateStore"
      BY <1>0, <2>4 DEF LocalTypeOK
    <3> QED BY <2>1, <2>4, <3>2, <3>3, ObjectMembers DEF Roams, Critical, PurgeLabels
  <2> QED BY <1>5, <2>2, <2>3, <2>4 DEF AddStream, Goto
<1> QED BY <1>0, <1>1, <1>2, <1>3, <1>4, <1>5, RoamsStep

\* UpdateMailbox in a thread and in the keep-alive ticker.
LEMMA UpdateIndex ==
    ASSUME Undisturbed, IInv, IndexInv,
           (\E t \in Thread : UpdateStore(t)) \/ (\E p \in Proc : KeepAlive(p))
    PROVE  IndexInv'
<1>0. StoreTypeOK /\ MemoryTypeOK /\ LocalTypeOK /\ LocalsOK /\ EnvTypeOK
  BY DEF IInv, TypeInv, TypeOK, IndexInv
<1>1. ASSUME NEW t \in Thread, UpdateStore(t) PROVE IndexInv'
  <2>1. /\ pc[t] = "updateStore" /\ UpdateMailbox(ProcOf[t], mbox[t])
        /\ UNCHANGED <<readerKV, addressKV, memory>>
        /\ Return(t) \/ (Goto(t, "addStream") /\ UNCHANGED <<key, mbox, todo>>)
    BY <1>1 DEF UpdateStore
  <2>2. mbox[t] \in Mailbox /\ ProcOf[t] \in Proc
    BY <1>0, <2>1, ConstantsAssumption DEF LocalTypeOK, LocalsOK, WithMbox
  <2>3. NobodyEnters /\ \A u \in Thread : mbox'[u] \in {mbox[u], NoMbox}
    BY <1>0, <2>1 DEF Return, Goto, NobodyEnters, Critical, PurgeLabels, LocalTypeOK
  <2> QED BY <2>1, <2>2, <2>3, ObjectMembers, PutBack DEF memory
<1>2. ASSUME NEW p \in Proc, KeepAlive(p) PROVE IndexInv'
  <2> DEFINE m == [owned[p] EXCEPT !.lastActivity = clock]
  <2>1. owned[p] \in Mailbox
    BY <1>0, <1>2 DEF KeepAlive, MemoryTypeOK
  <2>2. m \in Mailbox /\ Known(m)
    BY <1>0, <2>1, MailboxFields, ObjectMembers, FieldsKnown DEF EnvTypeOK
  <2>3. /\ UpdateMailbox(p, m)
        /\ UNCHANGED <<readerKV, addressKV, lock, cached, cachedAddr, pc, key, mbox, todo>>
        /\ \A q \in Proc : owned'[q] = owned[q] \/ owned'[q] = m
    BY <1>0, <1>2 DEF KeepAlive, local, MemoryTypeOK
  <2> HIDE DEF m
  <2>4. NobodyEnters /\ \A q \in Proc : Known(owned'[q])
    BY <2>2, <2>3, ObjectMembers DEF NobodyEnters
  <2> QED BY <2>2, <2>3, <2>4, ObjectMembers, PutBack
<1> QED BY <1>1, <1>2

LEMMA IndexNext ==
    ASSUME Undisturbed
    PROVE  IInv /\ IndexInv /\ [Next]_vars => IndexInv'
<1> SUFFICES ASSUME IInv, IndexInv, [Next]_vars PROVE IndexInv'
  OBVIOUS
<1>0. /\ StoreTypeOK /\ MemoryTypeOK /\ LocalTypeOK /\ LocalsOK /\ EnvTypeOK
      /\ LockOK /\ PurgeOK /\ CreateOK
  BY DEF IInv, TypeInv, TypeOK, IndexInv
<1>1. ASSUME Still, Keeps, UNCHANGED <<adminKV, addressKV, readerKV, lock, pc, key, mbox, todo>>
      PROVE  IndexInv'
  <2>1. LockOK' /\ PurgeOK' /\ CreateOK'
    BY <1>0, <1>1 DEF LockOK, PurgeOK, CreateOK
  <2> QED BY <1>1, <2>1, QuietIndex
<1>2. ASSUME NEW p \in Proc, NEW a \in AdminKey, UpdateLastActivity(p, a) PROVE IndexInv'
  <2> DEFINE m == [cached[p][a] EXCEPT !.lastActivity = clock]
  <2>1. /\ cached[p][a] \in Mailbox /\ cached[p][a] # NoMbox
        /\ UNCHANGED <<store, local, lock, cachedAddr, owned>>
    BY <1>0, <1>2 DEF UpdateLastActivity, MemoryTypeOK
  <2>2. Known(m)
    BY <2>1, ObjectMembers, FieldsKnown
  <2>3. \A q \in Proc, b \in AdminKey :
          cached'[q][b] = cached[q][b] \/ (q = p /\ b = a /\ cached'[q][b] = m)
    BY <1>0, <1>2 DEF UpdateLastActivity, MemoryTypeOK
  <2> HIDE DEF m
  <2>4. Still /\ Keeps
    BY <2>1, <2>2, <2>3, ObjectMembers DEF Still, Keeps, store, local
  <2> QED BY <1>1, <2>1, <2>4 DEF store, local
<1>3. ASSUME NEW p \in Proc, SyncToDisk(p) PROVE IndexInv'
  <2>1. adminKV' = adminKV
    BY <1>0, <1>3 DEF SyncToDisk, IsAdminKeyInMemory, UuidDigit, StoreTypeOK
  <2>2. Still /\ Keeps
    BY <1>3, <2>1, ObjectMembers DEF SyncToDisk, Still, Keeps, memory, local
  <2> QED BY <1>1, <1>3, <2>1, <2>2 DEF SyncToDisk, memory, local
<1>4. ASSUME UNCHANGED <<store, memory, local>> PROVE IndexInv'
  <2>1. Still /\ Keeps
    BY <1>4, ObjectMembers DEF Still, Keeps, store, memory, local
  <2> QED BY <1>1, <1>4, <2>1 DEF store, memory, local
<1>5. ASSUME NEW t \in Thread, Start(t) PROVE IndexInv'
  <2>1. issued \subseteq AdminKey /\ Name \subseteq Address /\ AdminKey \subseteq Address
    BY <1>0 DEF EnvTypeOK, Address
  <2>2. \/ \E a \in AdminKey \cup {NoKey}, x \in Address \cup {NoKey} : StartLookup(t, a, x)
        \/ \E n \in Name, o \in {"serve", "own"} : StartFetchOrCreate(t, n, o)
        \/ \E o \in {"serve", "own"} : StartCreate(t, o)
        \/ \E a \in AdminKey, cs \in SUBSET Channel : StartAddChannel(t, a, cs)
        \/ PurgeStart(t)
    BY <1>5, <2>1 DEF Start
  <2> QED BY <2>2, RequestIndex, PassIndex
<1>6. ASSUME NEW t \in Thread, NEW a \in AdminKey PROVE ~ PurgePanic(t, a)
  BY <1>0 DEF PurgePanic, FetchMailboxByAdminKey, Fails, Undisturbed, PurgeOK
<1>7. ASSUME NEW t \in Thread, Continue(t) PROVE IndexInv'
  BY <1>6, <1>7, LookupIndex, LookupAdminIndex, CreateCheckIndex, CreateIndex, RequestIndex,
     UpdateIndex, PurgeIndex, PassIndex DEF Continue, CreateStep, PurgeStep
<1>8. ASSUME NEW p \in Proc, ProcStep(p) PROVE IndexInv'
  BY <1>2, <1>3, <1>8, UpdateIndex DEF ProcStep, Crash, Undisturbed
<1>9. CASE Tick
  BY <1>4, <1>9 DEF Tick
<1>10. CASE UNCHANGED vars
  BY <1>4, <1>10 DEF vars, store, memory, local
<1> QED BY <1>5, <1>7, <1>8, <1>9, <1>10 DEF Next

LEMMA IndexAlways ==
    ASSUME Undisturbed
    PROVE  Spec => [](IInv /\ IndexInv)
<1>1. "delete" \notin FaultyOps
  BY DEF Undisturbed
<1>2. Init => IInv /\ IndexInv
  BY SoundInit, IndexInit
<1>3. IInv /\ IndexInv /\ [Next]_vars => (IInv /\ IndexInv)'
  BY <1>1, SoundNext, IndexNext
<1> QED BY <1>2, <1>3, PTL DEF Spec

\* With the mutex free the two buckets agree: no reader key and no address dangles, and
\* a mailbox in the bucket is found, unless UpdateMailbox put it back after its purge.
THEOREM BucketsAgree ==
    ASSUME Undisturbed
    PROVE  Spec => []IndexConsistent
<1>1. IInv /\ IndexInv => IndexConsistent
  <2> SUFFICES ASSUME IInv, IndexInv, MutexesFree PROVE IndexConsistent
    BY DEF IndexConsistent
  <2>0. /\ StoreTypeOK /\ KeysMatch /\ LockOK /\ AddressesMatch
        /\ ReaderOK /\ AddressOK /\ FoundOK
    BY DEF IInv, TypeInv, TypeOK, IndexInv, Addressed, Indexed
  <2>1. \A t \in Thread : pc[t] \notin Critical
    BY <2>0, ConstantsAssumption, Inside DEF MutexesFree
  <2>2. \A a \in readerKV : a \in AdminKey /\ adminKV[a] # NoMbox
    BY <2>0, <2>1 DEF ReaderOK, Critical, StoreTypeOK
  <2>3. ASSUME NEW x \in Address, addressKV[x] # NoKey
        PROVE  addressKV[x] \in readerKV /\ adminKV[addressKV[x]].address = x
    <3>1. addressKV[x] \in readerKV
      BY <2>0, <2>1, <2>3 DEF AddressOK, Critical
    <3>2. adminKV[addressKV[x]] \in Objects /\ adminKV[addressKV[x]].key = addressKV[x]
      BY <2>0, <2>2, <3>1 DEF Objects, KeysMatch
    <3> QED BY <2>0, <3>1, <3>2 DEF AddressesMatch
  <2>4. \A a \in AdminKey : adminKV[a] # NoMbox /\ adminKV[a].address \notin revived =>
            a \in readerKV /\ addressKV[adminKV[a].address] = a
    BY <2>0, <2>1 DEF FoundOK, Critical
  <2> QED BY <2>2, <2>3, <2>4 DEF IndexConsistent
<1> QED BY <1>1, IndexAlways, PTL

\* With the mutex free, what MailboxLookup answers from InMemoryMailboxes the buckets
\* would answer too: Purge forgets the three entries of the map before it unlocks.
THEOREM MemoryAgrees ==
    ASSUME Undisturbed
    PROVE  Spec => []CacheCoherent
<1>1. IInv /\ IndexInv => CacheCoherent
  <2> SUFFICES ASSUME IndexInv, NEW p \in Proc, lock[p] = NoThread
               PROVE  /\ \A a \in AdminKey : cached[p][a] # NoMbox => a \in readerKV
                      /\ \A x \in Address \ revived :
                            cachedAddr[p][x] # NoKey => addressKV[x] = cachedAddr[p][x]
    BY DEF CacheCoherent
  <2>1. \A t \in Thread : pc[t] \notin Critical
    BY Inside DEF IndexInv
  <2> QED BY <2>1 DEF IndexInv, Indexed, CacheOK, Critical
<1> QED BY <1>1, IndexAlways, PTL

\* A name in use is not given to another mailbox: _CreateMailboxImpl checks the address
\* under the mutex that Purge and every other creation take.
THEOREM NamesAreKept ==
    ASSUME Undisturbed
    PROVE  Spec => AddressNotTakenOver
<1> DEFINE Kept == \A x \in Address : addressKV[x] # NoKey => addressKV'[x] \in {addressKV[x], NoKey}
<1>1. IInv /\ IndexInv /\ [Next]_vars => Kept
  <2> SUFFICES ASSUME IInv, IndexInv, [Next]_vars PROVE Kept
    OBVIOUS
  <2>0. StoreTypeOK /\ LocalTypeOK /\ LocalsOK /\ CreateOK
    BY DEF IInv, TypeInv, TypeOK, IndexInv
  <2>1. CASE addressKV' = addressKV
    BY <2>1
  <2>2. ASSUME NEW t \in Thread, PutAddress(t) PROVE Kept
    BY <2>0, <2>2 DEF PutAddress, CreateOK, StoreTypeOK
  <2>3. ASSUME NEW t \in Thread, PurgeAddress(t) PROVE Kept
    BY <2>0, <2>3 DEF PurgeAddress, StoreTypeOK
  <2>4. ASSUME NEW t \in Thread, Start(t) PROVE addressKV' = addressKV
    BY <2>4 DEF Start, StartLookup, StartFetchOrCreate, StartCreate, StartAddChannel, PurgeStart, store
  <2>5. ASSUME NEW t \in Thread, Continue(t)
        PROVE  addressKV' = addressKV \/ PutAddress(t) \/ PurgeAddress(t)
    <3>1. CASE LookupRW(t) \/ LookupAdmin(t) \/ UpdateStore(t)
      BY <3>1 DEF LookupRW, LookupAdmin, UpdateStore, store
    <3>2. CASE CreateStep(t)
      BY <3>2 DEF CreateStep, CreateCheck, CreateChannel, PutReader, PutAdmin, store
    <3>3. ASSUME NEW c \in Channel, AddStream(t, c) PROVE addressKV' = addressKV
      BY <3>3 DEF AddStream
    <3>4. CASE PurgeStep(t)
      BY <3>4 DEF PurgeStep, PurgeNext, PurgePanic, PurgeStream, PurgeReader, PurgeAdmin,
                  PurgeDone, Restart, store
    <3> QED BY <2>5, <3>1, <3>2, <3>3, <3>4 DEF Continue
  <2>6. ASSUME NEW p \in Proc, ProcStep(p) PROVE addressKV' = addressKV
    BY <2>6 DEF ProcStep, KeepAlive, UpdateLastActivity, SyncToDisk, Crash, Restart, store
  <2> QED BY <2>1, <2>2, <2>3, <2>4, <2>5, <2>6 DEF Next, Tick, vars, store
<1>2. IInv /\ IndexInv /\ [Next]_vars => [Kept]_vars
  BY <1>1
<1> QED BY <1>2, IndexAlways, PTL DEF Spec, AddressNotTakenOver
-----------------------------------------------------------------------------
(* KeptAliveStays *)

\* What it needs: a mailbox that is kept alive was made for its owner and not found by a name,
\* since one that is found may already be in the hands of a purge; an operation takes less than a
\* unit of the timeouts; and the timeout is longer than the keep-alives that can be without
\* effect, one for every operation that fails and for every channel that AddChannel writes
\* with an older copy of the mailbox, and one more before the next is due.
KeptAliveAssumption ==
    /\ "fetchOrCreate" \notin Requests
    /\ ~SlowOps
    /\ IsFiniteSet(Channel)
    /\ KeepAliveEvery * (MaxFaults + Cardinality(Channel \ CreateChannels) + 1) < DefaultTimeout

\* The channels that were added, and when a mailbox must have been kept alive again if f
\* operations failed.
Extra(m) == Cardinality(m.channels \ CreateChannels)
Owed(m, f) == m.lastActivity + KeepAliveEvery * (f + Extra(m))

\* No mailbox is looked for by a name that is to be created, and purges are made by the purge
\* loop.
Nameless ==
    \A t \in Thread :
        /\ IF pc[t] \in {"lookupRW", "lookupAdmin"} THEN op[t] = "lookup" ELSE addr[t] = NoKey
        /\ pc[t] = "idle" \/ (t \in PurgeThread <=> pc[t] \in PurgeLabels)

\* Every copy of a mailbox has its key for an address, was drawn, and has the channels that
\* mailboxes are created with, or is still to get them.
Whole(m, cs) == m.address = m.key /\ m.key \in issued /\ CreateChannels \subseteq m.channels \cup cs
ToCome(t) == IF pc[t] = "createChannels" THEN chans[t] ELSE {}
Copies ==
    /\ \A a \in AdminKey : adminKV[a] # NoMbox => Whole(adminKV[a], {}) /\ adminKV[a].key = a
    /\ \A p \in Proc : owned[p] # NoMbox => Whole(owned[p], {})
    /\ \A t \in Thread : mbox[t] # NoMbox => Whole(mbox[t], ToCome(t))

\* A mailbox that is being created is new, nobody else has a copy of it, and it has not aged.
BeingNew ==
    \A t \in Thread : pc[t] \in Creating =>
        /\ mbox[t].key = key[t] /\ adminKV[key[t]] = NoMbox /\ mbox[t].lastActivity = clock
        /\ \A p \in Proc : owned[p] # NoMbox => owned[p].key # key[t]
        /\ \A u \in Thread \ {t} : mbox[u] # NoMbox => mbox[u].key # key[t]

\* Each process keeps a mailbox of its own alive, which no purge has in hand.
Owners ==
    /\ \A p, q \in Proc : p # q /\ owned[p] # NoMbox /\ owned[q] # NoMbox =>
         owned[p].key # owned[q].key
    /\ \A p \in Proc, t \in Thread : owned[p] # NoMbox /\ pc[t] \in Deleting =>
         owned[p].key # mbox[t].key

\* How old a mailbox that is kept alive can be: with its owner, in the bucket, and in the hands
\* of an AddChannel, which has added a channel to it once it writes it.
Fresh ==
    /\ faults <= MaxFaults
    /\ \A p \in Proc : owned[p] # NoMbox =>
        /\ owned[p].lastActivity <= clock /\ clock <= owned[p].lastActivity + KeepAliveEvery
        /\ adminKV[owned[p].key] # NoMbox =>
             owned[p].lastActivity <= Owed(adminKV[owned[p].key], faults)
        /\ \A t \in Thread : mbox[t] # NoMbox /\ mbox[t].key = owned[p].key =>
             /\ pc[t] = "addStream" => clock <= Owed(mbox[t], faults) + KeepAliveEvery
             /\ pc[t] = "updateStore" => clock <= Owed(mbox[t], faults)

KeepInv == Nameless /\ Copies /\ BeingNew /\ Owners /\ Fresh

LEMMA ExtraType ==
    ASSUME KeptAliveAssumption, NEW m \in Mailbox
    PROVE  Extra(m) \in Nat /\ Extra(m) <= Cardinality(Channel \ CreateChannels)
           /\ Cardinality(Channel \ CreateChannels) \in Nat
<1>1. IsFiniteSet(Channel \ CreateChannels)
  BY FS_Subset DEF KeptAliveAssumption
<1>2. m.channels \ CreateChannels \subseteq Channel \ CreateChannels
  BY MailboxFields
<1> QED BY <1>1, <1>2, FS_Subset, FS_CardinalityType DEF Extra

LEMMA OwedType ==
    ASSUME KeptAliveAssumption, NEW m \in Mailbox, NEW f \in Nat
    PROVE  /\ Owed(m, f) \in Nat /\ m.lastActivity <= Owed(m, f)
           /\ Owed(m, f + 1) = Owed(m, f) + KeepAliveEvery
<1> DEFINE e == Extra(m)
<1>1. e \in Nat /\ m.lastActivity \in Nat /\ KeepAliveEvery \in Nat
  BY ExtraType, MailboxFields, ConstantsAssumption
<1> HIDE DEF e
<1>2. KeepAliveEvery * (f + e) \in Nat
  BY <1>1
<1>3. KeepAliveEvery * (f + 1 + e) = KeepAliveEvery * (f + e) + KeepAliveEvery
  BY <1>1
<1> QED BY <1>1, <1>2, <1>3 DEF Owed, e

LEMMA OwedMore ==
    ASSUME KeptAliveAssumption, NEW m \in Mailbox, NEW f \in Nat, NEW g \in Nat,
           g = f \/ g = f + 1
    PROVE  Owed(m, f) <= Owed(m, g)
BY OwedType, ConstantsAssumption

\* A channel more counts as a failure more.
LEMMA OwedChannel ==
    ASSUME KeptAliveAssumption, NEW m \in Mailbox, NEW f \in Nat, NEW c \in Channel \ m.channels,
           CreateChannels \subseteq m.channels
    PROVE  Owed([m EXCEPT !.channels = @ \cup {c}], f) = Owed(m, f) + KeepAliveEvery
<1> DEFINE n == [m EXCEPT !.channels = @ \cup {c}]
           e == Extra(m)
<1>1. n.lastActivity = m.lastActivity /\ n.channels = m.channels \cup {c}
  BY DEF Mailbox
<1>2. n.channels \ CreateChannels = (m.channels \ CreateChannels) \cup {c}
      /\ c \notin m.channels \ CreateChannels
  BY <1>1
<1>3. IsFiniteSet(m.channels \ CreateChannels)
  <2>1. m.channels \ CreateChannels \subseteq Channel
    BY MailboxFields
  <2> QED BY <2>1, FS_Subset DEF KeptAliveAssumption
<1>4. Extra(n) = e + 1
  BY <1>2, <1>3, FS_AddElement DEF Extra
<1>5. e \in Nat /\ m.lastActivity \in Nat /\ KeepAliveEvery \in Nat
  BY ExtraType, MailboxFields, ConstantsAssumption
<1> HIDE DEF e, n
<1>6. KeepAliveEvery * (f + (e + 1)) = KeepAliveEvery * (f + e) + KeepAliveEvery
  BY <1>5
<1>7. KeepAliveEvery * (f + e) \in Nat
  BY <1>5
<1> QED BY <1>1, <1>4, <1>5, <1>6, <1>7 DEF Owed, e, n

LEMMA OwedExpires ==
    ASSUME KeptAliveAssumption, NEW m \in Mailbox, NEW f \in Nat, f <= MaxFaults
    PROVE  Owed(m, f) + KeepAliveEvery < m.lastActivity + DefaultTimeout
<1> DEFINE e == Extra(m)
           x == Cardinality(Channel \ CreateChannels)
<1>1. /\ e \in Nat /\ x \in Nat /\ e <= x /\ m.lastActivity \in Nat /\ KeepAliveEvery \in Nat
      /\ MaxFaults \in Nat /\ DefaultTimeout \in Nat
  BY ExtraType, MailboxFields, ConstantsAssumption
<1>2. KeepAliveEvery * (MaxFaults + x + 1) < DefaultTimeout
  BY DEF KeptAliveAssumption
<1> HIDE DEF e, x
<1>3. PICK d \in Nat : MaxFaults + x + 1 = (f + e + 1) + d
  <2>1. (MaxFaults - f) + (x - e) \in Nat
    BY <1>1
  <2> QED BY <1>1, <2>1
<1>4. KeepAliveEvery * (MaxFaults + x + 1)
        = KeepAliveEvery * (f + e) + KeepAliveEvery + KeepAliveEvery * d
  BY <1>1, <1>3
<1>5. KeepAliveEvery * d \in Nat /\ KeepAliveEvery * (f + e) \in Nat
  BY <1>1
<1> QED BY <1>1, <1>2, <1>4, <1>5 DEF Owed, e

\* A thread that returns is idle and has no address.
LEMMA ReturnNameless ==
    ASSUME LocalTypeOK, Nameless, NEW t \in Thread, Return(t)
    PROVE  Nameless'
BY DEF Return, LocalTypeOK, Nameless

\* A thread goes on with its address.
LEMMA GotoNameless ==
    ASSUME LocalTypeOK, Nameless, NEW t \in Thread, NEW l, Goto(t, l), UNCHANGED <<op, addr>>,
           IF l \in {"lookupRW", "lookupAdmin"} THEN op[t] = "lookup" ELSE addr[t] = NoKey,
           t \in PurgeThread <=> l \in PurgeLabels
    PROVE  Nameless'
BY DEF Goto, LocalTypeOK, Nameless

LEMMA NamelessStep ==
    ASSUME KeptAliveAssumption, TypeInv, Nameless, Next
    PROVE  Nameless'
<1>0. LocalTypeOK
  BY DEF TypeInv, TypeOK
<1>1. ASSUME NEW t \in Thread, Start(t)
      PROVE  Nameless'
  <2>1. CASE \E a \in AdminKey \cup {NoKey}, x \in Address \cup {NoKey} : StartLookup(t, a, x)
    BY <1>0, <2>1 DEF StartLookup, Goto, LocalTypeOK, Nameless, PurgeLabels
  <2>2. CASE \E o \in {"serve", "own"} : StartCreate(t, o)
    BY <1>0, <2>2 DEF StartCreate, Goto, LocalTypeOK, Nameless, PurgeLabels
  <2>3. CASE \E a \in AdminKey, cs \in SUBSET Channel : StartAddChannel(t, a, cs)
    <3>1. t \notin PurgeThread /\ pc[t] = "idle" /\ Goto(t, "addStream") /\ UNCHANGED <<op, addr>>
      BY <2>3 DEF StartAddChannel
    <3> QED BY <1>0, <3>1, GotoNameless DEF Nameless, PurgeLabels
  <2>4. CASE PurgeStart(t)
    BY <1>0, <2>4, GotoNameless DEF PurgeStart, Nameless, PurgeLabels
  <2>5. issued \subseteq AdminKey /\ Name \subseteq Address /\ AdminKey \subseteq Address
    BY DEF TypeInv, TypeOK, EnvTypeOK, Address
  <2> QED BY <1>1, <2>1, <2>2, <2>3, <2>4, <2>5 DEF Start, KeptAliveAssumption
<1>2. ASSUME NEW t \in Thread, LookupRW(t) \/ LookupAdmin(t)
      PROVE  Nameless'
  <2>1. op[t] = "lookup" /\ pc[t] \in {"lookupRW", "lookupAdmin"} /\ t \notin PurgeThread
    BY <1>2 DEF LookupRW, LookupAdmin, Nameless, PurgeLabels
  <2>2. Return(t) \/ (Goto(t, "lookupAdmin") /\ UNCHANGED <<op, addr>>)
    BY <1>2, <2>1 DEF LookupRW, LookupAdmin, LookupMiss
  <2> QED BY <1>0, <2>1, <2>2, ReturnNameless, GotoNameless DEF PurgeLabels
<1>3. ASSUME NEW t \in Thread, CreateStep(t)
      PROVE  Nameless'
  <2>1. pc[t] \in {"createCheck", "createChannels", "putAddress", "putAdmin"}
        /\ t \notin PurgeThread /\ addr[t] = NoKey
    BY <1>3 DEF CreateStep, CreateCheck, CreateChannel, PutReader, PutAddress, PutAdmin, Nameless,
                PurgeLabels
  <2>2. CASE Return(t)
    BY <1>0, <2>2, ReturnNameless
  <2>3. CASE \E l \in {"createChannels", "putAddress", "putAdmin"} :
               Goto(t, l) /\ UNCHANGED <<op, addr>>
    BY <1>0, <2>1, <2>3, GotoNameless DEF PurgeLabels
  <2>4. CASE UNCHANGED <<pc, op, addr>>
    BY <2>4 DEF Nameless
  <2> QED BY <1>3, <2>2, <2>3, <2>4
          DEF CreateStep, CreateCheck, CreateChannel, PutReader, PutAddress, PutAdmin
<1>4. ASSUME NEW t \in Thread, UpdateStore(t) \/ \E c \in Channel : AddStream(t, c)
      PROVE  Nameless'
  <2>1. pc[t] \in {"addStream", "updateStore"} /\ t \notin PurgeThread /\ addr[t] = NoKey
    BY <1>4 DEF UpdateStore, AddStream, Nameless, PurgeLabels
  <2>2. CASE Return(t)
    BY <1>0, <2>2, ReturnNameless
  <2>3. CASE \E l \in {"addStream", "updateStore"} : Goto(t, l) /\ UNCHANGED <<op, addr>>
    BY <1>0, <2>1, <2>3, GotoNameless DEF PurgeLabels
  <2>4. CASE UNCHANGED <<pc, op, addr>>
    BY <2>4 DEF Nameless
  <2> QED BY <1>4, <2>2, <2>3, <2>4 DEF UpdateStore, AddStream
<1>5. ASSUME NEW p \in Proc, Restart(p)
      PROVE  Nameless'
  BY <1>5 DEF Restart, Nameless
<1>6. ASSUME NEW t \in Thread, PurgeStep(t)
      PROVE  Nameless'
  <2>1. pc[t] \in PurgeLabels
    BY <1>6 DEF PurgeStep, PurgeNext, PurgePanic, PurgeStream, PurgeReader, PurgeAddress,
                PurgeAdmin, PurgeDone, PurgeLabels
  <2>2. t \in PurgeThread /\ addr[t] = NoKey
    BY <2>1 DEF Nameless, PurgeLabels
  <2>3. CASE Return(t)
    BY <1>0, <2>3, ReturnNameless
  <2>4. CASE \E l \in PurgeLabels : Goto(t, l) /\ UNCHANGED <<op, addr>>
    BY <1>0, <2>2, <2>4, GotoNameless DEF PurgeLabels
  <2>5. CASE UNCHANGED <<pc, op, addr>>
    BY <2>5 DEF Nameless
  <2>6. CASE \E p \in Proc : Restart(p)
    BY <1>5, <2>6
  <2>7. ProcOf[t] \in Proc
    BY ConstantsAssumption
  <2> QED BY <1>6, <2>3, <2>4, <2>5, <2>6, <2>7
          DEF PurgeStep, PurgeNext, PurgePanic, PurgeStream, PurgeReader, PurgeAddress,
              PurgeAdmin, PurgeDone, PurgeLabels
<1>7. ASSUME NEW p \in Proc, ProcStep(p)
      PROVE  Nameless'
  <2>1. CASE UNCHANGED local
    BY <2>1 DEF local, Nameless
  <2> QED BY <1>5, <1>7, <2>1 DEF ProcStep, KeepAlive, UpdateLastActivity, SyncToDisk, Crash
<1>8. CASE Tick
  BY <1>8 DEF Tick, local, Nameless
<1> QED BY <1>1, <1>2, <1>3, <1>4, <1>6, <1>7, <1>8 DEF Next, Continue

\* A step in which no copy of a mailbox is made or changed: a thread drops the copy it has, or
\* keeps it and goes no nearer to writing it.
Drops(t) == mbox'[t] = NoMbox /\ pc'[t] \notin WithMbox
Keeping(t) ==
    /\ mbox'[t] = mbox[t]
    /\ pc'[t] \in Creating => pc[t] \in Creating /\ key'[t] = key[t]
    /\ pc'[t] \in Deleting => pc[t] \in Deleting
    /\ pc'[t] = "addStream" => pc[t] \in {"addStream", "updateStore"}
    /\ pc'[t] = "updateStore" => pc[t] = "updateStore"
    /\ pc[t] = "createChannels" =>
         chans[t] = {} \/ (pc'[t] = "createChannels" /\ chans'[t] = chans[t])
MayFail == faults' \in {faults, faults + 1} /\ faults' <= MaxFaults

\* What the mailboxes in the bucket and in the hands of the threads are.
LEMMA CopyTypes ==
    ASSUME TypeInv
    PROVE  /\ \A a \in AdminKey : adminKV[a] # NoMbox => adminKV[a] \in Mailbox
           /\ \A p \in Proc : owned[p] # NoMbox => owned[p] \in Mailbox
           /\ \A t \in Thread : mbox[t] # NoMbox => mbox[t] \in Mailbox
           /\ clock \in Nat /\ faults \in Nat
BY DEF TypeInv, TypeOK, StoreTypeOK, MemoryTypeOK, LocalTypeOK, EnvTypeOK

LEMMA FewerKeep ==
    ASSUME KeptAliveAssumption, TypeInv, Copies, BeingNew, Owners, Fresh,
           clock' = clock, issued \subseteq issued', MayFail,
           \A a \in AdminKey : adminKV'[a] \in {adminKV[a], NoMbox},
           \A p \in Proc : owned'[p] \in {owned[p], NoMbox},
           \A t \in Thread : Drops(t) \/ Keeping(t)
    PROVE  Copies' /\ BeingNew' /\ Owners' /\ Fresh'
<1>1. Copies'
  <2>1. ASSUME NEW a \in AdminKey, adminKV'[a] # NoMbox
        PROVE  Whole(adminKV[a], {})' /\ adminKV'[a].key = a
    BY <2>1 DEF Copies, Whole
  <2>2. ASSUME NEW p \in Proc, owned'[p] # NoMbox
        PROVE  Whole(owned[p], {})'
    BY <2>2 DEF Copies, Whole
  <2>3. ASSUME NEW t \in Thread, mbox'[t] # NoMbox
        PROVE  Whole(mbox[t], ToCome(t))'
    <3>1. Keeping(t)
      BY <2>3 DEF Drops
    <3> QED BY <2>3, <3>1 DEF Keeping, Copies, Whole, ToCome
  <2> QED BY <2>1, <2>2, <2>3 DEF Copies
<1>2. BeingNew'
  <2>1. SUFFICES ASSUME NEW t \in Thread, pc'[t] \in Creating
                 PROVE  /\ mbox'[t].key = key'[t] /\ adminKV'[key'[t]] = NoMbox
                        /\ mbox'[t].lastActivity = clock'
                        /\ \A p \in Proc : owned'[p] # NoMbox => owned'[p].key # key'[t]
                        /\ \A u \in Thread \ {t} : mbox'[u] # NoMbox => mbox'[u].key # key'[t]
    BY DEF BeingNew
  <2>2. Keeping(t)
    BY <2>1 DEF Drops, WithMbox, Creating
  <2>3. pc[t] \in Creating /\ key'[t] = key[t] /\ mbox'[t] = mbox[t] /\ key[t] \in AdminKey
    BY <2>1, <2>2 DEF Keeping, TypeInv, TypeOK, LocalTypeOK, LocalsOK, WithKey, Creating
  <2>4. \A u \in Thread : mbox'[u] # NoMbox => mbox'[u] = mbox[u]
    BY DEF Drops, Keeping
  <2> QED BY <2>3, <2>4 DEF BeingNew
<1>3. Owners'
  <2>1. ASSUME NEW p \in Proc, NEW t \in Thread, owned'[p] # NoMbox, pc'[t] \in Deleting
        PROVE  owned'[p].key # mbox'[t].key
    <3>1. Keeping(t)
      BY <2>1 DEF Drops, WithMbox, Deleting
    <3> QED BY <2>1, <3>1 DEF Keeping, Owners
  <2>2. \A p \in Proc : owned'[p] # NoMbox => owned'[p] = owned[p]
    OBVIOUS
  <2> QED BY <2>1, <2>2 DEF Owners
<1>4. Fresh'
  <2>0. faults' \in Nat /\ faults \in Nat /\ KeepAliveEvery \in Nat /\ clock \in Nat
    BY CopyTypes, ConstantsAssumption DEF MayFail
  <2>1. \A m \in Mailbox : /\ Owed(m, faults) \in Nat /\ Owed(m, faults') \in Nat
                           /\ Owed(m, faults) <= Owed(m, faults')
    BY <2>0, OwedType, OwedMore DEF MayFail
  <2>2. ASSUME NEW p \in Proc, owned'[p] # NoMbox
        PROVE  /\ owned'[p] = owned[p] /\ owned[p] # NoMbox /\ owned[p].key \in AdminKey
               /\ owned[p].lastActivity \in Nat
    BY <2>2, CopyTypes, MailboxFields
  <2>3. ASSUME NEW p \in Proc, owned'[p] # NoMbox
        PROVE  /\ owned'[p].lastActivity <= clock'
               /\ clock' <= owned'[p].lastActivity + KeepAliveEvery
               /\ adminKV'[owned'[p].key] # NoMbox =>
                    owned'[p].lastActivity <= Owed(adminKV'[owned'[p].key], faults')
    <3>1. owned[p].lastActivity <= clock /\ clock <= owned[p].lastActivity + KeepAliveEvery
      BY <2>2, <2>3 DEF Fresh
    <3>2. ASSUME adminKV'[owned[p].key] # NoMbox
          PROVE  owned[p].lastActivity <= Owed(adminKV'[owned[p].key], faults')
      <4>1. PICK m \in Mailbox : m = adminKV[owned[p].key] /\ m = adminKV'[owned[p].key]
        BY <2>2, <2>3, <3>2, CopyTypes
      <4>2. owned[p].lastActivity <= Owed(m, faults)
        BY <2>2, <2>3, <3>2, <4>1 DEF Fresh
      <4>3. owned[p].lastActivity <= Owed(m, faults')
        BY <2>1, <2>2, <2>3, <4>2
      <4> QED BY <4>1, <4>3
    <3> QED BY <2>2, <2>3, <3>1, <3>2
  <2>4. ASSUME NEW p \in Proc, owned'[p] # NoMbox, NEW t \in Thread, mbox'[t] # NoMbox,
               mbox'[t].key = owned'[p].key
        PROVE  /\ pc'[t] = "addStream" => clock' <= Owed(mbox'[t], faults') + KeepAliveEvery
               /\ pc'[t] = "updateStore" => clock' <= Owed(mbox'[t], faults')
    <3>1. Keeping(t)
      BY <2>4 DEF Drops
    <3>2. PICK m \in Mailbox : m = mbox[t] /\ m = mbox'[t]
      BY <2>4, <3>1, CopyTypes DEF Keeping
    <3>3. /\ pc[t] = "addStream" => clock <= Owed(m, faults) + KeepAliveEvery
          /\ pc[t] = "updateStore" => clock <= Owed(m, faults)
      BY <2>2, <2>4, <3>2, CopyTypes DEF Fresh
    <3>4. Owed(m, faults) \in Nat /\ Owed(m, faults') \in Nat /\ Owed(m, faults) <= Owed(m, faults')
      BY <2>1
    <3>5. /\ pc[t] \in {"addStream", "updateStore"} => clock <= Owed(m, faults') + KeepAliveEvery
          /\ pc[t] = "updateStore" => clock <= Owed(m, faults')
      BY <2>0, <3>3, <3>4
    <3> QED BY <3>1, <3>2, <3>5 DEF Keeping
  <2> QED BY <2>3, <2>4 DEF Fresh, MayFail
<1> QED BY <1>1, <1>2, <1>3, <1>4

\* A step in which thread t gets the copy m of a mailbox, or changes its copy to m.
LEMMA CopyKeeps ==
    ASSUME KeptAliveAssumption, TypeInv, Copies, BeingNew, Owners, Fresh, NEW t \in Thread,
           NEW m \in Mailbox, NEW l \in Labels,
           clock' = clock, issued \subseteq issued', MayFail, adminKV' = adminKV, owned' = owned,
           mbox' = [mbox EXCEPT ![t] = m], pc' = [pc EXCEPT ![t] = l],
           \A u \in Thread \ {t} : key'[u] = key[u] /\ chans'[u] = chans[u],
           m.address = m.key, m.key \in issued',
           CreateChannels \subseteq m.channels \cup (IF l = "createChannels" THEN chans'[t] ELSE {}),
           l \in Creating => /\ key'[t] = m.key /\ adminKV[m.key] = NoMbox
                             /\ m.lastActivity = clock
                             /\ \A p \in Proc : owned[p] # NoMbox => owned[p].key # m.key
                             /\ \A u \in Thread \ {t} : mbox[u] # NoMbox => mbox[u].key # m.key,
           \A u \in Thread \ {t} : pc[u] \in Creating => key[u] # m.key,
           \A p \in Proc : owned[p] # NoMbox /\ owned[p].key = m.key =>
             /\ l \notin Deleting
             /\ l = "addStream" => clock <= Owed(m, faults') + KeepAliveEvery
             /\ l = "updateStore" => clock <= Owed(m, faults')
    PROVE  Copies' /\ BeingNew' /\ Owners' /\ Fresh'
<1>0. m # NoMbox /\ m.key \in AdminKey
  BY NoMboxAssumption, MailboxFields
<1>1. /\ mbox'[t] = m /\ pc'[t] = l
      /\ \A u \in Thread \ {t} : mbox'[u] = mbox[u] /\ pc'[u] = pc[u]
  BY DEF TypeInv, TypeOK, LocalTypeOK
<1>2. Copies'
  <2>1. ASSUME NEW u \in Thread, mbox'[u] # NoMbox
        PROVE  Whole(mbox[u], ToCome(u))'
    <3>1. CASE u = t
      BY <1>1, <3>1 DEF Whole, ToCome
    <3>2. CASE u # t
      BY <1>1, <2>1, <3>2 DEF Copies, Whole, ToCome
    <3> QED BY <3>1, <3>2
  <2> QED BY <2>1 DEF Copies, Whole
<1>3. BeingNew'
  <2>1. SUFFICES ASSUME NEW u \in Thread, pc'[u] \in Creating
                 PROVE  /\ mbox'[u].key = key'[u] /\ adminKV'[key'[u]] = NoMbox
                        /\ mbox'[u].lastActivity = clock'
                        /\ \A p \in Proc : owned'[p] # NoMbox => owned'[p].key # key'[u]
                        /\ \A v \in Thread \ {u} : mbox'[v] # NoMbox => mbox'[v].key # key'[u]
    BY DEF BeingNew
  <2>2. CASE u = t
    BY <1>1, <2>1, <2>2
  <2>3. CASE u # t
    BY <1>1, <2>1, <2>3 DEF BeingNew
  <2> QED BY <2>2, <2>3
<1>4. Owners'
  BY <1>0, <1>1 DEF Owners
<1>5. Fresh'
  <2>0. faults' \in Nat /\ faults \in Nat /\ KeepAliveEvery \in Nat /\ clock \in Nat
    BY CopyTypes, ConstantsAssumption DEF MayFail
  <2>1. \A n \in Mailbox : /\ Owed(n, faults) \in Nat /\ Owed(n, faults') \in Nat
                           /\ Owed(n, faults) <= Owed(n, faults')
    BY <2>0, OwedType, OwedMore DEF MayFail
  <2>2. ASSUME NEW p \in Proc, owned[p] # NoMbox, adminKV[owned[p].key] # NoMbox
        PROVE  owned[p].lastActivity <= Owed(adminKV[owned[p].key], faults')
    <3>1. PICK n \in Mailbox : n = adminKV[owned[p].key]
      BY <2>2, CopyTypes, MailboxFields
    <3>2. owned[p].lastActivity <= Owed(n, faults) /\ owned[p].lastActivity \in Nat
      BY <2>2, <3>1, CopyTypes, MailboxFields DEF Fresh
    <3> QED BY <2>1, <3>1, <3>2
  <2>3. ASSUME NEW p \in Proc, owned[p] # NoMbox, NEW u \in Thread, mbox'[u] # NoMbox,
               mbox'[u].key = owned[p].key
        PROVE  /\ pc'[u] = "addStream" => clock <= Owed(mbox'[u], faults') + KeepAliveEvery
               /\ pc'[u] = "updateStore" => clock <= Owed(mbox'[u], faults')
    <3>1. CASE u = t
      BY <1>1, <2>3, <3>1
    <3>2. CASE u # t
      <4>1. PICK n \in Mailbox : n = mbox[u] /\ n = mbox'[u]
        BY <1>1, <2>3, <3>2, CopyTypes
      <4>2. /\ pc[u] = "addStream" => clock <= Owed(n, faults) + KeepAliveEvery
            /\ pc[u] = "updateStore" => clock <= Owed(n, faults)
        BY <1>1, <2>3, <3>2, <4>1, CopyTypes DEF Fresh
      <4>3. Owed(n, faults) \in Nat /\ Owed(n, faults') \in Nat
            /\ Owed(n, faults) <= Owed(n, faults')
        BY <2>1
      <4>4. /\ pc[u] = "addStream" => clock <= Owed(n, faults') + KeepAliveEvery
            /\ pc[u] = "updateStore" => clock <= Owed(n, faults')
        BY <2>0, <4>2, <4>3
      <4> QED BY <1>1, <3>2, <4>1, <4>4
    <3> QED BY <3>1, <3>2
  <2> QED BY <2>2, <2>3 DEF Fresh, MayFail
<1> QED BY <1>2, <1>3, <1>4, <1>5

LEMMA CreateCheckAlive ==
    ASSUME KeptAliveAssumption, TypeInv, KeepInv, NEW t \in Thread, NEW a \in AdminKey,
           CreateCheck(t, a)
    PROVE  Copies' /\ BeingNew' /\ Owners' /\ Fresh'
<1>0. MayFail /\ UNCHANGED <<clock, adminKV, owned>> /\ pc[t] = "createCheck"
  BY ConstantsAssumption DEF CreateCheck, Succeeds, Fails, MayFail, store, KeepInv, Fresh, TypeInv,
     TypeOK, EnvTypeOK
<1>1. CASE Return(t) /\ UNCHANGED issued
  <2>1. \A u \in Thread : Drops(u) \/ Keeping(u)
    BY <1>1 DEF Return, Drops, Keeping, WithMbox, TypeInv, TypeOK, LocalTypeOK
  <2> QED BY <1>0, <1>1, <2>1, FewerKeep DEF KeepInv
<1>2. CASE ~(Return(t) /\ UNCHANGED issued)
  <2> DEFINE m == [key |-> a, address |-> a, channels |-> {}, lastActivity |-> clock]
  <2>0. addr[t] = NoKey /\ a \notin issued
    BY <1>0 DEF KeepInv, Nameless, CreateCheck
  <2>1. /\ mbox' = [mbox EXCEPT ![t] = m] /\ pc' = [pc EXCEPT ![t] = "createChannels"]
        /\ key' = [key EXCEPT ![t] = a] /\ chans' = [chans EXCEPT ![t] = CreateChannels]
        /\ issued' = issued \cup {a}
    BY <1>2, <2>0 DEF CreateCheck, Goto
  <2>2. m \in Mailbox
    BY <1>0, CopyTypes DEF Mailbox, Address
  <2>3. /\ m.key = a /\ m.address = a /\ m.channels = {} /\ m.lastActivity = clock
        /\ "createChannels" \in Labels /\ "createChannels" \in Creating
        /\ "createChannels" \notin Deleting
    BY DEF Labels, Creating, Deleting
  <2> HIDE DEF m
  <2>4. /\ adminKV[a] = NoMbox
        /\ \A p \in Proc : owned[p] # NoMbox => owned[p].key # a
        /\ \A u \in Thread : mbox[u] # NoMbox => mbox[u].key # a
    BY <2>0 DEF KeepInv, Copies, Whole
  <2>5. \A u \in Thread : pc[u] \in Creating => key[u] # a
    <3>1. \A u \in Thread : pc[u] \in Creating => mbox[u] # NoMbox /\ mbox[u].key = key[u]
      BY DEF KeepInv, BeingNew, TypeInv, LocalsOK, WithMbox, Creating
    <3> QED BY <2>4, <3>1
  <2>6. key'[t] = a /\ chans'[t] = CreateChannels
        /\ \A u \in Thread \ {t} : key'[u] = key[u] /\ chans'[u] = chans[u]
    BY <2>1 DEF TypeInv, TypeOK, LocalTypeOK
  <2>7. /\ m.address = m.key /\ m.key \in issued' /\ issued \subseteq issued'
        /\ CreateChannels \subseteq m.channels \cup chans'[t]
        /\ key'[t] = m.key /\ adminKV[m.key] = NoMbox /\ m.lastActivity = clock
        /\ \A p \in Proc : owned[p] # NoMbox => owned[p].key # m.key
        /\ \A u \in Thread \ {t} : mbox[u] # NoMbox => mbox[u].key # m.key
        /\ \A u \in Thread \ {t} : pc[u] \in Creating => key[u] # m.key
    BY <2>1, <2>3, <2>4, <2>5, <2>6
  <2> DEFINE l == "createChannels"
  <2>8. /\ l \in Labels /\ pc' = [pc EXCEPT ![t] = l]
        /\ CreateChannels \subseteq m.channels \cup (IF l = "createChannels" THEN chans'[t] ELSE {})
    BY <2>1, <2>3, <2>7
  <2>9. l \in Creating => /\ key'[t] = m.key /\ adminKV[m.key] = NoMbox
                          /\ m.lastActivity = clock
                          /\ \A p \in Proc : owned[p] # NoMbox => owned[p].key # m.key
                          /\ \A u \in Thread \ {t} : mbox[u] # NoMbox => mbox[u].key # m.key
    BY <2>7
  <2>10. \A p \in Proc : owned[p] # NoMbox /\ owned[p].key = m.key =>
             /\ l \notin Deleting
             /\ l = "addStream" => clock <= Owed(m, faults') + KeepAliveEvery
             /\ l = "updateStore" => clock <= Owed(m, faults')
    BY <2>7
  <2>11. Copies /\ BeingNew /\ Owners /\ Fresh /\ clock' = clock /\ adminKV' = adminKV
         /\ owned' = owned /\ MayFail
    BY <1>0 DEF KeepInv
  <2> HIDE DEF l
  <2> QED BY <2>1, <2>2, <2>6, <2>7, <2>8, <2>9, <2>10, <2>11, CopyKeeps
<1> QED BY <1>1, <1>2 DEF CreateCheck

LEMMA CreateChannelAlive ==
    ASSUME KeptAliveAssumption, TypeInv, KeepInv, NEW t \in Thread, NEW c \in Channel,
           CreateChannel(t, c)
    PROVE  Copies' /\ BeingNew' /\ Owners' /\ Fresh'
<1>0. /\ MayFail /\ UNCHANGED <<clock, adminKV, owned, issued>>
      /\ pc[t] = "createChannels" /\ c \in chans[t]
  BY ConstantsAssumption DEF CreateChannel, Succeeds, Fails, MayFail, KeepInv, Fresh, TypeInv,
     TypeOK, EnvTypeOK
<1>1. CASE Return(t)
  <2>1. \A u \in Thread : Drops(u) \/ Keeping(u)
    BY <1>1 DEF Return, Drops, Keeping, WithMbox, TypeInv, TypeOK, LocalTypeOK
  <2> QED BY <1>0, <2>1, FewerKeep DEF KeepInv
<1>2. CASE ~Return(t)
  <2> DEFINE m == [mbox[t] EXCEPT !.channels = @ \cup {c}]
             l == "createChannels"
  <2>0. mbox[t] \in Mailbox /\ mbox[t] # NoMbox
    BY <1>0, CopyTypes DEF TypeInv, LocalsOK, WithMbox
  <2>1. /\ mbox' = [mbox EXCEPT ![t] = m] /\ chans' = [chans EXCEPT ![t] = @ \ {c}]
        /\ key' = key /\ pc' = pc /\ pc = [pc EXCEPT ![t] = l]
    BY <1>0, <1>2 DEF CreateChannel, TypeInv, TypeOK, LocalTypeOK
  <2>2. m \in Mailbox /\ m.key = mbox[t].key /\ m.address = mbox[t].address
        /\ m.lastActivity = mbox[t].lastActivity /\ m.channels = mbox[t].channels \cup {c}
    BY <2>0, MailboxFields DEF Mailbox
  <2>3. l \in Labels /\ l \in Creating /\ l \notin Deleting
    BY DEF Labels, Creating, Deleting
  <2>4. /\ mbox[t].key = key[t] /\ adminKV[key[t]] = NoMbox /\ mbox[t].lastActivity = clock
        /\ \A p \in Proc : owned[p] # NoMbox => owned[p].key # key[t]
        /\ \A u \in Thread \ {t} : mbox[u] # NoMbox => mbox[u].key # key[t]
    BY <1>0 DEF KeepInv, BeingNew, Creating
  <2>5. \A u \in Thread \ {t} : pc[u] \in Creating => key[u] # key[t]
    <3>1. \A u \in Thread : pc[u] \in Creating => mbox[u] # NoMbox /\ mbox[u].key = key[u]
      BY DEF KeepInv, BeingNew, TypeInv, LocalsOK, WithMbox, Creating
    <3> QED BY <2>4, <3>1
  <2>6. /\ chans'[t] = chans[t] \ {c}
        /\ \A u \in Thread \ {t} : key'[u] = key[u] /\ chans'[u] = chans[u]
    BY <2>1 DEF TypeInv, TypeOK, LocalTypeOK
  <2>7. mbox[t].address = mbox[t].key /\ mbox[t].key \in issued
        /\ CreateChannels \subseteq mbox[t].channels \cup chans[t]
    BY <1>0, <2>0 DEF KeepInv, Copies, Whole, ToCome
  <2> HIDE DEF m
  <2>8. /\ m.address = m.key /\ m.key \in issued' /\ issued \subseteq issued'
        /\ CreateChannels \subseteq m.channels \cup (IF l = "createChannels" THEN chans'[t] ELSE {})
    BY <1>0, <2>2, <2>6, <2>7
  <2>9. l \in Creating => /\ key'[t] = m.key /\ adminKV[m.key] = NoMbox
                          /\ m.lastActivity = clock
                          /\ \A p \in Proc : owned[p] # NoMbox => owned[p].key # m.key
                          /\ \A u \in Thread \ {t} : mbox[u] # NoMbox => mbox[u].key # m.key
    BY <2>1, <2>2, <2>4
  <2>10. \A p \in Proc : owned[p] # NoMbox /\ owned[p].key = m.key =>
             /\ l \notin Deleting
             /\ l = "addStream" => clock <= Owed(m, faults') + KeepAliveEvery
             /\ l = "updateStore" => clock <= Owed(m, faults')
    BY <2>3
  <2>11. \A u \in Thread \ {t} : pc[u] \in Creating => key[u] # m.key
    BY <2>2, <2>4, <2>5
  <2>12. Copies /\ BeingNew /\ Owners /\ Fresh /\ clock' = clock /\ adminKV' = adminKV
         /\ owned' = owned /\ MayFail
    BY <1>0 DEF KeepInv
  <2>13. pc' = [pc EXCEPT ![t] = l] /\ l \in Labels /\ m \in Mailbox
    BY <2>1, <2>2, <2>3
  <2> HIDE DEF l
  <2> QED BY <2>1, <2>6, <2>8, <2>9, <2>10, <2>11, <2>12, <2>13, CopyKeeps
<1> QED BY <1>1, <1>2

\* Nobody else is creating a mailbox that has a copy.
LEMMA CopyIsNotNew ==
    ASSUME TypeInv, KeepInv, NEW t \in Thread, NEW k, pc[t] \in Creating,
           \/ k \in AdminKey /\ adminKV[k] # NoMbox
           \/ \E u \in Thread \ {t} : mbox[u] # NoMbox /\ mbox[u].key = k
           \/ \E p \in Proc : owned[p] # NoMbox /\ owned[p].key = k
    PROVE  key[t] # k
BY DEF KeepInv, BeingNew

LEMMA StartAddChannelAlive ==
    ASSUME KeptAliveAssumption, TypeInv, KeepInv, NEW t \in Thread, NEW a \in AdminKey,
           NEW cs \in SUBSET Channel, StartAddChannel(t, a, cs)
    PROVE  Copies' /\ BeingNew' /\ Owners' /\ Fresh'
<1> DEFINE m == adminKV[a]
           l == "addStream"
<1>1. /\ UNCHANGED <<clock, adminKV, owned, issued, faults, key>> /\ m # NoMbox
      /\ mbox' = [mbox EXCEPT ![t] = m] /\ chans' = [chans EXCEPT ![t] = cs]
      /\ pc' = [pc EXCEPT ![t] = l]
  BY DEF StartAddChannel, FetchMailboxByAdminKey, Goto, store, memory, env
<1>2. m \in Mailbox /\ m.key = a /\ m.address = m.key /\ m.key \in issued
      /\ CreateChannels \subseteq m.channels
  BY <1>1, CopyTypes DEF KeepInv, Copies, Whole
<1>3. \A u \in Thread : pc[u] \in Creating => key[u] # m.key
  BY <1>1, <1>2, CopyIsNotNew
<1>4. ASSUME NEW p \in Proc, owned[p] # NoMbox, owned[p].key = m.key
      PROVE  clock <= Owed(m, faults) + KeepAliveEvery
  <2>1. /\ clock <= owned[p].lastActivity + KeepAliveEvery
        /\ owned[p].lastActivity <= Owed(m, faults)
    BY <1>1, <1>2, <1>4 DEF KeepInv, Fresh
  <2>2. owned[p].lastActivity \in Nat /\ Owed(m, faults) \in Nat /\ KeepAliveEvery \in Nat
        /\ clock \in Nat
    BY <1>2, <1>4, CopyTypes, MailboxFields, OwedType, ConstantsAssumption
  <2> QED BY <2>1, <2>2
<1>5. MayFail /\ faults' = faults
  BY <1>1 DEF MayFail, KeepInv, Fresh
<1>6. \A u \in Thread \ {t} : key'[u] = key[u] /\ chans'[u] = chans[u]
  BY <1>1 DEF TypeInv, TypeOK, LocalTypeOK
<1>7. l \in Labels /\ l \notin Creating /\ l \notin Deleting /\ l # "createChannels"
      /\ l # "updateStore"
  BY DEF Labels, Creating, Deleting
<1>8. Copies /\ BeingNew /\ Owners /\ Fresh
  BY DEF KeepInv
<1>9. \A p \in Proc : owned[p] # NoMbox /\ owned[p].key = m.key =>
        /\ l \notin Deleting
        /\ l = "addStream" => clock <= Owed(m, faults') + KeepAliveEvery
        /\ l = "updateStore" => clock <= Owed(m, faults')
  BY <1>4, <1>5, <1>7
<1>10. CreateChannels \subseteq m.channels \cup (IF l = "createChannels" THEN chans'[t] ELSE {})
  BY <1>2
<1> HIDE DEF m, l
<1> QED BY <1>1, <1>2, <1>3, <1>5, <1>6, <1>7, <1>8, <1>9, <1>10, CopyKeeps

LEMMA AddStreamAlive ==
    ASSUME KeptAliveAssumption, TypeInv, KeepInv, NEW t \in Thread, NEW c \in Channel,
           AddStream(t, c)
    PROVE  Copies' /\ BeingNew' /\ Owners' /\ Fresh'
<1>0. /\ MayFail /\ UNCHANGED <<clock, adminKV, owned, issued>> /\ pc[t] = "addStream"
  BY ConstantsAssumption DEF AddStream, Succeeds, Fails, MayFail, KeepInv, Fresh, TypeInv,
     TypeOK, EnvTypeOK, memory
<1>1. CASE Return(t) \/ UNCHANGED <<pc, mbox, key>>
  <2>1. \A u \in Thread : Drops(u) \/ Keeping(u)
    BY <1>0, <1>1 DEF AddStream, Return, Drops, Keeping, WithMbox, TypeInv, TypeOK, LocalTypeOK
  <2> QED BY <1>0, <2>1, FewerKeep DEF KeepInv
<1>2. CASE ~(Return(t) \/ UNCHANGED <<pc, mbox, key>>)
  <2> DEFINE m == [mbox[t] EXCEPT !.channels = @ \cup {c}]
             l == "updateStore"
  <2>0. mbox[t] \in Mailbox /\ mbox[t] # NoMbox
    BY <1>0, CopyTypes DEF TypeInv, LocalsOK, WithMbox
  <2>1. /\ mbox' = [mbox EXCEPT ![t] = m] /\ chans' = [chans EXCEPT ![t] = @ \ {c}]
        /\ key' = key /\ pc' = [pc EXCEPT ![t] = l] /\ faults' = faults
        /\ c \in Channel \ mbox[t].channels
    BY <1>2 DEF AddStream, Goto, Succeeds
  <2>2. m \in Mailbox /\ m.key = mbox[t].key /\ m.address = mbox[t].address
        /\ m.channels = mbox[t].channels \cup {c}
    BY <2>0, MailboxFields DEF Mailbox
  <2>3. mbox[t].address = mbox[t].key /\ mbox[t].key \in issued
        /\ CreateChannels \subseteq mbox[t].channels
    BY <1>0, <2>0 DEF KeepInv, Copies, Whole, ToCome
  <2>4. faults \in Nat
    BY CopyTypes
  <2>5. Owed(m, faults) = Owed(mbox[t], faults) + KeepAliveEvery
    BY <2>0, <2>1, <2>3, <2>4, OwedChannel
  <2>6. \A u \in Thread \ {t} : key'[u] = key[u] /\ chans'[u] = chans[u]
    BY <2>1 DEF TypeInv, TypeOK, LocalTypeOK
  <2>7. l \in Labels /\ l \notin Creating /\ l \notin Deleting /\ l # "createChannels"
        /\ l # "addStream"
    BY DEF Labels, Creating, Deleting
  <2> HIDE DEF m
  <2>8. \A u \in Thread \ {t} : pc[u] \in Creating => key[u] # m.key
    BY <2>0, <2>2, CopyIsNotNew
  <2>9. \A p \in Proc : owned[p] # NoMbox /\ owned[p].key = m.key =>
          /\ l \notin Deleting
          /\ l = "addStream" => clock <= Owed(m, faults') + KeepAliveEvery
          /\ l = "updateStore" => clock <= Owed(m, faults')
    BY <1>0, <2>0, <2>1, <2>2, <2>5, <2>7 DEF KeepInv, Fresh
  <2>10. /\ m.address = m.key /\ m.key \in issued' /\ issued \subseteq issued'
         /\ CreateChannels \subseteq m.channels \cup
              (IF l = "createChannels" THEN chans'[t] ELSE {})
    BY <1>0, <2>2, <2>3
  <2>11. Copies /\ BeingNew /\ Owners /\ Fresh /\ clock' = clock /\ adminKV' = adminKV
         /\ owned' = owned /\ MayFail
    BY <1>0 DEF KeepInv
  <2> HIDE DEF l
  <2> QED BY <2>1, <2>2, <2>6, <2>7, <2>8, <2>9, <2>10, <2>11, CopyKeeps
<1> QED BY <1>1, <1>2

\* The purge loop leaves what is kept alive: it is not old enough.
LEMMA PurgeNextAlive ==
    ASSUME KeptAliveAssumption, TypeInv, KeepInv, NEW t \in Thread, NEW a \in AdminKey,
           PurgeNext(t, a)
    PROVE  Copies' /\ BeingNew' /\ Owners' /\ Fresh'
<1>0. /\ UNCHANGED <<clock, adminKV, owned, issued, faults>> /\ pc[t] = "purgeNext"
      /\ adminKV[a] # NoMbox /\ MayFail
  BY DEF PurgeNext, FetchMailboxByAdminKey, store, memory, env, MayFail, KeepInv, Fresh
<1>1. CASE ~Expired(adminKV[a])
  <2>1. \A u \in Thread : Drops(u) \/ Keeping(u)
    BY <1>0, <1>1 DEF PurgeNext, Return, Drops, Keeping, WithMbox, TypeInv, TypeOK, LocalTypeOK
  <2> QED BY <1>0, <2>1, FewerKeep DEF KeepInv
<1>2. CASE Expired(adminKV[a])
  <2> DEFINE m == adminKV[a]
             l == "purgeReader"
  <2>1. /\ mbox' = [mbox EXCEPT ![t] = m] /\ UNCHANGED <<key, chans>>
        /\ pc' = [pc EXCEPT ![t] = l]
    BY <1>2 DEF PurgeNext, Goto
  <2>2. m \in Mailbox /\ m # NoMbox /\ m.key = a /\ m.address = m.key /\ m.key \in issued
        /\ CreateChannels \subseteq m.channels
    BY <1>0, CopyTypes DEF KeepInv, Copies, Whole
  <2>3. PurgeTimeout(m) = DefaultTimeout
    <3>1. m.address \in AdminKey /\ AdminKey \cap Name = {}
      BY <2>2, ConstantsAssumption
    <3> QED BY <3>1 DEF PurgeTimeout
  <2>4. m.lastActivity + DefaultTimeout <= clock
    <3>1. clock - m.lastActivity >= DefaultTimeout
      BY <1>2, <2>3 DEF Expired
    <3>2. m.lastActivity \in Nat /\ clock \in Nat /\ DefaultTimeout \in Nat
      BY <2>2, CopyTypes, MailboxFields, ConstantsAssumption
    <3> QED BY <3>1, <3>2
  <2>5. ASSUME NEW p \in Proc, owned[p] # NoMbox, owned[p].key = m.key
        PROVE  FALSE
    <3>1. /\ clock <= owned[p].lastActivity + KeepAliveEvery
          /\ owned[p].lastActivity <= Owed(m, faults)
      BY <2>2, <2>5 DEF KeepInv, Fresh
    <3>2. faults \in Nat /\ faults <= MaxFaults
      BY CopyTypes DEF KeepInv, Fresh
    <3>3. Owed(m, faults) + KeepAliveEvery < m.lastActivity + DefaultTimeout
      BY <2>2, <3>2, OwedExpires
    <3>4. /\ owned[p].lastActivity \in Nat /\ Owed(m, faults) \in Nat /\ KeepAliveEvery \in Nat
          /\ clock \in Nat /\ m.lastActivity \in Nat /\ DefaultTimeout \in Nat
      BY <2>2, <2>5, <3>2, CopyTypes, MailboxFields, OwedType, ConstantsAssumption
    <3> HIDE DEF m
    <3> QED BY <2>4, <3>1, <3>3, <3>4
  <2>6. \A u \in Thread : pc[u] \in Creating => key[u] # m.key
    BY <2>2, CopyIsNotNew
  <2>7. l \in Labels /\ l \notin Creating /\ l # "createChannels"
    BY DEF Labels, Creating
  <2>8. \A u \in Thread \ {t} : key'[u] = key[u] /\ chans'[u] = chans[u]
    BY <2>1
  <2>9. \A p \in Proc : owned[p] # NoMbox /\ owned[p].key = m.key =>
          /\ l \notin Deleting
          /\ l = "addStream" => clock <= Owed(m, faults') + KeepAliveEvery
          /\ l = "updateStore" => clock <= Owed(m, faults')
    BY <2>5
  <2>10. CreateChannels \subseteq m.channels \cup
           (IF l = "createChannels" THEN chans'[t] ELSE {})
    BY <2>2
  <2>11. Copies /\ BeingNew /\ Owners /\ Fresh /\ clock' = clock /\ adminKV' = adminKV
         /\ owned' = owned /\ MayFail /\ issued \subseteq issued' /\ m.key \in issued'
    BY <1>0, <2>2 DEF KeepInv
  <2> HIDE DEF m, l
  <2> QED BY <2>1, <2>2, <2>6, <2>7, <2>8, <2>9, <2>10, <2>11, CopyKeeps
<1> QED BY <1>1, <1>2

LEMMA TickAlive ==
    ASSUME KeptAliveAssumption, TypeInv, KeepInv, Tick
    PROVE  Copies' /\ BeingNew' /\ Owners' /\ Fresh'
<1>1. /\ UNCHANGED <<adminKV, owned, issued, faults, mbox, pc, key, chans>> /\ clock' = clock + 1
      /\ \A t \in Thread \ PurgeThread : mbox[t] = NoMbox
      /\ \A p \in Proc : owned[p] # NoMbox => clock - owned[p].lastActivity < KeepAliveEvery
  BY DEF Tick, store, memory, local, KeptAliveAssumption
<1>2. ASSUME NEW t \in Thread, mbox[t] # NoMbox
      PROVE  pc[t] \notin Creating /\ pc[t] \notin {"addStream", "updateStore"}
  <2>1. t \in PurgeThread
    BY <1>1, <1>2
  <2> QED BY <2>1 DEF KeepInv, Nameless, PurgeLabels, Creating
<1>3. Copies' /\ Owners'
  BY <1>1 DEF KeepInv, Copies, Whole, ToCome, Owners
<1>4. BeingNew'
  <2>1. \A t \in Thread : pc[t] \in Creating => mbox[t] # NoMbox
    BY DEF TypeInv, LocalsOK, WithMbox, Creating
  <2> QED BY <1>1, <1>2, <2>1 DEF BeingNew
<1>5. ASSUME NEW p \in Proc, owned[p] # NoMbox
      PROVE  /\ owned[p].lastActivity <= clock + 1
             /\ clock + 1 <= owned[p].lastActivity + KeepAliveEvery
  <2>1. owned[p].lastActivity \in Nat /\ clock \in Nat /\ KeepAliveEvery \in Nat
    BY <1>5, CopyTypes, MailboxFields, ConstantsAssumption
  <2>2. owned[p].lastActivity <= clock /\ clock - owned[p].lastActivity < KeepAliveEvery
    BY <1>1, <1>5 DEF KeepInv, Fresh
  <2> QED BY <2>1, <2>2
<1>6. Fresh'
  BY <1>1, <1>2, <1>5 DEF KeepInv, Fresh, Owed
<1> QED BY <1>3, <1>4, <1>6

\* The steps that make no copy and change none.
LEMMA QuietAlive ==
    ASSUME KeptAliveAssumption, TypeInv, KeepInv,
           \/ \E t \in Thread : \/ PutReader(t) \/ PutAddress(t)
                                \/ PurgeReader(t) \/ PurgeAddress(t) \/ PurgeAdmin(t) \/ PurgeDone(t)
                                \/ LookupRW(t) \/ LookupAdmin(t) \/ PurgeStart(t)
                                \/ \E c \in Channel : PurgeStream(t, c)
                                \/ \E a, x : StartLookup(t, a, x)
                                \/ \E o : StartCreate(t, o)
           \/ \E p \in Proc : SyncToDisk(p) \/ \E a \in AdminKey : UpdateLastActivity(p, a)
           \/ UNCHANGED vars
    PROVE  Copies' /\ BeingNew' /\ Owners' /\ Fresh'
<1>0. faults \in Nat /\ MaxFaults \in Nat /\ faults <= MaxFaults
  BY CopyTypes, ConstantsAssumption DEF KeepInv, Fresh
<1> DEFINE Less == /\ clock' = clock /\ issued \subseteq issued' /\ MayFail
                   /\ \A a \in AdminKey : adminKV'[a] \in {adminKV[a], NoMbox}
                   /\ \A p \in Proc : owned'[p] \in {owned[p], NoMbox}
                   /\ \A u \in Thread : Drops(u) \/ Keeping(u)
<1>1. ASSUME NEW t \in Thread, PutReader(t) \/ PutAddress(t)
      PROVE  Less
  <2>1. \A u \in Thread : Keeping(u)
    BY <1>1 DEF PutReader, PutAddress, Goto, Keeping, Creating, Deleting, TypeInv, TypeOK, LocalTypeOK
  <2> QED BY <1>0, <1>1, <2>1 DEF PutReader, PutAddress, memory, MayFail, Succeeds, Fails
<1>2. ASSUME NEW t \in Thread, PurgeReader(t) \/ PurgeAddress(t) \/ PurgeAdmin(t)
      PROVE  Less
  <2>1. \A u \in Thread : Keeping(u)
    BY <1>2 DEF PurgeReader, PurgeAddress, PurgeAdmin, Goto, Keeping, Creating, Deleting, TypeInv,
                TypeOK, LocalTypeOK
  <2>2. \A a \in AdminKey : adminKV'[a] \in {adminKV[a], NoMbox}
    BY <1>2 DEF PurgeReader, PurgeAddress, PurgeAdmin, TypeInv, TypeOK, StoreTypeOK
  <2> QED BY <1>0, <1>2, <2>1, <2>2
          DEF PurgeReader, PurgeAddress, PurgeAdmin, memory, MayFail, Succeeds, Fails
<1>3. ASSUME NEW t \in Thread,
             PurgeDone(t) \/ PurgeStart(t) \/ \E c \in Channel : PurgeStream(t, c)
      PROVE  Less
  <2>1. \A u \in Thread : Drops(u) \/ Keeping(u)
    BY <1>3 DEF PurgeDone, PurgeStart, PurgeStream, Return, Goto, Drops, Keeping, WithMbox, Creating,
                Deleting, TypeInv, TypeOK, LocalTypeOK
  <2> QED BY <1>0, <1>3, <2>1
          DEF PurgeDone, PurgeStart, PurgeStream, store, memory, env, MayFail, Succeeds, Fails
<1>4. ASSUME NEW t \in Thread, LookupRW(t) \/ LookupAdmin(t)
      PROVE  Less
  <2>1. op[t] = "lookup" /\ pc[t] \in {"lookupRW", "lookupAdmin"}
    BY <1>4 DEF LookupRW, LookupAdmin, KeepInv, Nameless
  <2>2. owned' = owned
    BY <1>4, <2>1 DEF LookupRW, LookupAdmin, Own
  <2>3. \/ Return(t)
        \/ Goto(t, "lookupAdmin") /\ UNCHANGED <<mbox, chans>>
    BY <1>4, <2>1 DEF LookupRW, LookupAdmin, LookupMiss
  <2>4. \A u \in Thread \ {t} : UNCHANGED <<pc[u], mbox[u], key[u], chans[u]>>
    BY <1>4, <2>1 DEF LookupRW, LookupAdmin, LookupMiss, Return, Goto, TypeInv, TypeOK, LocalTypeOK
  <2>5. \A u \in Thread : Drops(u) \/ Keeping(u)
    BY <2>1, <2>3, <2>4 DEF Return, Goto, Drops, Keeping, WithMbox, Creating, Deleting, TypeInv,
                            TypeOK, LocalTypeOK
  <2> QED BY <1>0, <1>4, <2>2, <2>5 DEF LookupRW, LookupAdmin, store, MayFail, Succeeds, Fails
<1>5. ASSUME NEW t \in Thread, (\E a, x : StartLookup(t, a, x)) \/ \E o : StartCreate(t, o)
      PROVE  Less
  <2>1. \A u \in Thread : Drops(u) \/ Keeping(u)
    BY <1>5 DEF StartLookup, StartCreate, Goto, Drops, Keeping, WithMbox, Creating, Deleting,
                TypeInv, TypeOK, LocalTypeOK
  <2> QED BY <1>0, <1>5, <2>1 DEF StartLookup, StartCreate, store, memory, env, MayFail
<1>6. ASSUME NEW p \in Proc, SyncToDisk(p) \/ \E a \in AdminKey : UpdateLastActivity(p, a)
      PROVE  Less
  <2>1. \A a \in AdminKey : adminKV'[a] = adminKV[a]
    BY <1>6 DEF SyncToDisk, UpdateLastActivity, IsAdminKeyInMemory, UuidDigit, store
  <2>2. \A u \in Thread : Keeping(u)
    BY <1>6 DEF SyncToDisk, UpdateLastActivity, local, Keeping
  <2> QED BY <1>0, <1>6, <2>1, <2>2 DEF SyncToDisk, UpdateLastActivity, memory, env, MayFail
<1>7. CASE UNCHANGED vars
  <2>1. \A u \in Thread : Keeping(u)
    BY <1>7 DEF vars, Keeping
  <2> QED BY <1>0, <1>7, <2>1, FewerKeep DEF vars, MayFail, KeepInv
<1>8. Less => Copies' /\ BeingNew' /\ Owners' /\ Fresh'
  BY FewerKeep DEF KeepInv
<1> HIDE DEF Less
<1> QED BY <1>1, <1>2, <1>3, <1>4, <1>5, <1>6, <1>7, <1>8

LEMMA RestartAlive ==
    ASSUME KeptAliveAssumption, TypeInv, KeepInv, NEW p \in Proc, Restart(p), MayFail
    PROVE  Copies' /\ BeingNew' /\ Owners' /\ Fresh'
<1>1. \A t \in Thread : Drops(t) \/ Keeping(t)
  BY DEF Restart, Drops, Keeping, WithMbox, TypeInv, TypeOK, LocalTypeOK
<1>2. \A q \in Proc : owned'[q] \in {owned[q], NoMbox}
  BY DEF Restart, TypeInv, TypeOK, MemoryTypeOK
<1> QED BY <1>1, <1>2, FewerKeep DEF Restart, store, KeepInv

\* A step that puts the mailbox m, or tries to, and may make q the owner of it.
LEMMA PutKeeps ==
    ASSUME KeptAliveAssumption, TypeInv, Copies, BeingNew, Owners, Fresh, NEW q \in Proc,
           NEW m \in Mailbox, clock' = clock, issued' = issued, MayFail,
           adminKV' \in {adminKV, [adminKV EXCEPT ![m.key] = m]},
           owned' \in {owned, [owned EXCEPT ![q] = m]},
           m.address = m.key, m.key \in issued, CreateChannels \subseteq m.channels,
           \A t \in Thread : \/ Drops(t)
                             \/ Keeping(t) /\ (pc[t] \in Creating => key[t] # m.key),
           \A p \in Proc : owned'[p] # NoMbox /\ owned'[p].key = m.key
                             /\ adminKV'[m.key] # NoMbox =>
             owned'[p].lastActivity <= Owed(adminKV'[m.key], faults'),
           owned' # owned =>
             /\ m.lastActivity = clock
             /\ \A p \in Proc \ {q} : owned[p] # NoMbox => owned[p].key # m.key
             /\ \A t \in Thread : Drops(t) \/
                  /\ pc[t] \in Deleting => mbox[t].key # m.key
                  /\ mbox[t] # NoMbox /\ mbox[t].key = m.key =>
                       /\ pc[t] = "addStream" => clock <= Owed(mbox[t], faults) + KeepAliveEvery
                       /\ pc[t] = "updateStore" => clock <= Owed(mbox[t], faults)
    PROVE  Copies' /\ BeingNew' /\ Owners' /\ Fresh'
<1>0. m # NoMbox /\ m.key \in AdminKey /\ m.lastActivity \in Nat
  BY NoMboxAssumption, MailboxFields
<1>1. \A a \in AdminKey : adminKV'[a] = adminKV[a] \/ (a = m.key /\ adminKV'[a] = m)
  BY DEF TypeInv, TypeOK, StoreTypeOK
<1>2. \A p \in Proc : \/ owned'[p] = owned[p]
                      \/ p = q /\ owned'[p] = m /\ owned' # owned
  BY DEF TypeInv, TypeOK, MemoryTypeOK
<1>3. Copies'
  <2>1. ASSUME NEW a \in AdminKey, adminKV'[a] # NoMbox
        PROVE  Whole(adminKV[a], {})' /\ adminKV'[a].key = a
    BY <1>1, <2>1 DEF Copies, Whole
  <2>2. ASSUME NEW p \in Proc, owned'[p] # NoMbox
        PROVE  Whole(owned[p], {})'
    BY <1>2, <2>2 DEF Copies, Whole
  <2>3. ASSUME NEW t \in Thread, mbox'[t] # NoMbox
        PROVE  Whole(mbox[t], ToCome(t))'
    <3>1. Keeping(t)
      BY <2>3 DEF Drops
    <3> QED BY <2>3, <3>1 DEF Keeping, Copies, Whole, ToCome
  <2> QED BY <2>1, <2>2, <2>3 DEF Copies
<1>4. BeingNew'
  <2>1. SUFFICES ASSUME NEW t \in Thread, pc'[t] \in Creating
                 PROVE  /\ mbox'[t].key = key'[t] /\ adminKV'[key'[t]] = NoMbox
                        /\ mbox'[t].lastActivity = clock'
                        /\ \A p \in Proc : owned'[p] # NoMbox => owned'[p].key # key'[t]
                        /\ \A u \in Thread \ {t} : mbox'[u] # NoMbox => mbox'[u].key # key'[t]
    BY DEF BeingNew
  <2>2. Keeping(t)
    BY <2>1 DEF Drops, WithMbox, Creating
  <2>3. pc[t] \in Creating /\ key'[t] = key[t] /\ mbox'[t] = mbox[t] /\ key[t] \in AdminKey
    BY <2>1, <2>2 DEF Keeping, TypeInv, TypeOK, LocalTypeOK, LocalsOK, WithKey, Creating
  <2>4. key[t] # m.key
    BY <2>1, <2>3 DEF Drops, WithMbox, Creating
  <2>5. \A u \in Thread : mbox'[u] # NoMbox => mbox'[u] = mbox[u]
    BY DEF Drops, Keeping
  <2> QED BY <1>1, <1>2, <2>3, <2>4, <2>5 DEF BeingNew
<1>5. Owners'
  <2>1. ASSUME NEW p \in Proc, NEW t \in Thread, owned'[p] # NoMbox, pc'[t] \in Deleting
        PROVE  owned'[p].key # mbox'[t].key
    <3>1. Keeping(t) /\ ~Drops(t)
      BY <2>1 DEF Drops, WithMbox, Deleting
    <3> QED BY <1>2, <2>1, <3>1 DEF Keeping, Owners
  <2>2. ASSUME NEW p \in Proc, NEW r \in Proc, p # r, owned'[p] # NoMbox, owned'[r] # NoMbox
        PROVE  owned'[p].key # owned'[r].key
    BY <1>2, <2>2 DEF Owners
  <2> QED BY <2>1, <2>2 DEF Owners
<1>6. Fresh'
  <2>0. faults' \in Nat /\ faults \in Nat /\ KeepAliveEvery \in Nat /\ clock \in Nat
    BY CopyTypes, ConstantsAssumption DEF MayFail
  <2>1. \A n \in Mailbox : /\ Owed(n, faults) \in Nat /\ Owed(n, faults') \in Nat
                           /\ Owed(n, faults) <= Owed(n, faults')
    BY <2>0, OwedType, OwedMore DEF MayFail
  <2>2. ASSUME NEW p \in Proc, owned'[p] # NoMbox
        PROVE  /\ owned'[p] \in Mailbox /\ owned'[p].key \in AdminKey
               /\ owned'[p].lastActivity \in Nat
               /\ owned'[p].lastActivity <= clock
               /\ clock <= owned'[p].lastActivity + KeepAliveEvery
    <3>1. CASE owned'[p] = owned[p]
      BY <2>2, <3>1, CopyTypes, MailboxFields DEF Fresh
    <3>2. CASE owned'[p] # owned[p]
      BY <1>0, <1>2, <2>0, <3>2
    <3> QED BY <3>1, <3>2
  <2>3. ASSUME NEW p \in Proc, owned'[p] # NoMbox, adminKV'[owned'[p].key] # NoMbox
        PROVE  owned'[p].lastActivity <= Owed(adminKV'[owned'[p].key], faults')
    <3>1. CASE owned'[p].key = m.key
      BY <2>3, <3>1
    <3>2. CASE owned'[p].key # m.key
      <4>1. owned'[p] = owned[p] /\ owned[p].key \in AdminKey
            /\ adminKV'[owned[p].key] = adminKV[owned[p].key]
        BY <1>1, <1>2, <2>2, <2>3, <3>2
      <4>2. PICK n \in Mailbox : n = adminKV[owned[p].key]
        BY <2>3, <4>1, CopyTypes
      <4>3. owned[p].lastActivity <= Owed(n, faults) /\ owned[p].lastActivity \in Nat
        BY <2>2, <2>3, <4>1, <4>2 DEF Fresh
      <4>4. owned[p].lastActivity <= Owed(n, faults')
        BY <2>1, <4>3
      <4> QED BY <4>1, <4>2, <4>4
    <3> QED BY <3>1, <3>2
  <2>4. ASSUME NEW p \in Proc, owned'[p] # NoMbox, NEW t \in Thread, mbox'[t] # NoMbox,
               mbox'[t].key = owned'[p].key
        PROVE  /\ pc'[t] = "addStream" => clock' <= Owed(mbox'[t], faults') + KeepAliveEvery
               /\ pc'[t] = "updateStore" => clock' <= Owed(mbox'[t], faults')
    <3>1. Keeping(t) /\ ~Drops(t)
      BY <2>4 DEF Drops
    <3>2. PICK n \in Mailbox : n = mbox[t] /\ n = mbox'[t]
      BY <2>4, <3>1, CopyTypes DEF Keeping
    <3>3. /\ pc[t] = "addStream" => clock <= Owed(n, faults) + KeepAliveEvery
          /\ pc[t] = "updateStore" => clock <= Owed(n, faults)
      <4>1. CASE owned'[p] = owned[p]
        BY <2>4, <3>2, <4>1 DEF Fresh
      <4>2. CASE owned'[p] # owned[p]
        BY <1>2, <2>4, <3>1, <3>2, <4>2
      <4> QED BY <4>1, <4>2
    <3>4. Owed(n, faults) \in Nat /\ Owed(n, faults') \in Nat /\ Owed(n, faults) <= Owed(n, faults')
      BY <2>1
    <3>5. /\ pc[t] \in {"addStream", "updateStore"} => clock <= Owed(n, faults') + KeepAliveEvery
          /\ pc[t] = "updateStore" => clock <= Owed(n, faults')
      BY <2>0, <3>3, <3>4
    <3> QED BY <3>1, <3>2, <3>5 DEF Keeping
  <2> QED BY <2>2, <2>3, <2>4 DEF Fresh, MayFail
<1> QED BY <1>3, <1>4, <1>5, <1>6

LEMMA UpdateStoreAlive ==
    ASSUME KeptAliveAssumption, TypeInv, KeepInv, NEW t \in Thread, UpdateStore(t)
    PROVE  Copies' /\ BeingNew' /\ Owners' /\ Fresh'
<1> DEFINE m == mbox[t]
           q == ProcOf[t]
<1>1. /\ UNCHANGED <<clock, owned, issued>> /\ pc[t] = "updateStore" /\ q \in Proc
      /\ m # NoMbox /\ m \in Mailbox
  BY CopyTypes, ConstantsAssumption DEF UpdateStore, memory, TypeInv, LocalsOK, WithMbox
<1>2. MayFail
  BY CopyTypes, ConstantsAssumption DEF UpdateStore, UpdateMailbox, Succeeds, Fails, MayFail, KeepInv, Fresh
<1>3. \/ adminKV' = adminKV
      \/ adminKV' = [adminKV EXCEPT ![m.key] = m] /\ faults' = faults
  BY DEF UpdateStore, UpdateMailbox, Succeeds
<1>4. \A u \in Thread : Drops(u) \/ Keeping(u)
  BY <1>1 DEF UpdateStore, Return, Goto, Drops, Keeping, WithMbox, Creating, Deleting, TypeInv,
              TypeOK, LocalTypeOK
<1>5. CASE adminKV' = adminKV
  BY <1>1, <1>2, <1>4, <1>5, FewerKeep DEF KeepInv
<1>6. CASE adminKV' = [adminKV EXCEPT ![m.key] = m] /\ faults' = faults
  <2>1. /\ m.address = m.key /\ m.key \in issued /\ CreateChannels \subseteq m.channels
        /\ m.key \in AdminKey
    BY <1>1, MailboxFields DEF KeepInv, Copies, Whole, ToCome
  <2>2. \A u \in Thread : pc[u] \in Creating => key[u] # m.key
    <3>1. pc[t] \notin Creating
      BY <1>1 DEF Creating
    <3> QED BY <1>1, <3>1, CopyIsNotNew
  <2>3. adminKV'[m.key] = m
    BY <1>6, <2>1 DEF TypeInv, TypeOK, StoreTypeOK
  <2>4. ASSUME NEW p \in Proc, owned[p] # NoMbox, owned[p].key = m.key
        PROVE  owned[p].lastActivity <= Owed(m, faults)
    <3>1. owned[p].lastActivity <= clock /\ clock <= Owed(m, faults)
      BY <1>1, <2>4 DEF KeepInv, Fresh
    <3>2. owned[p].lastActivity \in Nat /\ clock \in Nat /\ Owed(m, faults) \in Nat
      BY <1>1, <2>4, CopyTypes, MailboxFields, OwedType
    <3> QED BY <3>1, <3>2
  <2>5. \A p \in Proc : owned'[p] # NoMbox /\ owned'[p].key = m.key /\ adminKV'[m.key] # NoMbox =>
          owned'[p].lastActivity <= Owed(adminKV'[m.key], faults')
    BY <1>1, <1>6, <2>3, <2>4
  <2>6. Copies /\ BeingNew /\ Owners /\ Fresh /\ clock' = clock /\ issued' = issued
        /\ owned' = owned
    BY <1>1 DEF KeepInv
  <2>7. \A u \in Thread : \/ Drops(u)
                          \/ Keeping(u) /\ (pc[u] \in Creating => key[u] # m.key)
    BY <1>4, <2>2
  <2> HIDE DEF m, q
  <2> QED BY <1>1, <1>2, <1>6, <2>1, <2>5, <2>6, <2>7, PutKeeps
<1> QED BY <1>3, <1>5, <1>6

LEMMA PutAdminAlive ==
    ASSUME KeptAliveAssumption, TypeInv, KeepInv, NEW t \in Thread, PutAdmin(t)
    PROVE  Copies' /\ BeingNew' /\ Owners' /\ Fresh'
<1> DEFINE m == mbox[t]
           q == ProcOf[t]
<1>1. /\ UNCHANGED <<clock, issued>> /\ pc[t] = "putAdmin" /\ q \in Proc
      /\ m # NoMbox /\ m \in Mailbox
  BY CopyTypes, ConstantsAssumption DEF PutAdmin, TypeInv, LocalsOK, WithMbox
<1>2. MayFail
  BY CopyTypes, ConstantsAssumption DEF PutAdmin, Succeeds, Fails, MayFail, KeepInv, Fresh
<1>3. /\ m.key = key[t] /\ adminKV[m.key] = NoMbox /\ m.lastActivity = clock
      /\ \A p \in Proc : owned[p] # NoMbox => owned[p].key # m.key
      /\ \A u \in Thread \ {t} : mbox[u] # NoMbox => mbox[u].key # m.key
  BY <1>1 DEF KeepInv, BeingNew, Creating
<1>4. adminKV' \in {adminKV, [adminKV EXCEPT ![m.key] = m]}
  BY <1>3 DEF PutAdmin
<1>5. owned' \in {owned, [owned EXCEPT ![q] = m]}
  <2>1. [m EXCEPT !.lastActivity = clock] = m
    BY <1>1, <1>3 DEF Mailbox
  <2> QED BY <2>1 DEF PutAdmin, Own
<1>6. Drops(t) /\ \A u \in Thread \ {t} : Keeping(u)
  BY DEF PutAdmin, Return, Drops, Keeping, WithMbox, TypeInv, TypeOK, LocalTypeOK
<1>7. \A u \in Thread \ {t} : pc[u] \in Creating => key[u] # m.key
  BY <1>1, CopyIsNotNew
<1>8. /\ m.address = m.key /\ m.key \in issued /\ CreateChannels \subseteq m.channels
      /\ m.key \in AdminKey
  BY <1>1, MailboxFields DEF KeepInv, Copies, Whole, ToCome
<1>9. adminKV'[m.key] # NoMbox => adminKV'[m.key] = m
  BY <1>3, <1>4, <1>8 DEF TypeInv, TypeOK, StoreTypeOK
<1>10. faults' \in Nat
  BY <1>2, CopyTypes DEF MayFail
<1>11. \A p \in Proc : owned'[p] # NoMbox /\ owned'[p].key = m.key => owned'[p] = m
  BY <1>3, <1>5 DEF TypeInv, TypeOK, MemoryTypeOK
<1>12. m.lastActivity <= Owed(m, faults')
  BY <1>1, <1>10, OwedType
<1>13. \A p \in Proc : owned'[p] # NoMbox /\ owned'[p].key = m.key /\ adminKV'[m.key] # NoMbox =>
         owned'[p].lastActivity <= Owed(adminKV'[m.key], faults')
  BY <1>9, <1>11, <1>12
<1>14. \A u \in Thread : \/ Drops(u)
                         \/ Keeping(u) /\ (pc[u] \in Creating => key[u] # m.key)
  BY <1>6, <1>7
<1>15. \A u \in Thread : Drops(u) \/
         /\ pc[u] \in Deleting => mbox[u].key # m.key
         /\ mbox[u] # NoMbox /\ mbox[u].key = m.key =>
              /\ pc[u] = "addStream" => clock <= Owed(mbox[u], faults) + KeepAliveEvery
              /\ pc[u] = "updateStore" => clock <= Owed(mbox[u], faults)
  <2>1. \A u \in Thread : pc[u] \in Deleting => mbox[u] # NoMbox
    BY DEF TypeInv, LocalsOK, WithMbox, Deleting
  <2> QED BY <1>3, <1>6, <2>1
<1>16. Copies /\ BeingNew /\ Owners /\ Fresh /\ clock' = clock /\ issued' = issued
  BY <1>1 DEF KeepInv
<1> HIDE DEF m, q
<1> QED BY <1>1, <1>2, <1>3, <1>4, <1>5, <1>8, <1>13, <1>14, <1>15, <1>16, PutKeeps

LEMMA KeepAliveAlive ==
    ASSUME KeptAliveAssumption, TypeInv, KeepInv, NEW q \in Proc, KeepAlive(q)
    PROVE  Copies' /\ BeingNew' /\ Owners' /\ Fresh'
<1> DEFINE o == owned[q]
           m == [owned[q] EXCEPT !.lastActivity = clock]
<1>1. UNCHANGED <<clock, issued, mbox, pc, key, chans>> /\ o # NoMbox /\ o \in Mailbox
  BY CopyTypes DEF KeepAlive, local
<1>2. MayFail
  BY CopyTypes, ConstantsAssumption
  DEF KeepAlive, UpdateMailbox, Succeeds, Fails, MayFail, KeepInv, Fresh
<1>3. clock \in Nat /\ faults \in Nat /\ KeepAliveEvery \in Nat
  BY CopyTypes, ConstantsAssumption
<1>4. /\ m \in Mailbox /\ m.key = o.key /\ m.address = o.address /\ m.channels = o.channels
      /\ m.lastActivity = clock /\ m # NoMbox
  BY <1>1, <1>3, MailboxFields, NoMboxAssumption DEF Mailbox
<1>5. /\ owned' = [owned EXCEPT ![q] = m]
      /\ \/ adminKV' = adminKV /\ faults' = faults + 1
         \/ adminKV' = [adminKV EXCEPT ![m.key] = m] /\ faults' = faults
  BY DEF KeepAlive, UpdateMailbox, Succeeds, Fails
<1>6. /\ m.address = m.key /\ m.key \in issued /\ CreateChannels \subseteq m.channels
      /\ m.key \in AdminKey
  BY <1>1, <1>4, MailboxFields DEF KeepInv, Copies, Whole
<1>7. \A u \in Thread : Keeping(u) /\ (pc[u] \in Creating => key[u] # m.key)
  BY <1>1, <1>4, CopyIsNotNew DEF Keeping
<1>8. \A p \in Proc \ {q} : owned[p] # NoMbox => owned[p].key # m.key
  BY <1>1, <1>4 DEF KeepInv, Owners
<1>9. \A u \in Thread :
        /\ pc[u] \in Deleting => mbox[u].key # m.key
        /\ mbox[u] # NoMbox /\ mbox[u].key = m.key =>
             /\ pc[u] = "addStream" => clock <= Owed(mbox[u], faults) + KeepAliveEvery
             /\ pc[u] = "updateStore" => clock <= Owed(mbox[u], faults)
  BY <1>1, <1>4 DEF KeepInv, Owners, Fresh
<1>10. ASSUME adminKV'[m.key] # NoMbox
       PROVE  clock <= Owed(adminKV'[m.key], faults')
  <2>1. CASE adminKV' = [adminKV EXCEPT ![m.key] = m] /\ faults' = faults
    <3>1. adminKV'[m.key] = m
      BY <1>6, <2>1 DEF TypeInv, TypeOK, StoreTypeOK
    <3> QED BY <1>3, <1>4, <2>1, <3>1, OwedType
  <2>2. CASE adminKV' = adminKV /\ faults' = faults + 1
    <3>1. PICK n \in Mailbox : n = adminKV[m.key]
      BY <1>6, <1>10, <2>2, CopyTypes
    <3>2. /\ clock <= o.lastActivity + KeepAliveEvery
          /\ o.lastActivity <= Owed(n, faults)
      BY <1>1, <1>4, <1>10, <2>2, <3>1 DEF KeepInv, Fresh
    <3>3. /\ Owed(n, faults) \in Nat /\ Owed(n, faults + 1) = Owed(n, faults) + KeepAliveEvery
          /\ o.lastActivity \in Nat
      BY <1>1, <1>3, MailboxFields, OwedType
    <3>4. clock <= Owed(n, faults + 1)
      BY <1>3, <3>2, <3>3
    <3> QED BY <2>2, <3>1, <3>4
  <2> QED BY <1>5, <2>1, <2>2
<1>11. \A p \in Proc : owned'[p] # NoMbox /\ owned'[p].key = m.key => owned'[p] = m
  BY <1>5, <1>8 DEF TypeInv, TypeOK, MemoryTypeOK
<1>12. \A p \in Proc : owned'[p] # NoMbox /\ owned'[p].key = m.key /\ adminKV'[m.key] # NoMbox =>
         owned'[p].lastActivity <= Owed(adminKV'[m.key], faults')
  BY <1>4, <1>10, <1>11
<1>13. Copies /\ BeingNew /\ Owners /\ Fresh /\ clock' = clock /\ issued' = issued
  BY <1>1 DEF KeepInv
<1> HIDE DEF m, o
<1> QED BY <1>2, <1>4, <1>5, <1>6, <1>7, <1>8, <1>9, <1>12, <1>13, PutKeeps

LEMMA KeepInit ==
    ASSUME KeptAliveAssumption, Init
    PROVE  KeepInv
<1>1. Nameless
  BY DEF Init, Nameless
<1>2. Copies /\ BeingNew /\ Owners
  BY DEF Init, Copies, BeingNew, Owners, Creating, Deleting
<1>3. Fresh
  BY ConstantsAssumption DEF Init, Fresh
<1> QED BY <1>1, <1>2, <1>3 DEF KeepInv

LEMMA KeepNext ==
    ASSUME KeptAliveAssumption, TypeInv, KeepInv, [Next]_vars
    PROVE  KeepInv'
<1> DEFINE Kept == Copies' /\ BeingNew' /\ Owners' /\ Fresh'
<1>1. CASE UNCHANGED vars
  <2>1. Nameless'
    BY <1>1 DEF vars, KeepInv, Nameless
  <2> QED BY <1>1, <2>1, QuietAlive DEF KeepInv
<1>2. ASSUME NEW t \in Thread, Start(t)
      PROVE  Kept
  <2>1. CASE \E a \in AdminKey, cs \in SUBSET Channel : StartAddChannel(t, a, cs)
    BY <2>1, StartAddChannelAlive
  <2>2. CASE (\E a, x : StartLookup(t, a, x)) \/ (\E o : StartCreate(t, o)) \/ PurgeStart(t)
    BY <2>2, QuietAlive
  <2> HIDE DEF Kept
  <2> QED BY <1>2, <2>1, <2>2 DEF Start, KeptAliveAssumption
<1>3. ASSUME NEW t \in Thread, CreateStep(t)
      PROVE  Kept
  BY <1>3, CreateCheckAlive, CreateChannelAlive, PutAdminAlive, QuietAlive DEF CreateStep
<1>4. ASSUME NEW t \in Thread, PurgeStep(t)
      PROVE  Kept
  <2>1. ASSUME NEW a \in AdminKey, PurgePanic(t, a)
        PROVE  Kept
    <3>1. MayFail
      BY <2>1, CopyTypes, ConstantsAssumption
      DEF PurgePanic, Succeeds, Fails, MayFail, KeepInv, Fresh
    <3>2. ProcOf[t] \in Proc
      BY ConstantsAssumption
    <3> QED BY <2>1, <3>1, <3>2, RestartAlive DEF PurgePanic
  <2>2. CASE \E a \in AdminKey : PurgeNext(t, a)
    BY <2>2, PurgeNextAlive
  <2>3. CASE \/ PurgeReader(t) \/ PurgeAddress(t) \/ PurgeAdmin(t) \/ PurgeDone(t)
             \/ \E c \in Channel : PurgeStream(t, c)
    BY <2>3, QuietAlive
  <2> HIDE DEF Kept
  <2> QED BY <1>4, <2>1, <2>2, <2>3 DEF PurgeStep
<1>5. ASSUME NEW t \in Thread, Continue(t)
      PROVE  Kept
  <2>1. CASE LookupRW(t) \/ LookupAdmin(t)
    BY <2>1, QuietAlive
  <2>2. CASE UpdateStore(t) \/ \E c \in Channel : AddStream(t, c)
    BY <2>2, UpdateStoreAlive, AddStreamAlive
  <2> HIDE DEF Kept
  <2> QED BY <1>3, <1>4, <1>5, <2>1, <2>2 DEF Continue
<1>6. ASSUME NEW p \in Proc, ProcStep(p)
      PROVE  Kept
  <2>1. CASE Crash(p)
    <3>1. Restart(p) /\ MayFail
      BY <2>1 DEF Crash, MayFail, KeepInv, Fresh
    <3> QED BY <3>1, RestartAlive
  <2>2. CASE SyncToDisk(p) \/ \E a \in AdminKey : UpdateLastActivity(p, a)
    BY <2>2, QuietAlive
  <2>3. CASE KeepAlive(p)
    BY <2>3, KeepAliveAlive
  <2> HIDE DEF Kept
  <2> QED BY <1>6, <2>1, <2>2, <2>3 DEF ProcStep
<1>7. ASSUME Tick
      PROVE  Kept
  BY <1>7, TickAlive
<1> HIDE DEF Kept
<1>8. CASE Next
  <2>1. Kept
    BY <1>2, <1>5, <1>6, <1>7, <1>8 DEF Next
  <2>2. Nameless'
    BY <1>8, NamelessStep DEF KeepInv
  <2> QED BY <2>1, <2>2 DEF KeepInv, Kept
<1> QED BY <1>1, <1>8

\* The entries of a process's own mailbox stay while it has it.
EntriesStay(p) ==
    owned[p] # NoMbox /\ owned'[p] # NoMbox =>
        LET a == owned[p].key IN
          /\ a \in readerKV => a \in readerKV'
          /\ addressKV[owned[p].address] = a => addressKV'[owned[p].address] = a
          /\ adminKV[a] # NoMbox => adminKV'[a] # NoMbox

LEMMA EntriesKept ==
    ASSUME KeptAliveAssumption, TypeInv, KeepInv, [Next]_vars, NEW p \in Proc, owned[p] # NoMbox
    PROVE  EntriesStay(p)
<1> DEFINE a == owned[p].key
<1>0. a \in AdminKey /\ owned[p].address = a /\ a \in Address /\ owned[p] \in Mailbox
  BY CopyTypes, MailboxFields DEF KeepInv, Copies, Whole, Address
<1>1. CASE UNCHANGED <<adminKV, readerKV, addressKV>>
  BY <1>1 DEF EntriesStay
<1>2. ASSUME NEW t \in Thread, CreateStep(t)
      PROVE  EntriesStay(p)
  <2>1. pc[t] \in Creating => mbox[t].key = key[t] /\ key[t] # a
    BY DEF KeepInv, BeingNew
  <2>2. pc[t] \in Creating => mbox[t] # NoMbox /\ mbox[t].address = key[t]
    BY <2>1 DEF TypeInv, LocalsOK, WithMbox, Creating, KeepInv, Copies, Whole
  <2>3. CASE PutReader(t)
    BY <2>3 DEF PutReader, EntriesStay
  <2>4. CASE PutAddress(t)
    <3>1. addressKV'[a] = addressKV[a]
      BY <1>0, <2>1, <2>2, <2>4 DEF PutAddress, Creating, TypeInv, TypeOK, StoreTypeOK
    <3> QED BY <1>0, <2>4, <3>1 DEF PutAddress, EntriesStay
  <2>5. CASE PutAdmin(t)
    <3>1. adminKV'[a] = adminKV[a]
      BY <1>0, <2>1, <2>5 DEF PutAdmin, Creating, TypeInv, TypeOK, StoreTypeOK
    <3> QED BY <2>5, <3>1 DEF PutAdmin, EntriesStay
  <2> QED BY <1>1, <1>2, <2>3, <2>4, <2>5 DEF CreateStep, CreateCheck, CreateChannel, store
<1>3. ASSUME NEW t \in Thread, PurgeStep(t)
      PROVE  EntriesStay(p)
  <2>1. pc[t] \in Deleting => mbox[t].key # a
    BY DEF KeepInv, Owners
  <2>2. pc[t] \in Deleting => mbox[t] # NoMbox /\ mbox[t].address = mbox[t].key
    BY DEF TypeInv, LocalsOK, WithMbox, Deleting, KeepInv, Copies, Whole
  <2>3. CASE PurgeReader(t)
    BY <2>1, <2>3 DEF PurgeReader, Deleting, EntriesStay
  <2>4. CASE PurgeAddress(t)
    <3>1. addressKV'[a] = addressKV[a]
      BY <1>0, <2>1, <2>2, <2>4 DEF PurgeAddress, Deleting, TypeInv, TypeOK, StoreTypeOK
    <3> QED BY <1>0, <2>4, <3>1 DEF PurgeAddress, EntriesStay
  <2>5. CASE PurgeAdmin(t)
    <3>1. adminKV'[a] = adminKV[a]
      BY <1>0, <2>1, <2>5 DEF PurgeAdmin, Deleting, TypeInv, TypeOK, StoreTypeOK
    <3> QED BY <2>5, <3>1 DEF PurgeAdmin, EntriesStay
  <2> QED BY <1>1, <1>3, <2>3, <2>4, <2>5
          DEF PurgeStep, PurgeNext, PurgePanic, PurgeStream, PurgeDone, Restart, store
<1>4. ASSUME NEW q \in Proc, NEW m, m # NoMbox, UpdateMailbox(q, m),
             UNCHANGED <<readerKV, addressKV>>
      PROVE  EntriesStay(p)
  <2>1. adminKV[a] # NoMbox => adminKV'[a] # NoMbox
    BY <1>0, <1>4 DEF UpdateMailbox, TypeInv, TypeOK, StoreTypeOK
  <2> QED BY <1>4, <2>1 DEF EntriesStay
<1>5. ASSUME NEW t \in Thread, UpdateStore(t)
      PROVE  EntriesStay(p)
  <2>1. mbox[t] # NoMbox /\ ProcOf[t] \in Proc
    BY <1>5, ConstantsAssumption DEF UpdateStore, TypeInv, LocalsOK, WithMbox
  <2> QED BY <1>4, <1>5, <2>1 DEF UpdateStore
<1>6. ASSUME NEW q \in Proc, KeepAlive(q)
      PROVE  EntriesStay(p)
  <2>1. [owned[q] EXCEPT !.lastActivity = clock] # NoMbox
    BY <1>6, CopyTypes, MailboxFields, NoMboxAssumption DEF KeepAlive
  <2> QED BY <1>4, <1>6, <2>1 DEF KeepAlive
<1>7. ASSUME NEW q \in Proc, SyncToDisk(q)
      PROVE  EntriesStay(p)
  <2>1. \A b \in AdminKey : adminKV'[b] = adminKV[b]
    BY <1>7 DEF SyncToDisk, IsAdminKeyInMemory, UuidDigit
  <2> QED BY <1>0, <1>7, <2>1 DEF SyncToDisk, EntriesStay
<1>8. ASSUME NEW t \in Thread, Continue(t)
      PROVE  EntriesStay(p)
  BY <1>1, <1>2, <1>3, <1>5, <1>8 DEF Continue, LookupRW, LookupAdmin, AddStream, store
<1>9. ASSUME NEW t \in Thread, Start(t)
      PROVE  EntriesStay(p)
  BY <1>1, <1>9
  DEF Start, StartLookup, StartFetchOrCreate, StartCreate, StartAddChannel, PurgeStart, store
<1>10. ASSUME NEW q \in Proc, ProcStep(q)
       PROVE  EntriesStay(p)
  BY <1>1, <1>6, <1>7, <1>10 DEF ProcStep, UpdateLastActivity, Crash, Restart, store
<1>11. CASE Tick \/ UNCHANGED vars
  BY <1>1, <1>11 DEF Tick, store, vars
<1> QED BY <1>8, <1>9, <1>10, <1>11 DEF Next

\* A mailbox that a process keeps alive (the ticker of directclient.CreateRpcMailbox) is not
\* purged under it by any process: no step of MailboxPurgeSinglePass and Purge, and no AddChannel
\* that writes an older copy back, takes one of its three entries away.  It holds for any number
\* of processes, threads and mailboxes, for processes that die and for operations that fail, if
\* the timeout is longer than KeptAliveAssumption asks.
THEOREM AliveIsKept ==
    ASSUME KeptAliveAssumption
    PROVE  Spec => KeptAliveStays
<1>1. Init => TypeInv /\ KeepInv
  BY TypeInit, KeepInit
<1>2. TypeInv /\ KeepInv /\ [Next]_vars => (TypeInv /\ KeepInv)'
  BY TypeNext, KeepNext
<1>3. TypeInv /\ KeepInv /\ [Next]_vars =>
        [\A p \in Proc : owned[p] # NoMbox /\ owned'[p] # NoMbox =>
           LET a == owned[p].key IN
             /\ a \in readerKV => a \in readerKV'
             /\ addressKV[owned[p].address] = a => addressKV'[owned[p].address] = a
             /\ adminKV[a] # NoMbox => adminKV'[a] # NoMbox]_vars
  BY EntriesKept DEF EntriesStay
<1> QED BY <1>1, <1>2, <1>3, PTL DEF Spec, KeptAliveStays
-----------------------------------------------------------------------------
(* ActiveClient: a subscription's messages *)

\* The messages that a client has received of a subscription, and that each of them was one
\* of those before it or the next one.
Members(g) == {g[i] : i \in 1..Len(g)}
Before(g, i) == {g[j] : j \in 1..i - 1}
Gapless(g) == \A i \in 1..Len(g) : g[i] <= Cardinality(Before(g, i)) + 1

\* What was fetched and is not in hand was received: the batch in hand is a message that comes
\* again, or the messages after those that were received.
InOrder(g, u, b, f) ==
    /\ u \subseteq Members(g)
    /\ \/ Members(g) = 1..f /\ Len(b) = 1 /\ b[1] \in Members(g)
       \/ /\ Len(b) <= f /\ Members(g) = 1..(f - Len(b))
          /\ \A i \in 1..Len(b) : b[i] = f - Len(b) + i

LEMMA MembersAppend ==
    ASSUME NEW g \in Seq(Nat), NEW x \in Nat
    PROVE  Members(Append(g, x)) = Members(g) \cup {x}
<1> DEFINE h == Append(g, x)
<1>1. Len(h) = Len(g) + 1 /\ h[Len(g) + 1] = x /\ \A i \in 1..Len(g) : h[i] = g[i]
  BY AppendProperties
<1>2. Len(g) \in Nat
  BY LenProperties
<1>3. 1..Len(h) = (1..Len(g)) \cup {Len(g) + 1}
  BY <1>1, <1>2
<1> HIDE DEF h
<1>4. \A y \in Members(h) : y \in Members(g) \cup {x}
  BY <1>1, <1>3 DEF Members
<1>5. \A y \in Members(g) : y \in Members(h)
  BY <1>1, <1>3 DEF Members
<1>6. x \in Members(h)
  BY <1>1, <1>3 DEF Members
<1> QED BY <1>4, <1>5, <1>6 DEF h

LEMMA GaplessAppend ==
    ASSUME NEW g \in Seq(Nat), NEW x \in Nat, Gapless(g), x <= Cardinality(Members(g)) + 1
    PROVE  Gapless(Append(g, x))
<1> DEFINE h == Append(g, x)
<1>1. Len(h) = Len(g) + 1 /\ h[Len(g) + 1] = x /\ \A i \in 1..Len(g) : h[i] = g[i]
  BY AppendProperties
<1>2. Len(g) \in Nat
  BY LenProperties
<1> HIDE DEF h
<1>3. SUFFICES ASSUME NEW i \in 1..Len(h)
               PROVE  h[i] <= Cardinality(Before(h, i)) + 1
  BY DEF Gapless, h
<1>4. Before(h, i) = Before(g, i)
  <2>1. \A j \in 1..i - 1 : j \in 1..Len(g)
    BY <1>1, <1>2
  <2> QED BY <1>1, <2>1 DEF Before
<1>5. CASE i = Len(g) + 1
  <2>1. Before(g, i) = Members(g)
    <3>1. 1..i - 1 = 1..Len(g)
      BY <1>2, <1>5
    <3> QED BY <3>1 DEF Before, Members
  <2> QED BY <1>1, <1>4, <1>5, <2>1
<1>6. CASE i # Len(g) + 1
  <2>1. i \in 1..Len(g)
    BY <1>1, <1>2, <1>6
  <2>2. h[i] = g[i]
    BY <1>1, <2>1
  <2>3. g[i] <= Cardinality(Before(g, i)) + 1
    BY <2>1 DEF Gapless
  <2> QED BY <1>4, <2>2, <2>3
<1> QED BY <1>5, <1>6

LEMMA InOrderFetchAgain ==
    ASSUME NEW g \in Seq(Nat), NEW u, NEW f \in Nat, InOrder(g, u, <<>>, f), NEW m \in u
    PROVE  InOrder(g, u \ {m}, <<m>>, f)
<1>1. Len(<<>>) = 0
  OBVIOUS
<1>2. Members(g) = 1..f
  BY <1>1 DEF InOrder
<1>3. Len(<<m>>) = 1 /\ <<m>>[1] = m
  OBVIOUS
<1>4. m \in Members(g) /\ u \ {m} \subseteq Members(g)
  BY DEF InOrder
<1> QED BY <1>2, <1>3, <1>4 DEF InOrder

LEMMA InOrderFetchNext ==
    ASSUME NEW g \in Seq(Nat), NEW u, NEW f \in Nat, InOrder(g, u, <<>>, f), NEW n \in Nat
    PROVE  InOrder(g, u, [i \in 1..n |-> f + i], f + n)
<1> DEFINE b == [i \in 1..n |-> f + i]
<1>1. Len(<<>>) = 0
  OBVIOUS
<1>2. Members(g) = 1..f
  BY <1>1 DEF InOrder
<1>3. Len(b) = n /\ \A i \in 1..n : b[i] = f + i
  OBVIOUS
<1> HIDE DEF b
<1>4. f + n - Len(b) = f /\ Len(b) <= f + n
  BY <1>3
<1>5. InOrder(g, u, b, f + n)
  BY <1>2, <1>3, <1>4 DEF InOrder
<1> QED BY <1>5 DEF b

LEMMA InOrderDeliver ==
    ASSUME NEW g \in Seq(Nat), NEW u, NEW b \in Seq(Nat), b # <<>>, NEW f \in Nat,
           InOrder(g, u, b, f), Gapless(g), NEW v \in SUBSET (u \cup {Head(b)})
    PROVE  /\ InOrder(Append(g, Head(b)), v, Tail(b), f)
           /\ Gapless(Append(g, Head(b)))
<1> DEFINE x == Head(b)
           t == Tail(b)
           h == Append(g, x)
<1>1. x = b[1] /\ x \in Nat /\ Len(b) \in Nat \ {0} /\ Len(t) = Len(b) - 1
      /\ \A i \in 1..Len(t) : t[i] = b[i + 1]
  BY LenProperties, HeadTailProperties, EmptySeq
<1>2. Members(h) = Members(g) \cup {x}
  BY <1>1, MembersAppend
<1> HIDE DEF x, t, h
<1>3. v \subseteq Members(h)
  BY <1>2 DEF InOrder, x
<1>4. CASE Members(g) = 1..f /\ Len(b) = 1 /\ b[1] \in Members(g)
  <2>1. Members(h) = 1..f /\ Len(t) = 0
    BY <1>1, <1>2, <1>4
  <2>2. InOrder(h, v, t, f)
    <3>1. Len(t) <= f /\ f - Len(t) = f /\ 1..Len(t) = {}
      BY <2>1
    <3> QED BY <1>3, <2>1, <3>1 DEF InOrder
  <2>3. x <= Cardinality(Members(g)) + 1
    <3>1. Cardinality(1..f) = f
      BY FS_Interval
    <3> QED BY <1>1, <1>4, <3>1
  <2> QED BY <1>1, <2>2, <2>3, GaplessAppend DEF x, t, h
<1>5. CASE /\ Len(b) <= f /\ Members(g) = 1..(f - Len(b))
           /\ \A i \in 1..Len(b) : b[i] = f - Len(b) + i
  <2>0. PICK k \in Nat : k = f - Len(b)
    <3>1. f - Len(b) \in Nat
      <4>1. Len(b) \in Nat /\ Len(b) <= f
        BY <1>1, <1>5
      <4> QED BY <4>1
    <3> QED BY <3>1
  <2>1. x = k + 1 /\ Members(g) = 1..k
    BY <1>1, <1>5, <2>0
  <2>2. Members(h) = 1..k + 1 /\ Len(t) <= f /\ f - Len(t) = k + 1
    <3>1. Len(b) \in Nat \ {0} /\ Len(b) <= f /\ Len(t) = Len(b) - 1
      BY <1>1, <1>5
    <3>2. Len(t) <= f /\ f - Len(t) = k + 1
      BY <2>0, <3>1
    <3>3. 1..k + 1 = (1..k) \cup {k + 1}
      OBVIOUS
    <3> QED BY <1>2, <2>1, <3>2, <3>3
  <2>3. \A i \in 1..Len(t) : t[i] = f - Len(t) + i
    <3>1. TAKE i \in 1..Len(t)
    <3>2. i + 1 \in 1..Len(b) /\ i \in Nat
      BY <1>1
    <3>3. b[i + 1] = k + (i + 1)
      BY <1>5, <2>0, <3>2
    <3>4. t[i] = b[i + 1]
      BY <1>1
    <3> QED BY <2>2, <3>2, <3>3, <3>4
  <2>4. InOrder(h, v, t, f)
    BY <1>3, <2>2, <2>3 DEF InOrder
  <2>5. x <= Cardinality(Members(g)) + 1
    <3>1. Cardinality(1..k) = k
      BY FS_Interval
    <3> QED BY <2>1, <3>1
  <2> QED BY <1>1, <2>4, <2>5, GaplessAppend DEF x, t, h
<1> QED BY <1>4, <1>5 DEF InOrder
-----------------------------------------------------------------------------
(* ActiveClient: the sessions that are known *)

\* The conjuncts of SessionTypeOK about the sessions and the map of active clients.
KnownTypes ==
    /\ hermes \in {"up", "dead"}
    /\ conn \in [Client -> {"none", "open", "silent", "broken"}]
    /\ reader \in [Client -> {"none", "first", "registering", "reading", "ended"}]
    /\ idle \in [Client -> 0..SessionTimeout]
    /\ active \subseteq Client /\ registering \subseteq Client
    /\ check \in {"waiting", "ranging"}
    /\ toVisit \subseteq Client /\ doomed \subseteq Client /\ Cardinality(doomed) <= 1
    /\ check = "waiting" => toVisit = {} /\ doomed = {}

\* A session that is known, is looked at or about to be dropped has begun; the idle time of a
\* web socket that answers stays below the timeout, and it is not about to be dropped.
KnownOK ==
    /\ \A c \in Client : conn[c] = "none" => reader[c] = "none"
    /\ \A c \in Client : reader[c] = "registering" => c \in registering /\ idle[c] = 0
    /\ \A c \in active \cup toVisit \cup doomed : reader[c] \in {"reading", "ended"}
    /\ \A c \in WebSocket : conn[c] = "open" /\ reader[c] = "reading" =>
         idle[c] <= AnswerWithin /\ c \in active /\ c \notin doomed

\* What the goroutines of the subscriptions do changes nothing of it.
LEMMA KnownSame ==
    ASSUME KnownTypes, KnownOK, UNCHANGED <<hermes, session, map>>
    PROVE  KnownTypes' /\ KnownOK'
BY DEF KnownTypes, KnownOK, session, map

LEMMA KnownStep ==
    ASSUME KnownTypes, KnownOK, SessionNext
    PROVE  KnownTypes' /\ KnownOK'
<1> USE ActiveClientAssumption
<1>1. ASSUME NEW c \in Client, Connect(c)
      PROVE  KnownTypes' /\ KnownOK'
  <2>1. KnownTypes'
    BY <1>1 DEF Connect, SetReader, Active, KnownTypes, map
  <2> QED BY <1>1, <2>1 DEF Connect, SetReader, Active, KnownTypes, KnownOK, map
<1>2. ASSUME NEW c \in Client, FirstMessage(c)
      PROVE  KnownTypes' /\ KnownOK'
  <2>1. KnownTypes'
    BY <1>2 DEF FirstMessage, SetReader, Active, KnownTypes
  <2> QED BY <1>2, <2>1 DEF FirstMessage, SetReader, Active, KnownTypes, KnownOK
<1>3. ASSUME NEW c \in Client, Register(c)
      PROVE  KnownTypes' /\ KnownOK'
  <2>1. KnownTypes'
    BY <1>3 DEF Register, SetReader, KnownTypes
  <2>2. c \notin doomed
    BY <1>3 DEF Register, KnownOK
  <2> QED BY <1>3, <2>1, <2>2 DEF Register, SetReader, KnownTypes, KnownOK
<1>4. ASSUME NEW c \in Client, Active(c), UNCHANGED <<hermes, conn, reader, map>>,
             reader[c] = "reading"
      PROVE  KnownTypes' /\ KnownOK'
  <2>1. KnownTypes'
    BY <1>4 DEF Active, KnownTypes, map
  <2> QED BY <1>4, <2>1 DEF Active, KnownTypes, KnownOK, map
<1>5. ASSUME NEW c \in Client, ReaderEnds(c)
      PROVE  KnownTypes' /\ KnownOK'
  <2>1. KnownTypes'
    BY <1>5 DEF ReaderEnds, SetReader, KnownTypes, map
  <2> QED BY <1>5, <2>1 DEF ReaderEnds, SetReader, KnownTypes, KnownOK, map
<1>6. ASSUME NEW c \in Client, GoSilent(c) \/ Break(c)
      PROVE  KnownTypes' /\ KnownOK'
  <2>1. KnownTypes'
    BY <1>6 DEF GoSilent, Break, KnownTypes, map
  <2> QED BY <1>6, <2>1 DEF GoSilent, Break, KnownTypes, KnownOK, map
<1>7. CASE BeginCheck
  BY <1>7 DEF BeginCheck, KnownTypes, KnownOK, session
<1>8. ASSUME NEW c \in Client, Visit(c)
      PROVE  KnownTypes' /\ KnownOK'
  <2>1. KnownTypes'
    <3>1. Cardinality(doomed') <= 1
      <4>1. Cardinality({c}) = 1 /\ Cardinality({}) = 0
        BY FS_Singleton, FS_EmptySet
      <4>2. doomed' = {c} \/ doomed' = {}
        BY <1>8 DEF Visit
      <4> QED BY <4>1, <4>2
    <3> QED BY <1>8, <3>1 DEF Visit, KnownTypes, session
  <2>2. ASSUME NEW d \in WebSocket, conn[d] = "open", reader[d] = "reading"
        PROVE  d \notin doomed'
    <3>1. idle[d] <= AnswerWithin /\ idle[d] \in Nat
      BY <2>2 DEF KnownTypes, KnownOK
    <3> QED BY <1>8, <3>1 DEF Visit
  <2> QED BY <1>8, <2>1, <2>2 DEF Visit, KnownTypes, KnownOK, session
<1>9. ASSUME NEW c \in Client, Drop(c)
      PROVE  KnownTypes' /\ KnownOK'
  <2>1. KnownTypes'
    <3>1. Cardinality(doomed') <= 1
      BY <1>9, FS_EmptySet DEF Drop
    <3> QED BY <1>9, <3>1 DEF Drop, KnownTypes, session
  <2> QED BY <1>9, <2>1 DEF Drop, KnownTypes, KnownOK, session
<1>10. CASE EndCheck
  BY <1>10 DEF EndCheck, KnownTypes, KnownOK, session
<1>11. CASE Period
  <2>1. KnownTypes'
    BY <1>11 DEF Period, KnownTypes, map
  <2>2. \A c \in Client : reader[c] # "registering"
    BY <1>11 DEF Period, KnownOK
  <2>3. ASSUME NEW c \in WebSocket, conn[c] = "open", reader[c] = "reading"
        PROVE  idle'[c] <= AnswerWithin
    <3>1. idle[c] < AnswerWithin
      BY <1>11, <2>3 DEF Period, AnswersDue, KnownTypes
    <3> QED BY <1>11, <3>1 DEF Period, KnownTypes
  <2> QED BY <1>11, <2>1, <2>2, <2>3 DEF Period, KnownOK, map
<1>12. ASSUME NEW c \in Client, Session(c)
       PROVE  KnownTypes' /\ KnownOK'
  <2>1. CASE Hear(c) \/ Pong(c) \/ \E s \in Sub : RegisterClientSub(c, s) \/ UnRegisterSub(c, s)
    BY <1>4, <2>1 DEF Hear, Pong, RegisterClientSub, UnRegisterSub
  <2> QED BY <1>1, <1>2, <1>3, <1>5, <1>6, <1>12, <2>1 DEF Session
<1>13. ASSUME NEW c \in Client, NEW s \in Sub, Subscription(c, s)
       PROVE  KnownTypes' /\ KnownOK'
  BY <1>13, KnownSame DEF Subscription, Fetch, Deliver, Rest
<1> QED
  BY <1>7, <1>8, <1>9, <1>10, <1>11, <1>12, <1>13 DEF SessionNext, LifeCycleCheck
-----------------------------------------------------------------------------
(* ActiveClient: what the clients receive *)

\* The conjuncts of SessionTypeOK about the subscriptions.
FlowTypes ==
    /\ table \in [Client -> SUBSET Sub]
    /\ worker \in [Client -> [Sub -> {"none", "running", "ended"}]]
    /\ batch \in [Client -> [Sub -> Seq(1..MaxMessages)]]
    /\ fetched \in [Client -> [Sub -> 0..MaxMessages]]
    /\ unacked \in [Client -> [Sub -> SUBSET (1..MaxMessages)]]
    /\ got \in [Client -> [Sub -> Seq(1..MaxMessages)]]
    /\ \A c \in Client, s \in Sub :
        /\ unacked[c][s] \subseteq 1..fetched[c][s]
        /\ \A i \in 1..Len(batch[c][s]) : batch[c][s][i] <= fetched[c][s]
        /\ worker[c][s] # "none" => reader[c] \in {"reading", "ended"}
    /\ sessionFaults \in 0..MaxSessionFaults

\* Until the connection breaks, the messages of a subscription are in order.
FlowOK ==
    \A c \in Client, s \in Sub : \/ conn[c] = "broken"
                                 \/ InOrder(got[c][s], unacked[c][s], batch[c][s], fetched[c][s])

LEMMA TypesSplit == SessionTypeOK <=> KnownTypes /\ FlowTypes
BY DEF SessionTypeOK, KnownTypes, FlowTypes, Places

LEMMA GaplessSplit == NoGap <=> \A c \in Client, s \in Sub : Gapless(got[c][s])
BY DEF NoGap, Gapless, Before

\* One subscription of one session changes.
LEMMA CellSet ==
    ASSUME NEW S, NEW F \in [Client -> [Sub -> S]], NEW c \in Client, NEW s \in Sub, NEW x \in S
    PROVE  /\ [F EXCEPT ![c][s] = x] \in [Client -> [Sub -> S]]
           /\ [F EXCEPT ![c][s] = x][c][s] = x
           /\ \A d \in Client, q \in Sub :
                d # c \/ q # s => [F EXCEPT ![c][s] = x][d][q] = F[d][q]
OBVIOUS

\* A batch fetched for the first time is a sequence of places of the stream.
LEMMA BatchType ==
    ASSUME NEW f \in Nat, NEW n \in Nat, f + n <= MaxMessages
    PROVE  [i \in 1..n |-> f + i] \in Seq(1..MaxMessages)
<1>1. \A i \in 1..n : f + i \in 1..MaxMessages
  BY ActiveClientAssumption
<1>2. [i \in 1..n |-> f + i] \in [1..n -> 1..MaxMessages]
  BY <1>1
<1> QED BY <1>2, SeqDef

FlowInv == FlowTypes /\ FlowOK /\ NoGap

LEMMA FlowInit ==
    ASSUME SessionInit
    PROVE  FlowInv
<1>1. \A c \in Client, s \in Sub :
        /\ table[c] = {} /\ worker[c][s] = "none" /\ batch[c][s] = <<>> /\ fetched[c][s] = 0
        /\ unacked[c][s] = {} /\ got[c][s] = <<>>
  BY DEF SessionInit, Empty
<1>2. FlowTypes
  <2>1. <<>> \in Seq(1..MaxMessages) /\ Len(<<>>) = 0
    BY EmptySeq
  <2>2. /\ table \in [Client -> SUBSET Sub]
        /\ worker \in [Client -> [Sub -> {"none", "running", "ended"}]]
        /\ fetched \in [Client -> [Sub -> 0..MaxMessages]]
        /\ unacked \in [Client -> [Sub -> SUBSET (1..MaxMessages)]]
        /\ sessionFaults \in 0..MaxSessionFaults
    BY ActiveClientAssumption DEF SessionInit, Empty
  <2>3. /\ batch \in [Client -> [Sub -> Seq(1..MaxMessages)]]
        /\ got \in [Client -> [Sub -> Seq(1..MaxMessages)]]
    BY <2>1 DEF SessionInit, Empty
  <2> QED BY <1>1, <2>1, <2>2, <2>3 DEF FlowTypes
<1>3. Members(<<>>) = {} /\ Gapless(<<>>)
  BY DEF Members, Gapless
<1>4. InOrder(<<>>, {}, <<>>, 0)
  BY <1>3 DEF InOrder
<1> QED BY <1>1, <1>2, <1>3, <1>4, GaplessSplit DEF FlowInv, FlowOK

\* Steps of the reader and of the connection leave the messages as they are.
LEMMA FlowKept ==
    ASSUME FlowInv, UNCHANGED <<batch, fetched, unacked, got>>,
           \A c \in Client : conn[c] = "broken" => conn'[c] = "broken",
           FlowTypes'
    PROVE  FlowInv'
BY DEF FlowInv, FlowOK, NoGap

LEMMA KnownKeepsFlow ==
    ASSUME KnownTypes, KnownOK, FlowInv, LifeCycleCheck \/ Period \/ UNCHANGED sessionVars
    PROVE  FlowInv'
<1>1. UNCHANGED <<conn, reader, table, worker, batch, fetched, unacked, got, sessionFaults>>
  BY DEF LifeCycleCheck, BeginCheck, Visit, Drop, EndCheck, Period, sessionVars, session, flow
<1>2. FlowTypes'
  BY <1>1 DEF FlowInv, FlowTypes
<1> QED BY <1>1, <1>2, FlowKept

LEMMA SessionKeepsFlow ==
    ASSUME KnownTypes, KnownOK, FlowInv, NEW c \in Client, Session(c)
    PROVE  FlowInv'
<1>1. CASE \/ Connect(c) \/ FirstMessage(c) \/ Register(c) \/ Hear(c) \/ Pong(c)
           \/ ReaderEnds(c) \/ GoSilent(c) \/ Break(c)
  <2>1. UNCHANGED flow /\ UNCHANGED table /\ UNCHANGED sessionFaults
    BY <1>1 DEF Connect, FirstMessage, Register, Hear, Pong, ReaderEnds, GoSilent, Break
  <2>2. \A d \in Client : conn[d] = "broken" => conn'[d] = "broken"
    BY <1>1 DEF Connect, FirstMessage, Register, Hear, Pong, ReaderEnds, GoSilent, Break, KnownTypes
  <2>3. \A d \in Client : reader[d] \in {"reading", "ended"} => reader'[d] \in {"reading", "ended"}
    BY <1>1 DEF Connect, FirstMessage, Register, Hear, Pong, ReaderEnds, GoSilent, Break,
                SetReader, KnownTypes, KnownOK
  <2>4. FlowTypes'
    BY <2>1, <2>3 DEF FlowInv, FlowTypes, flow
  <2> QED BY <2>1, <2>2, <2>4, FlowKept DEF flow
<1>2. ASSUME NEW s \in Sub, RegisterClientSub(c, s)
      PROVE  FlowInv'
  <2>1. PICK w \in {"running", "ended"} : worker' = [worker EXCEPT ![c][s] = w]
    BY <1>2 DEF RegisterClientSub
  <2>2. sessionFaults' \in 0..MaxSessionFaults
    BY <1>2, ActiveClientAssumption DEF RegisterClientSub, SessionFails, NoFault, FlowInv, FlowTypes
  <2>3. /\ table' \in [Client -> SUBSET Sub]
        /\ worker' \in [Client -> [Sub -> {"none", "running", "ended"}]]
        /\ \A d \in Client, q \in Sub : d # c \/ q # s => worker'[d][q] = worker[d][q]
    BY <1>2, <2>1, CellSet DEF RegisterClientSub, FlowInv, FlowTypes
  <2>4. FlowTypes'
    BY <1>2, <2>2, <2>3 DEF RegisterClientSub, FlowInv, FlowTypes
  <2> QED BY <1>2, <2>4, FlowKept DEF RegisterClientSub
<1>3. ASSUME NEW s \in Sub, UnRegisterSub(c, s)
      PROVE  FlowInv'
  <2>1. FlowTypes'
    BY <1>3 DEF UnRegisterSub, flow, FlowInv, FlowTypes
  <2> QED BY <1>3, <2>1, FlowKept DEF UnRegisterSub, flow
<1> QED BY <1>1, <1>2, <1>3 DEF Session

\* A step of the goroutine of one subscription: what has to be shown of its new values.
LEMMA OneCell ==
    ASSUME FlowInv, NEW c \in Client, NEW s \in Sub,
           UNCHANGED <<conn, reader, table>>, sessionFaults' \in 0..MaxSessionFaults,
           worker' \in [Client -> [Sub -> {"none", "running", "ended"}]],
           batch' \in [Client -> [Sub -> Seq(1..MaxMessages)]],
           fetched' \in [Client -> [Sub -> 0..MaxMessages]],
           unacked' \in [Client -> [Sub -> SUBSET (1..MaxMessages)]],
           got' \in [Client -> [Sub -> Seq(1..MaxMessages)]],
           \A d \in Client, q \in Sub : d # c \/ q # s =>
             /\ worker'[d][q] = worker[d][q] /\ batch'[d][q] = batch[d][q]
             /\ fetched'[d][q] = fetched[d][q] /\ unacked'[d][q] = unacked[d][q]
             /\ got'[d][q] = got[d][q],
           worker[c][s] = "none" => worker'[c][s] = "none",
           unacked'[c][s] \subseteq 1..fetched'[c][s],
           \A i \in 1..Len(batch'[c][s]) : batch'[c][s][i] <= fetched'[c][s],
           conn[c] = "broken"
             \/ InOrder(got'[c][s], unacked'[c][s], batch'[c][s], fetched'[c][s]),
           Gapless(got'[c][s])
    PROVE  FlowInv'
<1>1. ASSUME NEW d \in Client, NEW q \in Sub
      PROVE  /\ unacked'[d][q] \subseteq 1..fetched'[d][q]
             /\ \A i \in 1..Len(batch'[d][q]) : batch'[d][q][i] <= fetched'[d][q]
             /\ worker'[d][q] # "none" => reader'[d] \in {"reading", "ended"}
             /\ \/ conn'[d] = "broken"
                \/ InOrder(got'[d][q], unacked'[d][q], batch'[d][q], fetched'[d][q])
             /\ Gapless(got'[d][q])
  <2>1. /\ unacked[d][q] \subseteq 1..fetched[d][q]
        /\ \A i \in 1..Len(batch[d][q]) : batch[d][q][i] <= fetched[d][q]
        /\ worker[d][q] # "none" => reader[d] \in {"reading", "ended"}
        /\ conn[d] = "broken" \/ InOrder(got[d][q], unacked[d][q], batch[d][q], fetched[d][q])
        /\ Gapless(got[d][q])
    BY GaplessSplit DEF FlowInv, FlowTypes, FlowOK
  <2>2. CASE d = c /\ q = s
    BY <2>1, <2>2
  <2>3. CASE d # c \/ q # s
    BY <2>1, <2>3
  <2> QED BY <2>2, <2>3
<1>2. FlowTypes'
  BY <1>1 DEF FlowInv, FlowTypes
<1>3. FlowOK'
  BY <1>1 DEF FlowOK
<1>4. NoGap'
  BY <1>1 DEF NoGap, Gapless, Before
<1> QED BY <1>2, <1>3, <1>4 DEF FlowInv

\* What holds of the goroutine of one subscription.
LEMMA CellTypes ==
    ASSUME FlowInv, NEW c \in Client, NEW s \in Sub
    PROVE  /\ batch[c][s] \in Seq(1..MaxMessages) /\ batch[c][s] \in Seq(Nat)
           /\ got[c][s] \in Seq(1..MaxMessages) /\ got[c][s] \in Seq(Nat)
           /\ fetched[c][s] \in 0..MaxMessages
           /\ unacked[c][s] \in SUBSET (1..MaxMessages)
           /\ unacked[c][s] \subseteq 1..fetched[c][s]
           /\ \A i \in 1..Len(batch[c][s]) : batch[c][s][i] <= fetched[c][s]
           /\ conn[c] = "broken" \/ InOrder(got[c][s], unacked[c][s], batch[c][s], fetched[c][s])
           /\ Gapless(got[c][s])
<1>1. batch[c][s] \in Seq(1..MaxMessages) /\ got[c][s] \in Seq(1..MaxMessages)
  BY DEF FlowInv, FlowTypes
<1>2. 1..MaxMessages \subseteq Nat
  OBVIOUS
<1>3. batch[c][s] \in Seq(Nat) /\ got[c][s] \in Seq(Nat)
  BY <1>1, <1>2, SeqMonotonic
<1>4. fetched[c][s] \in 0..MaxMessages /\ unacked[c][s] \in SUBSET (1..MaxMessages)
  BY DEF FlowInv, FlowTypes
<1>5. /\ unacked[c][s] \subseteq 1..fetched[c][s]
      /\ \A i \in 1..Len(batch[c][s]) : batch[c][s][i] <= fetched[c][s]
  BY DEF FlowInv, FlowTypes
<1>6. conn[c] = "broken" \/ InOrder(got[c][s], unacked[c][s], batch[c][s], fetched[c][s])
  BY DEF FlowInv, FlowOK
<1>7. Gapless(got[c][s])
  BY GaplessSplit DEF FlowInv
<1> QED BY <1>1, <1>3, <1>4, <1>5, <1>6, <1>7

LEMMA FetchKeepsFlow ==
    ASSUME FlowInv, NEW c \in Client, NEW s \in Sub, Fetch(c, s)
    PROVE  FlowInv'
<1>1. /\ UNCHANGED <<conn, reader, table, got>> /\ batch[c][s] = <<>>
      /\ worker[c][s] = "running" /\ sessionFaults' \in 0..MaxSessionFaults
  BY ActiveClientAssumption
  DEF Fetch, Rest, session, SessionFails, NoFault, FlowInv, FlowTypes
<1>2. CASE worker' = [worker EXCEPT ![c][s] = "ended"] /\ UNCHANGED <<batch, fetched, unacked>>
  <2>1. /\ worker' \in [Client -> [Sub -> {"none", "running", "ended"}]]
        /\ \A d \in Client, q \in Sub : d # c \/ q # s => worker'[d][q] = worker[d][q]
    BY <1>2, CellSet DEF FlowInv, FlowTypes
  <2>2. FlowTypes'
    BY <1>1, <1>2, <2>1 DEF FlowInv, FlowTypes
  <2> QED BY <1>1, <1>2, <2>2, FlowKept
<1>3. ASSUME NEW m \in unacked[c][s], UNCHANGED <<worker, fetched>>,
             batch' = [batch EXCEPT ![c][s] = <<m>>],
             unacked' = [unacked EXCEPT ![c][s] = @ \ {m}]
      PROVE  FlowInv'
  <2>1. m \in 1..MaxMessages /\ m <= fetched[c][s] /\ unacked[c][s] \ {m} \subseteq 1..MaxMessages
    BY CellTypes
  <2>2. <<m>> \in Seq(1..MaxMessages) /\ Len(<<m>>) = 1 /\ <<m>>[1] = m
    BY <2>1
  <2>3. /\ batch' \in [Client -> [Sub -> Seq(1..MaxMessages)]] /\ batch'[c][s] = <<m>>
        /\ \A d \in Client, q \in Sub : d # c \/ q # s => batch'[d][q] = batch[d][q]
    BY <1>3, <2>2, CellSet DEF FlowInv, FlowTypes
  <2>4. /\ unacked' \in [Client -> [Sub -> SUBSET (1..MaxMessages)]]
        /\ unacked'[c][s] = unacked[c][s] \ {m}
        /\ \A d \in Client, q \in Sub : d # c \/ q # s => unacked'[d][q] = unacked[d][q]
    BY <1>3, <2>1, CellSet DEF FlowInv, FlowTypes
  <2>5. conn[c] = "broken" \/ InOrder(got[c][s], unacked[c][s] \ {m}, <<m>>, fetched[c][s])
    <3>1. fetched[c][s] \in Nat
      BY CellTypes
    <3> QED BY <1>1, <3>1, CellTypes, InOrderFetchAgain
  <2>6. unacked'[c][s] \subseteq 1..fetched[c][s] /\ Gapless(got[c][s])
    BY <2>4, CellTypes
  <2>7. \A i \in 1..Len(batch'[c][s]) : batch'[c][s][i] <= fetched'[c][s]
    BY <1>3, <2>1, <2>2, <2>3
  <2>8. /\ worker \in [Client -> [Sub -> {"none", "running", "ended"}]]
        /\ fetched \in [Client -> [Sub -> 0..MaxMessages]]
        /\ got \in [Client -> [Sub -> Seq(1..MaxMessages)]]
    BY DEF FlowInv, FlowTypes
  <2>9. /\ worker' \in [Client -> [Sub -> {"none", "running", "ended"}]]
        /\ batch' \in [Client -> [Sub -> Seq(1..MaxMessages)]]
        /\ fetched' \in [Client -> [Sub -> 0..MaxMessages]]
        /\ unacked' \in [Client -> [Sub -> SUBSET (1..MaxMessages)]]
        /\ got' \in [Client -> [Sub -> Seq(1..MaxMessages)]]
    BY <1>1, <1>3, <2>3, <2>4, <2>8
  <2>10. \A d \in Client, q \in Sub : d # c \/ q # s =>
           /\ worker'[d][q] = worker[d][q] /\ batch'[d][q] = batch[d][q]
           /\ fetched'[d][q] = fetched[d][q] /\ unacked'[d][q] = unacked[d][q]
           /\ got'[d][q] = got[d][q]
    BY <1>1, <1>3, <2>3, <2>4
  <2>11. /\ worker[c][s] = "none" => worker'[c][s] = "none"
         /\ unacked'[c][s] \subseteq 1..fetched'[c][s]
         /\ \/ conn[c] = "broken"
            \/ InOrder(got'[c][s], unacked'[c][s], batch'[c][s], fetched'[c][s])
         /\ Gapless(got'[c][s])
    BY <1>1, <1>3, <2>3, <2>4, <2>5, <2>6
  <2> QED BY <1>1, <2>7, <2>9, <2>10, <2>11, OneCell
<1>4. ASSUME NEW n \in 1..BatchSize, UNCHANGED <<worker, unacked>>,
             fetched[c][s] + n <= MaxMessages,
             batch' = [batch EXCEPT ![c][s] = [i \in 1..n |-> fetched[c][s] + i]],
             fetched' = [fetched EXCEPT ![c][s] = @ + n]
      PROVE  FlowInv'
  <2> DEFINE b == [i \in 1..n |-> fetched[c][s] + i]
  <2>1. n \in Nat /\ fetched[c][s] \in Nat /\ fetched[c][s] + n \in 0..MaxMessages
    BY <1>4, CellTypes, ActiveClientAssumption
  <2>2. b \in Seq(1..MaxMessages) /\ Len(b) = n /\ \A i \in 1..n : b[i] = fetched[c][s] + i
    BY <1>4, <2>1, BatchType
  <2>3. /\ batch' \in [Client -> [Sub -> Seq(1..MaxMessages)]] /\ batch'[c][s] = b
        /\ \A d \in Client, q \in Sub : d # c \/ q # s => batch'[d][q] = batch[d][q]
    BY <1>4, <2>2, CellSet DEF FlowInv, FlowTypes
  <2>4. /\ fetched' \in [Client -> [Sub -> 0..MaxMessages]]
        /\ fetched'[c][s] = fetched[c][s] + n
        /\ \A d \in Client, q \in Sub : d # c \/ q # s => fetched'[d][q] = fetched[d][q]
    BY <1>4, <2>1, CellSet DEF FlowInv, FlowTypes
  <2>5. conn[c] = "broken" \/ InOrder(got[c][s], unacked[c][s], b, fetched[c][s] + n)
    BY <1>1, <2>1, CellTypes, InOrderFetchNext
  <2> HIDE DEF b
  <2>6. unacked[c][s] \subseteq 1..fetched'[c][s] /\ Gapless(got[c][s])
    BY <2>1, <2>4, CellTypes
  <2>7. \A i \in 1..Len(batch'[c][s]) : batch'[c][s][i] <= fetched'[c][s]
    BY <2>1, <2>2, <2>3, <2>4
  <2>8. /\ worker \in [Client -> [Sub -> {"none", "running", "ended"}]]
        /\ unacked \in [Client -> [Sub -> SUBSET (1..MaxMessages)]]
        /\ got \in [Client -> [Sub -> Seq(1..MaxMessages)]]
    BY DEF FlowInv, FlowTypes
  <2>9. /\ worker' \in [Client -> [Sub -> {"none", "running", "ended"}]]
        /\ batch' \in [Client -> [Sub -> Seq(1..MaxMessages)]]
        /\ fetched' \in [Client -> [Sub -> 0..MaxMessages]]
        /\ unacked' \in [Client -> [Sub -> SUBSET (1..MaxMessages)]]
        /\ got' \in [Client -> [Sub -> Seq(1..MaxMessages)]]
    BY <1>1, <1>4, <2>3, <2>4, <2>8
  <2>10. \A d \in Client, q \in Sub : d # c \/ q # s =>
           /\ worker'[d][q] = worker[d][q] /\ batch'[d][q] = batch[d][q]
           /\ fetched'[d][q] = fetched[d][q] /\ unacked'[d][q] = unacked[d][q]
           /\ got'[d][q] = got[d][q]
    BY <1>1, <1>4, <2>3, <2>4
  <2>11. /\ worker[c][s] = "none" => worker'[c][s] = "none"
         /\ unacked'[c][s] \subseteq 1..fetched'[c][s]
         /\ \/ conn[c] = "broken"
            \/ InOrder(got'[c][s], unacked'[c][s], batch'[c][s], fetched'[c][s])
         /\ Gapless(got'[c][s])
    BY <1>1, <1>4, <2>3, <2>4, <2>5, <2>6
  <2> QED BY <1>1, <2>7, <2>9, <2>10, <2>11, OneCell
<1> QED BY <1>2, <1>3, <1>4 DEF Fetch

LEMMA DeliverKeepsFlow ==
    ASSUME FlowInv, NEW c \in Client, NEW s \in Sub, Deliver(c, s)
    PROVE  FlowInv'
<1> DEFINE x == Head(batch[c][s])
           t == Tail(batch[c][s])
<1>1. /\ UNCHANGED <<conn, reader, table, worker, fetched>> /\ batch[c][s] # <<>>
      /\ sessionFaults' \in 0..MaxSessionFaults
      /\ batch' = [batch EXCEPT ![c][s] = t]
  BY ActiveClientAssumption
  DEF Deliver, Rest, session, SessionFails, NoFault, FlowInv, FlowTypes
<1>2. /\ x = batch[c][s][1] /\ x \in 1..MaxMessages /\ t \in Seq(1..MaxMessages)
      /\ Len(batch[c][s]) \in Nat \ {0} /\ Len(t) = Len(batch[c][s]) - 1
      /\ \A i \in 1..Len(t) : t[i] = batch[c][s][i + 1]
  <2>1. batch[c][s] \in Seq(1..MaxMessages)
    BY CellTypes
  <2>2. Len(batch[c][s]) \in Nat \ {0}
    BY <1>1, <2>1, EmptySeq
  <2>3. x = batch[c][s][1]
    BY <1>1, <2>1
  <2> QED BY <1>1, <2>1, <2>2, <2>3, HeadTailProperties
<1>3. x <= fetched[c][s] /\ \A i \in 1..Len(t) : t[i] <= fetched[c][s]
  <2>1. 1 \in 1..Len(batch[c][s]) /\ \A i \in 1..Len(t) : i + 1 \in 1..Len(batch[c][s])
    BY <1>2
  <2> QED BY <1>2, <2>1, CellTypes
<1>4. PICK v \in {unacked[c][s], unacked[c][s] \cup {x}} :
        unacked' = [unacked EXCEPT ![c][s] = v]
  <2>1. unacked = [unacked EXCEPT ![c][s] = unacked[c][s]]
    BY DEF FlowInv, FlowTypes
  <2>2. unacked' = unacked \/ unacked' = [unacked EXCEPT ![c][s] = unacked[c][s] \cup {x}]
    BY DEF Deliver, Head1
  <2> QED BY <2>1, <2>2
<1>5. PICK g \in {got[c][s], Append(got[c][s], x)} :
        /\ got' = [got EXCEPT ![c][s] = g]
        /\ conn[c] # "broken" => g = Append(got[c][s], x)
        /\ conn[c] = "broken" => g = got[c][s]
  <2>1. got = [got EXCEPT ![c][s] = got[c][s]]
    BY DEF FlowInv, FlowTypes
  <2>2. IF conn[c] = "broken" THEN got' = got
        ELSE got' = [got EXCEPT ![c][s] = Append(got[c][s], x)]
    BY DEF Deliver, Written, Head1
  <2> QED BY <2>1, <2>2
<1>6. v \in SUBSET (1..MaxMessages) /\ v \subseteq 1..fetched[c][s]
  BY <1>2, <1>3, CellTypes
<1>7. g \in Seq(1..MaxMessages)
  <2>1. got[c][s] \in Seq(1..MaxMessages)
    BY CellTypes
  <2>2. Append(got[c][s], x) \in Seq(1..MaxMessages)
    BY <1>2, <2>1, AppendProperties
  <2> QED BY <2>1, <2>2
<1>8. Gapless(g) /\ (conn[c] = "broken" \/ InOrder(g, v, t, fetched[c][s]))
  <2>1. CASE conn[c] = "broken"
    BY <1>5, <2>1, CellTypes
  <2>2. CASE conn[c] # "broken"
    <3>1. fetched[c][s] \in Nat /\ v \in SUBSET (unacked[c][s] \cup {x})
      BY CellTypes
    <3>2. InOrder(got[c][s], unacked[c][s], batch[c][s], fetched[c][s])
      BY <2>2, CellTypes
    <3>3. got[c][s] \in Seq(Nat) /\ batch[c][s] \in Seq(Nat) /\ Gapless(got[c][s])
      BY CellTypes
    <3>4. /\ InOrder(Append(got[c][s], x), v, t, fetched[c][s])
          /\ Gapless(Append(got[c][s], x))
      BY <1>1, <3>1, <3>2, <3>3, InOrderDeliver
    <3> QED BY <1>5, <2>2, <3>4
  <2> QED BY <2>1, <2>2
<1> HIDE DEF x, t
<1>9. /\ batch' \in [Client -> [Sub -> Seq(1..MaxMessages)]] /\ batch'[c][s] = t
      /\ \A d \in Client, q \in Sub : d # c \/ q # s => batch'[d][q] = batch[d][q]
  BY <1>1, <1>2, CellSet DEF FlowInv, FlowTypes
<1>10. /\ unacked' \in [Client -> [Sub -> SUBSET (1..MaxMessages)]] /\ unacked'[c][s] = v
       /\ \A d \in Client, q \in Sub : d # c \/ q # s => unacked'[d][q] = unacked[d][q]
  BY <1>4, <1>6, CellSet DEF FlowInv, FlowTypes
<1>11. /\ got' \in [Client -> [Sub -> Seq(1..MaxMessages)]] /\ got'[c][s] = g
       /\ \A d \in Client, q \in Sub : d # c \/ q # s => got'[d][q] = got[d][q]
  BY <1>5, <1>7, CellSet DEF FlowInv, FlowTypes
<1>12. /\ worker' \in [Client -> [Sub -> {"none", "running", "ended"}]]
       /\ fetched' \in [Client -> [Sub -> 0..MaxMessages]]
  BY <1>1 DEF FlowInv, FlowTypes
<1>13. \A d \in Client, q \in Sub : d # c \/ q # s =>
         /\ worker'[d][q] = worker[d][q] /\ batch'[d][q] = batch[d][q]
         /\ fetched'[d][q] = fetched[d][q] /\ unacked'[d][q] = unacked[d][q]
         /\ got'[d][q] = got[d][q]
  BY <1>1, <1>9, <1>10, <1>11
<1>14. /\ worker[c][s] = "none" => worker'[c][s] = "none"
       /\ unacked'[c][s] \subseteq 1..fetched'[c][s]
       /\ \/ conn[c] = "broken"
          \/ InOrder(got'[c][s], unacked'[c][s], batch'[c][s], fetched'[c][s])
       /\ Gapless(got'[c][s])
  BY <1>1, <1>6, <1>8, <1>9, <1>10, <1>11
<1>15. \A i \in 1..Len(batch'[c][s]) : batch'[c][s][i] <= fetched'[c][s]
  BY <1>1, <1>3, <1>9
<1>16. UNCHANGED <<conn, reader, table>> /\ sessionFaults' \in 0..MaxSessionFaults
  BY <1>1
<1>17. /\ batch' \in [Client -> [Sub -> Seq(1..MaxMessages)]]
       /\ unacked' \in [Client -> [Sub -> SUBSET (1..MaxMessages)]]
       /\ got' \in [Client -> [Sub -> Seq(1..MaxMessages)]]
  BY <1>9, <1>10, <1>11
<1> QED BY <1>12, <1>13, <1>14, <1>15, <1>16, <1>17, OneCell
-----------------------------------------------------------------------------
(* ActiveClient: the theorems *)

SessionInv == KnownTypes /\ KnownOK /\ FlowInv

LEMMA SessionInductive == SessionSpec => []SessionInv
<1>1. SessionInit => SessionInv
  <2> SUFFICES ASSUME SessionInit PROVE SessionInv
    OBVIOUS
  <2>1. KnownTypes
    BY ActiveClientAssumption, FS_EmptySet DEF SessionInit, KnownTypes
  <2>2. KnownOK
    BY ActiveClientAssumption DEF SessionInit, KnownOK
  <2> QED BY <2>1, <2>2, FlowInit DEF SessionInv
<1>2. SessionInv /\ [SessionNext]_sessionVars => SessionInv'
  <2> SUFFICES ASSUME SessionInv, [SessionNext]_sessionVars
               PROVE  SessionInv'
    OBVIOUS
  <2>1. KnownTypes' /\ KnownOK'
    BY KnownStep, KnownSame DEF SessionInv, sessionVars
  <2>2. FlowInv'
    BY SessionKeepsFlow, FetchKeepsFlow, DeliverKeepsFlow, KnownKeepsFlow
    DEF SessionInv, SessionNext, Subscription
  <2> QED BY <2>1, <2>2 DEF SessionInv
<1> QED BY <1>1, <1>2, PTL DEF SessionSpec

\* The sessions, the map of active clients and the subscriptions hold what their types say;
\* that the check that ranges over the map (RunSingleLifeCycleCheck) deletes one session at a
\* time, and that only a session whose reader has begun (Register) has goroutines of
\* subscriptions (RegisterClientSub), is part of it.
THEOREM SessionTypes == SessionSpec => []SessionTypeOK
<1>1. SessionInv => SessionTypeOK
  BY TypesSplit DEF SessionInv, FlowInv
<1> QED BY <1>1, SessionInductive, PTL

\* A web socket that answers the pings is in the map of active clients, for any number of
\* sessions and any timeout above the time of an answer: StartProtocol reads on only after
\* Register, its pong handler resets the activity, and RunSingleLifeCycleCheck deletes only
\* what was silent for the whole timeout when it looked.
THEOREM AnsweringStaysKnown == SessionSpec => []AnsweringIsKnown
<1>1. SessionInv => AnsweringIsKnown
  BY DEF SessionInv, KnownOK, AnsweringIsKnown
<1> QED BY <1>1, SessionInductive, PTL

\* The messages a client receives of a subscription (RegisterClientSub, RunWorkQueue) have no
\* gap and no new one comes before an older one, for any batch size, any number of messages,
\* any lost acknowledgements and failed fetches, wherever the connection breaks.
THEOREM DeliveredWithoutGap == SessionSpec => []NoGap
<1>1. SessionInv => NoGap
  BY DEF SessionInv, FlowInv
<1> QED BY <1>1, SessionInductive, PTL
=============================================================================
