---------------------------- MODULE MailboxStore ----------------------------
(***************************************************************************)
(* The hermes mailbox store (hermes/mailbox-store.go, mailbox.go), with    *)
(* the purge loop of hermes/server.go and the keep-alive ticker of         *)
(* hermes/directclient.                                                    *)
(*                                                                         *)
(* Every process that speaks to NATS has a MailboxStoreStruct of its own:  *)
(* a mutex and an in-memory map of mailboxes.  All of them share two       *)
(* JetStream key-value buckets and the streams behind the channels.  The   *)
(* mutex orders the threads of ONE process; between two bucket operations  *)
(* of a thread any other process may act, and so may the threads of the    *)
(* same process that use the buckets without the mutex.  A step of the     *)
(* model is therefore one bucket or stream operation.                      *)
(*                                                                         *)
(* A mailbox is identified by its admin key.  Its reader key, a uuid drawn *)
(* with the admin key, is identified with it: the reader entries of the    *)
(* bucket MailboxesByRWKeysKV are a set of admin keys.  So is the random   *)
(* address of a mailbox that has no name.                                  *)
(***************************************************************************)
EXTENDS Naturals, FiniteSets

CONSTANTS
    Proc,            \* processes that hold a MailboxStoreStruct
    Thread,          \* goroutines that call it
    ProcOf,          \* the process of each thread
    PurgeThread,     \* the threads that run RunMailboxPurge (engine "purge")
    AdminKey,        \* the uuids drawn for mailboxes
    Name,            \* addresses of named mailboxes
    Channel,         \* channel names
    CreateChannels,  \* the channels of a CreateMailboxRequest
    NoKey, NoMbox, NoThread,
    NamedTimeout,    \* purge timeout of a named mailbox (3 months)
    DefaultTimeout,  \* purge timeout of the others (24 hours)
    KeepAliveEvery,  \* period of the keep-alive ticker (5 minutes)
    HttpProc,        \* the processes that serve client sessions (engine "http")
    OpaqueDecodes,   \* whether encoding/json can decode the types of hermes/model
    Requests,        \* the kinds of request that the threads receive
    SlowOps,         \* whether a request may last a unit of time or more
    MaxTime,         \* bound: the clock stops here
    FaultyOps,       \* which bucket and stream operations may fail
    MaxFaults,       \* bound: how many of them do
    CrashProc,       \* the processes that may be killed
    MaxCrashes       \* bound: how many times one is

Address == AdminKey \cup Name

ASSUME ConstantsAssumption ==
    /\ ProcOf \in [Thread -> Proc]
    /\ PurgeThread \subseteq Thread
    /\ HttpProc \subseteq Proc
    /\ CreateChannels \subseteq Channel
    /\ AdminKey \cap Name = {}
    /\ NoKey \notin Address
    /\ NoThread \notin Thread
    /\ NamedTimeout \in Nat \ {0}
    /\ DefaultTimeout \in Nat \ {0}
    /\ KeepAliveEvery \in Nat \ {0}
    /\ Requests \subseteq {"lookup", "fetchOrCreate", "create", "addChannel"}
    /\ OpaqueDecodes \in BOOLEAN
    /\ SlowOps \in BOOLEAN
    /\ MaxTime \in Nat
    /\ FaultyOps \subseteq {"get", "put", "delete", "addStream"}
    /\ MaxFaults \in Nat
    /\ CrashProc \subseteq Proc
    /\ MaxCrashes \in Nat

\* A mailbox as marshalled into AdminMailboxesKV and as held in memory.
Mailbox == [key : AdminKey, address : Address,
            channels : SUBSET Channel, lastActivity : Nat]

ASSUME NoMboxAssumption == NoMbox \notin Mailbox

VARIABLES
    clock,        \* a8.NowUtcTimestamp, in units of the timeouts
    adminKV,      \* bucket HermesMailboxesByAdminKey
    readerKV,     \* bucket HermesMailboxesByRWKeys: the reader keys in it
    addressKV,    \* bucket HermesMailboxesByRWKeys: address -> admin key
    streams,      \* JetStream streams, one per <<mailbox, channel>>
    revived,      \* history: addresses of mailboxes written back after they were deleted
    issued,       \* the admin keys drawn so far
    lock,         \* MailboxStoreStruct.Mutex of each process
    cached,       \* InMemoryMailboxes, entries under admin and reader keys
    cachedAddr,   \* InMemoryMailboxes, entries under addresses
    needsUpdate,  \* the in-memory mailboxes whose needsUpdate flag is set
    owned,        \* the mailbox a process keeps alive with a ticker
    pc, op,       \* where each thread is, and for whom
    key, addr,    \* arguments and locals of the operation of a thread
    mbox, chans,  \*   the Mailbox object it works on, channels to do
    todo,         \*   admin keys the purge pass has still to visit
    faults, crashes

store == <<adminKV, readerKV, addressKV, streams, revived>>
memory == <<lock, cached, cachedAddr, needsUpdate, owned>>
local == <<pc, op, key, addr, mbox, chans, todo>>
env == <<clock, issued, faults, crashes>>
vars == <<clock, adminKV, readerKV, addressKV, streams, revived, issued, lock, cached,
          cachedAddr, needsUpdate, owned, pc, op, key, addr, mbox, chans, todo, faults, crashes>>

Labels == {"idle", "lookupRW", "lookupAdmin", "createCheck", "createChannels",
           "putAddress", "putAdmin", "addStream", "updateStore",
           "purgeNext", "purgeReader", "purgeAddress", "purgeAdmin", "purgeStreams"}

\* The labels at which a thread holds the mutex of its process.
Critical == {"lookupAdmin", "createChannels", "putAddress", "putAdmin",
             "purgeAddress", "purgeAdmin"}

StoreTypeOK ==
    /\ adminKV \in [AdminKey -> Mailbox \cup {NoMbox}]
    /\ readerKV \in SUBSET AdminKey
    /\ addressKV \in [Address -> AdminKey \cup {NoKey}]
    /\ streams \in SUBSET (AdminKey \X Channel)
    /\ revived \in SUBSET Address

MemoryTypeOK ==
    /\ lock \in [Proc -> Thread \cup {NoThread}]
    /\ cached \in [Proc -> [AdminKey -> Mailbox \cup {NoMbox}]]
    /\ cachedAddr \in [Proc -> [Address -> AdminKey \cup {NoKey}]]
    /\ needsUpdate \in [Proc -> SUBSET AdminKey]
    /\ owned \in [Proc -> Mailbox \cup {NoMbox}]

LocalTypeOK ==
    /\ pc \in [Thread -> Labels]
    /\ op \in [Thread -> {"none", "lookup", "serve", "own"}]
    /\ key \in [Thread -> AdminKey \cup {NoKey}]
    /\ addr \in [Thread -> Address \cup {NoKey}]
    /\ mbox \in [Thread -> Mailbox \cup {NoMbox}]
    /\ chans \in [Thread -> SUBSET Channel]
    /\ todo \in [Thread -> SUBSET AdminKey]

EnvTypeOK == clock \in Nat /\ issued \in SUBSET AdminKey /\ faults \in Nat /\ crashes \in Nat

\* What each variable holds; the buckets never hold anything but mailboxes
\* and admin keys, and a thread's locals have the Go types of its locals.
TypeOK == StoreTypeOK /\ MemoryTypeOK /\ LocalTypeOK /\ EnvTypeOK

Init ==
    /\ clock = 0
    /\ adminKV = [a \in AdminKey |-> NoMbox]
    /\ readerKV = {}
    /\ addressKV = [x \in Address |-> NoKey]
    /\ streams = {}
    /\ revived = {}
    /\ issued = {}
    /\ lock = [p \in Proc |-> NoThread]
    /\ cached = [p \in Proc |-> [a \in AdminKey |-> NoMbox]]
    /\ cachedAddr = [p \in Proc |-> [x \in Address |-> NoKey]]
    /\ needsUpdate = [p \in Proc |-> {}]
    /\ owned = [p \in Proc |-> NoMbox]
    /\ pc = [t \in Thread |-> "idle"]
    /\ op = [t \in Thread |-> "none"]
    /\ key = [t \in Thread |-> NoKey]
    /\ addr = [t \in Thread |-> NoKey]
    /\ mbox = [t \in Thread |-> NoMbox]
    /\ chans = [t \in Thread |-> {}]
    /\ todo = [t \in Thread |-> {}]
    /\ faults = 0
    /\ crashes = 0
-----------------------------------------------------------------------------
(* Helpers *)

\* A bucket or stream operation of kind k succeeds, or fails within the bound.
Succeeds(k) == faults' = faults
Fails(k) == k \in FaultyOps /\ faults < MaxFaults /\ faults' = faults + 1

Free(t) == lock[ProcOf[t]] = NoThread
Acquire(t) == lock' = [lock EXCEPT ![ProcOf[t]] = t]
Release(t) == lock' = [lock EXCEPT ![ProcOf[t]] = NoThread]

Goto(t, l) == pc' = [pc EXCEPT ![t] = l]

\* The operation of t returns to its caller; its locals are gone.
Return(t) ==
    /\ pc' = [pc EXCEPT ![t] = "idle"]
    /\ op' = [op EXCEPT ![t] = "none"]
    /\ key' = [key EXCEPT ![t] = NoKey]
    /\ addr' = [addr EXCEPT ![t] = NoKey]
    /\ mbox' = [mbox EXCEPT ![t] = NoMbox]
    /\ chans' = [chans EXCEPT ![t] = {}]
    /\ todo' = [todo EXCEPT ![t] = {}]

\* The mailbox returned by a "serve" call is used by the server or dropped; the
\* one returned to CreateRpcMailbox is kept alive by that process.
Own(t, m) == owned' = IF op[t] = "own" THEN [owned EXCEPT ![ProcOf[t]] = m] ELSE owned

\* Gets the entry of AdminMailboxesKV and decodes it, nil on any error.  The keys
\* and channels of a Mailbox have the types of model-opaques.go, interfaces that
\* encoding/json writes as strings and cannot read back: at this commit
\* OpaqueDecodes is FALSE, and every fetch answers nil.  TRUE is what the code
\* does with the string types that model.go keeps in a comment.
FetchMailboxByAdminKey(a) == IF OpaqueDecodes THEN adminKV[a] ELSE NoMbox

PurgeTimeout(m) == IF m.address \in Name THEN NamedTimeout ELSE DefaultTimeout

\* Wrong variants of Expired: a unit early, and IsPurgable without its negation.
ExpiredEarly(m) == clock - m.lastActivity >= PurgeTimeout(m) - 1
ExpiredInverted(m) == clock - m.lastActivity < PurgeTimeout(m)

\* The negation of IsPurgable, which holds while the mailbox is NOT expired.
Expired(m) == clock - m.lastActivity >= PurgeTimeout(m)

\* The cache entry MailboxLookup consults: reader key (addr = NoKey) or address.
Hit(p, a, x) ==
    IF x = NoKey THEN cached[p][a] ELSE
        IF cachedAddr[p][x] = NoKey THEN NoMbox ELSE cached[p][cachedAddr[p][x]]

\* The entry of MailboxesByRWKeysKV under the same key.
RWGet(a, x) ==
    IF x = NoKey THEN (IF a \in readerKV THEN a ELSE NoKey) ELSE addressKV[x]
-----------------------------------------------------------------------------
(* MailboxLookup, CreateMailbox and FetchOrCreateNamedMailbox *)

\* FetchMailboxByReaderKey / FetchMailboxByAddress on a cache miss (a hit changes
\* nothing).  a is the mailbox whose reader key is looked up when x is NoKey.
StartLookup(t, a, x) ==
    /\ pc[t] = "idle" /\ t \notin PurgeThread
    /\ Hit(ProcOf[t], a, x) = NoMbox
    /\ Goto(t, "lookupRW")
    /\ op' = [op EXCEPT ![t] = "lookup"]
    /\ key' = [key EXCEPT ![t] = a]
    /\ addr' = [addr EXCEPT ![t] = x]
    /\ UNCHANGED <<store, memory, env, mbox, chans, todo>>

\* Bound: a creation starts only while a uuid is left for each one under way.
UuidLeft ==
    Cardinality({u \in Thread : op[u] \in {"serve", "own"}}) < Cardinality(AdminKey \ issued)

\* CreateRpcMailbox is called once by a process.
MayOwn(p) ==
    /\ owned[p] = NoMbox
    /\ \A u \in Thread : ProcOf[u] = p => op[u] # "own"

\* FetchOrCreateNamedMailbox(n): for the hermes server ("serve") or for
\* directclient.CreateRpcMailbox ("own").
StartFetchOrCreate(t, n, o) ==
    /\ pc[t] = "idle" /\ t \notin PurgeThread
    /\ UuidLeft /\ (o = "own" => MayOwn(ProcOf[t]))
    /\ IF Hit(ProcOf[t], NoKey, n) # NoMbox
       THEN /\ owned' = IF o = "own"
                        THEN [owned EXCEPT ![ProcOf[t]] = Hit(ProcOf[t], NoKey, n)]
                        ELSE owned
            /\ UNCHANGED <<pc, op, addr>>
       ELSE /\ Goto(t, "lookupRW")
            /\ op' = [op EXCEPT ![t] = o]
            /\ addr' = [addr EXCEPT ![t] = n]
            /\ UNCHANGED owned
    /\ UNCHANGED <<store, env, lock, cached, cachedAddr, needsUpdate, key, mbox, chans, todo>>

\* CreateMailbox: the address is drawn together with the keys.
StartCreate(t, o) ==
    /\ pc[t] = "idle" /\ t \notin PurgeThread
    /\ UuidLeft /\ (o = "own" => MayOwn(ProcOf[t]))
    /\ Goto(t, "createCheck")
    /\ op' = [op EXCEPT ![t] = o]
    /\ UNCHANGED <<store, memory, env, key, addr, mbox, chans, todo>>

\* MailboxLookup answered nil: a lookup returns it, FetchOrCreate goes on to create.
LookupMiss(t) ==
    IF op[t] = "lookup" THEN Return(t)
    ELSE /\ Goto(t, "createCheck")
         /\ key' = [key EXCEPT ![t] = NoKey]
         /\ UNCHANGED <<op, addr, mbox, chans, todo>>

\* Takes the mutex, looks into the cache again and gets the admin key.  An error
\* of Get is a miss.
LookupRW(t) ==
    /\ pc[t] = "lookupRW" /\ Free(t)
    /\ LET hit == Hit(ProcOf[t], key[t], addr[t])
           got == RWGet(key[t], addr[t])
       IN  \/ /\ hit # NoMbox
              /\ Own(t, hit) /\ Return(t) /\ UNCHANGED <<lock, faults>>
           \/ /\ hit = NoMbox
              /\ (got = NoKey /\ Succeeds("get")) \/ Fails("get")
              /\ LookupMiss(t) /\ UNCHANGED <<lock, owned>>
           \/ /\ hit = NoMbox /\ got # NoKey /\ Succeeds("get")
              /\ Acquire(t) /\ Goto(t, "lookupAdmin")
              /\ key' = [key EXCEPT ![t] = got]
              /\ UNCHANGED <<owned, op, addr, mbox, chans, todo>>
    /\ UNCHANGED <<store, cached, cachedAddr, needsUpdate, clock, issued, crashes>>

\* Wrong variant of LookupAdmin: the early return on a missing mailbox keeps the
\* mutex.
LookupAdminKeepsMutex(t) ==
    /\ pc[t] = "lookupAdmin"
    /\ LET p == ProcOf[t]
           m == FetchMailboxByAdminKey(key[t])
       IN  \/ /\ (m = NoMbox /\ Succeeds("get")) \/ Fails("get")
              /\ LookupMiss(t) /\ UNCHANGED <<lock, cached, cachedAddr, needsUpdate, owned>>
           \/ /\ m # NoMbox /\ Succeeds("get")
              /\ cached' = [cached EXCEPT ![p][m.key] = m]
              /\ cachedAddr' = [cachedAddr EXCEPT ![p][m.address] = m.key]
              /\ needsUpdate' = [needsUpdate EXCEPT ![p] = @ \ {m.key}]
              /\ Own(t, m) /\ Return(t) /\ Release(t)
    /\ UNCHANGED <<store, clock, issued, crashes>>

\* Gets the mailbox, caches it under its three keys and unlocks.  A missing
\* mailbox is the case the code logs as "this should not happen".
LookupAdmin(t) ==
    /\ pc[t] = "lookupAdmin"
    /\ LET p == ProcOf[t]
           m == FetchMailboxByAdminKey(key[t])
       IN  \/ /\ (m = NoMbox /\ Succeeds("get")) \/ Fails("get")
              /\ LookupMiss(t) /\ UNCHANGED <<cached, cachedAddr, needsUpdate, owned>>
           \/ /\ m # NoMbox /\ Succeeds("get")
              /\ cached' = [cached EXCEPT ![p][m.key] = m]
              /\ cachedAddr' = [cachedAddr EXCEPT ![p][m.address] = m.key]
              /\ needsUpdate' = [needsUpdate EXCEPT ![p] = @ \ {m.key}]
              /\ Own(t, m) /\ Return(t)
    /\ Release(t)
    /\ UNCHANGED <<store, clock, issued, crashes>>
-----------------------------------------------------------------------------
(* _CreateMailboxImpl *)

\* Wrong variant of CreateCheck: a lookup that just missed is trusted, and the
\* address is not checked again under the mutex.
CreateUnchecked(t, a) ==
    /\ pc[t] = "createCheck" /\ Free(t)
    /\ a \in AdminKey \ issued
    /\ Acquire(t) /\ Goto(t, "createChannels")
    /\ issued' = issued \cup {a}
    /\ key' = [key EXCEPT ![t] = a]
    /\ mbox' = [mbox EXCEPT ![t] = [key |-> a, address |-> IF addr[t] = NoKey THEN a ELSE addr[t],
                    channels |-> {}, lastActivity |-> clock]]
    /\ chans' = [chans EXCEPT ![t] = CreateChannels]
    /\ UNCHANGED <<store, cached, cachedAddr, needsUpdate, owned, clock, crashes, faults,
                   op, addr, todo>>

\* Takes the mutex, draws the keys and refuses an address that is in use.  The
\* uuids are fresh, so only a given name can be.  An error of Get is ignored: the
\* address then passes for unused.
CreateCheck(t, a) ==
    /\ pc[t] = "createCheck" /\ Free(t)
    /\ a \in AdminKey \ issued
    /\ LET x == IF addr[t] = NoKey THEN a ELSE addr[t]
           used == addressKV[x] # NoKey \/ a \in readerKV \/ adminKV[a] # NoMbox
       IN  \/ used /\ Succeeds("get") /\ Return(t) /\ UNCHANGED <<lock, issued>>
           \/ /\ (~ used /\ Succeeds("get")) \/ (used /\ Fails("get"))
              /\ Acquire(t) /\ Goto(t, "createChannels")
              /\ issued' = issued \cup {a}
              /\ key' = [key EXCEPT ![t] = a]
              /\ mbox' = [mbox EXCEPT ![t] = [key |-> a, address |-> x,
                              channels |-> {}, lastActivity |-> clock]]
              /\ chans' = [chans EXCEPT ![t] = CreateChannels]
              /\ UNCHANGED <<op, addr, todo>>
    /\ UNCHANGED <<store, cached, cachedAddr, needsUpdate, owned, clock, crashes>>

\* AddChannel(channel, false) for one channel of the request.  An error of
\* AddStream ends the call; the streams added so far stay.
CreateChannel(t, c) ==
    /\ pc[t] = "createChannels" /\ c \in chans[t]
    /\ \/ /\ Succeeds("addStream")
          /\ streams' = streams \cup {<<key[t], c>>}
          /\ mbox' = [mbox EXCEPT ![t].channels = @ \cup {c}]
          /\ chans' = [chans EXCEPT ![t] = @ \ {c}]
          /\ UNCHANGED <<lock, pc, op, key, addr, todo>>
       \/ /\ Fails("addStream")
          /\ Release(t) /\ Return(t)
          /\ UNCHANGED streams
    /\ UNCHANGED <<adminKV, readerKV, addressKV, revived, cached, cachedAddr, needsUpdate,
                   owned, clock, issued, crashes>>

\* The channels are done: the mailbox is marshalled as it is now, and the reader
\* key is put.  An error of Put is logged and swallowed.
PutReader(t) ==
    /\ pc[t] = "createChannels" /\ chans[t] = {}
    /\ \/ Succeeds("put") /\ readerKV' = readerKV \cup {key[t]}
       \/ Fails("put") /\ UNCHANGED readerKV
    /\ Goto(t, "putAddress")
    /\ UNCHANGED <<adminKV, addressKV, streams, revived, memory, clock, issued, crashes,
                   op, key, addr, mbox, chans, todo>>

\* Then the address is put.
PutAddress(t) ==
    /\ pc[t] = "putAddress"
    /\ \/ Succeeds("put") /\ addressKV' = [addressKV EXCEPT ![mbox[t].address] = key[t]]
       \/ Fails("put") /\ UNCHANGED addressKV
    /\ Goto(t, "putAdmin")
    /\ UNCHANGED <<adminKV, readerKV, streams, revived, memory, clock, issued, crashes,
                   op, key, addr, mbox, chans, todo>>

\* The mailbox itself is put last; the caller gets the object, whose last
\* activity UpdateLastActivity has set since it was marshalled.
PutAdmin(t) ==
    /\ pc[t] = "putAdmin"
    /\ \/ Succeeds("put") /\ adminKV' = [adminKV EXCEPT ![key[t]] = mbox[t]]
       \/ Fails("put") /\ UNCHANGED adminKV
    /\ Own(t, [mbox[t] EXCEPT !.lastActivity = clock])
    /\ Release(t) /\ Return(t)
    /\ UNCHANGED <<readerKV, addressKV, streams, revived, cached, cachedAddr, needsUpdate,
                   clock, issued, crashes>>
-----------------------------------------------------------------------------
(* AddChannel and UpdateMailbox *)

\* The AddChannel request of a client: FetchMailboxByAdminKey reads the bucket
\* without the mutex into an object of its own; an absent mailbox is an error.
StartAddChannel(t, a, cs) ==
    /\ pc[t] = "idle" /\ t \notin PurgeThread
    /\ cs # {} /\ FetchMailboxByAdminKey(a) # NoMbox
    /\ Goto(t, "addStream")
    /\ mbox' = [mbox EXCEPT ![t] = FetchMailboxByAdminKey(a)]
    /\ chans' = [chans EXCEPT ![t] = cs]
    /\ UNCHANGED <<store, memory, env, op, key, addr, todo>>

\* AddChannel(c, true) up to its UpdateMailbox.  A channel the object has already
\* and a failed AddStream are errors: the http handler returns, the grpc one goes
\* on with the next channel.
AddStream(t, c) ==
    /\ pc[t] = "addStream" /\ c \in chans[t]
    /\ \/ /\ c \notin mbox[t].channels /\ Succeeds("addStream")
          /\ streams' = streams \cup {<<mbox[t].key, c>>}
          /\ mbox' = [mbox EXCEPT ![t].channels = @ \cup {c}]
          /\ chans' = [chans EXCEPT ![t] = @ \ {c}]
          /\ Goto(t, "updateStore")
          /\ UNCHANGED <<op, key, addr, todo>>
       \/ /\ IF c \in mbox[t].channels THEN UNCHANGED faults ELSE Fails("addStream")
          /\ \/ Return(t)
             \/ /\ chans[t] # {c}
                /\ chans' = [chans EXCEPT ![t] = @ \ {c}]
                /\ UNCHANGED <<pc, op, key, addr, mbox, todo>>
          /\ UNCHANGED streams
    /\ UNCHANGED <<adminKV, readerKV, addressKV, revived, memory, clock, issued, crashes>>

\* UpdateMailbox(m): takes the mutex, marshals the object and puts it, whatever
\* the bucket holds by now.
UpdateMailbox(p, m) ==
    /\ lock[p] = NoThread
    /\ \/ /\ Succeeds("put") /\ adminKV' = [adminKV EXCEPT ![m.key] = m]
          /\ revived' = revived \cup {x \in {m.address} : adminKV[m.key] = NoMbox}
       \/ Fails("put") /\ UNCHANGED <<adminKV, revived>>

UpdateStore(t) ==
    /\ pc[t] = "updateStore"
    /\ UpdateMailbox(ProcOf[t], mbox[t])
    /\ IF chans[t] = {} THEN Return(t)
       ELSE Goto(t, "addStream") /\ UNCHANGED <<op, key, addr, mbox, chans, todo>>
    /\ UNCHANGED <<readerKV, addressKV, streams, memory, clock, issued, crashes>>

\* The ticker of CreateRpcMailbox: UpdateLastActivity and UpdateInStore on the
\* object the process got when it created or fetched its mailbox.
KeepAlive(p) ==
    /\ owned[p] # NoMbox
    /\ owned' = [owned EXCEPT ![p].lastActivity = clock]
    /\ UpdateMailbox(p, [owned[p] EXCEPT !.lastActivity = clock])
    /\ UNCHANGED <<readerKV, addressKV, streams, lock, cached, cachedAddr, needsUpdate,
                   local, clock, issued, crashes>>

\* A frame of a client session: UpdateLastActivity on the in-memory mailbox.
UpdateLastActivity(p, a) ==
    /\ p \in HttpProc /\ cached[p][a] # NoMbox
    /\ cached' = [cached EXCEPT ![p][a].lastActivity = clock]
    /\ needsUpdate' = [needsUpdate EXCEPT ![p] = @ \cup {a}]
    /\ UNCHANGED <<store, env, local, lock, cachedAddr, owned>>

\* What follows the two letters randomKey puts before a uuid.
UuidDigit == {"0", "1", "2", "3", "4", "5", "6", "7", "8", "9", "a", "b", "c", "d", "e", "f"}

\* strings.HasPrefix(key, "zzz") for an admin key, "zz" and then the uuid.
IsAdminKeyInMemory(a) == \E d \in UuidDigit : <<"z", "z", d>> = <<"z", "z", "z">>

\* MailboxSyncToDiskSinglePass: UpdateInStore for the mailboxes that
\* ForEachMailboxInMemory selects and that need it.
SyncToDisk(p) ==
    /\ p \in HttpProc /\ lock[p] = NoThread
    /\ adminKV' = [a \in AdminKey |->
                     IF a \in needsUpdate[p] /\ IsAdminKeyInMemory(a)
                     THEN cached[p][a] ELSE adminKV[a]]
    /\ UNCHANGED <<readerKV, addressKV, streams, revived, memory, local, env>>
-----------------------------------------------------------------------------
(* MailboxPurgeSinglePass and Purge *)

\* ForEachMailbox lists the keys of the bucket, once for the pass.
PurgeStart(t) ==
    /\ t \in PurgeThread /\ pc[t] = "idle"
    /\ \E a \in AdminKey : adminKV[a] # NoMbox
    /\ todo' = [todo EXCEPT ![t] = {a \in AdminKey : adminKV[a] # NoMbox}]
    /\ Goto(t, "purgeNext")
    /\ UNCHANGED <<store, memory, env, op, key, addr, mbox, chans>>

\* FetchMailboxByAdminKey, without the mutex, and the test for expiry.
PurgeNext(t, a) ==
    /\ pc[t] = "purgeNext" /\ a \in todo[t] /\ FetchMailboxByAdminKey(a) # NoMbox
    /\ IF Expired(adminKV[a])
       THEN /\ mbox' = [mbox EXCEPT ![t] = adminKV[a]]
            /\ todo' = [todo EXCEPT ![t] = @ \ {a}]
            /\ Goto(t, "purgeReader")
            /\ UNCHANGED <<op, key, addr, chans>>
       ELSE IF todo[t] = {a} THEN Return(t)
       ELSE todo' = [todo EXCEPT ![t] = @ \ {a}] /\ UNCHANGED <<pc, op, key, addr, mbox, chans>>
    /\ UNCHANGED <<store, memory, env>>

\* Wrong variant of PurgeReader: the reader key is forgotten.
PurgeKeepsReader(t) ==
    /\ pc[t] = "purgeReader" /\ Free(t)
    /\ Acquire(t) /\ Goto(t, "purgeAddress")
    /\ UNCHANGED <<store, cached, cachedAddr, needsUpdate, owned,
                   op, key, addr, mbox, chans, todo, env>>

\* Purge takes the mutex and deletes the reader key ...
PurgeReader(t) ==
    /\ pc[t] = "purgeReader" /\ Free(t)
    /\ \/ Succeeds("delete") /\ readerKV' = readerKV \ {mbox[t].key}
       \/ Fails("delete") /\ UNCHANGED readerKV
    /\ Acquire(t) /\ Goto(t, "purgeAddress")
    /\ UNCHANGED <<adminKV, addressKV, streams, revived, cached, cachedAddr, needsUpdate, owned,
                   op, key, addr, mbox, chans, todo, clock, issued, crashes>>

\* ... the address, whatever mailbox it leads to ...
PurgeAddress(t) ==
    /\ pc[t] = "purgeAddress"
    /\ \/ Succeeds("delete") /\ addressKV' = [addressKV EXCEPT ![mbox[t].address] = NoKey]
       \/ Fails("delete") /\ UNCHANGED addressKV
    /\ Goto(t, "purgeAdmin")
    /\ UNCHANGED <<adminKV, readerKV, streams, revived, memory, op, key, addr, mbox, chans, todo,
                   clock, issued, crashes>>

\* Wrong variant of PurgeAdmin: the in-memory entry under the address stays.
PurgeKeepsCachedAddress(t) ==
    /\ pc[t] = "purgeAdmin"
    /\ adminKV' = [adminKV EXCEPT ![mbox[t].key] = NoMbox]
    /\ cached' = [cached EXCEPT ![ProcOf[t]][mbox[t].key] = NoMbox]
    /\ needsUpdate' = [needsUpdate EXCEPT ![ProcOf[t]] = @ \ {mbox[t].key}]
    /\ Release(t) /\ Goto(t, "purgeStreams")
    /\ chans' = [chans EXCEPT ![t] = mbox[t].channels]
    /\ UNCHANGED <<readerKV, addressKV, streams, revived, cachedAddr, owned, op, key, addr, mbox, todo,
                   clock, issued, crashes, faults>>

\* ... and the mailbox, forgets its three in-memory entries, and unlocks.
PurgeAdmin(t) ==
    /\ pc[t] = "purgeAdmin"
    /\ \/ Succeeds("delete") /\ adminKV' = [adminKV EXCEPT ![mbox[t].key] = NoMbox]
       \/ Fails("delete") /\ UNCHANGED adminKV
    /\ LET p == ProcOf[t] IN
         /\ cached' = [cached EXCEPT ![p][mbox[t].key] = NoMbox]
         /\ cachedAddr' = [cachedAddr EXCEPT ![p][mbox[t].address] = NoKey]
         /\ needsUpdate' = [needsUpdate EXCEPT ![p] = @ \ {mbox[t].key}]
    /\ Release(t) /\ Goto(t, "purgeStreams")
    /\ chans' = [chans EXCEPT ![t] = mbox[t].channels]
    /\ UNCHANGED <<readerKV, addressKV, streams, revived, owned, op, key, addr, mbox, todo,
                   clock, issued, crashes>>

\* After the unlock: the streams of the channels in the object that was fetched.
\* An error of DeleteStream is logged.
PurgeStream(t, c) ==
    /\ pc[t] = "purgeStreams" /\ c \in chans[t]
    /\ \/ Succeeds("delete") /\ streams' = streams \ {<<mbox[t].key, c>>}
       \/ Fails("delete") /\ UNCHANGED streams
    /\ chans' = [chans EXCEPT ![t] = @ \ {c}]
    /\ UNCHANGED <<adminKV, readerKV, addressKV, revived, memory, pc, op, key, addr, mbox, todo,
                   clock, issued, crashes>>

PurgeDone(t) ==
    /\ pc[t] = "purgeStreams" /\ chans[t] = {}
    /\ IF todo[t] = {} THEN Return(t)
       ELSE /\ Goto(t, "purgeNext")
            /\ mbox' = [mbox EXCEPT ![t] = NoMbox]
            /\ UNCHANGED <<op, key, addr, chans, todo>>
    /\ UNCHANGED <<store, memory, env>>
-----------------------------------------------------------------------------
(* Processes and time *)

\* Everything the process holds in memory is gone; the buckets and streams stay.
Restart(p) ==
    /\ lock' = [lock EXCEPT ![p] = NoThread]
    /\ cached' = [cached EXCEPT ![p] = [a \in AdminKey |-> NoMbox]]
    /\ cachedAddr' = [cachedAddr EXCEPT ![p] = [x \in Address |-> NoKey]]
    /\ needsUpdate' = [needsUpdate EXCEPT ![p] = {}]
    /\ owned' = [owned EXCEPT ![p] = NoMbox]
    /\ pc' = [t \in Thread |-> IF ProcOf[t] = p THEN "idle" ELSE pc[t]]
    /\ op' = [t \in Thread |-> IF ProcOf[t] = p THEN "none" ELSE op[t]]
    /\ key' = [t \in Thread |-> IF ProcOf[t] = p THEN NoKey ELSE key[t]]
    /\ addr' = [t \in Thread |-> IF ProcOf[t] = p THEN NoKey ELSE addr[t]]
    /\ mbox' = [t \in Thread |-> IF ProcOf[t] = p THEN NoMbox ELSE mbox[t]]
    /\ chans' = [t \in Thread |-> IF ProcOf[t] = p THEN {} ELSE chans[t]]
    /\ todo' = [t \in Thread |-> IF ProcOf[t] = p THEN {} ELSE todo[t]]
    /\ UNCHANGED <<store, clock, issued>>

\* The process is killed between any two of its steps, and started again.
Crash(p) ==
    /\ p \in CrashProc
    /\ crashes < MaxCrashes /\ crashes' = crashes + 1
    /\ Restart(p) /\ UNCHANGED faults

\* The mailbox was deleted after the pass listed its key, cannot be decoded, or Get
\* failed: FetchMailboxByAdminKey answers nil, IsPurgable dereferences it, and nothing recovers the panic.
PurgePanic(t, a) ==
    /\ pc[t] = "purgeNext" /\ a \in todo[t]
    /\ (FetchMailboxByAdminKey(a) = NoMbox /\ Succeeds("get")) \/ Fails("get")
    /\ Restart(ProcOf[t]) /\ UNCHANGED crashes

\* Time passes, except that a keep-alive ticker that is due fires first: a process
\* that is up takes far less than a unit of the timeouts to serve its ticker.
Tick ==
    /\ clock < MaxTime
    /\ \A p \in Proc : owned[p] # NoMbox => clock - owned[p].lastActivity < KeepAliveEvery
    /\ SlowOps \/ \A t \in Thread \ PurgeThread : mbox[t] = NoMbox
    /\ clock' = clock + 1
    /\ UNCHANGED <<store, memory, local, issued, faults, crashes>>
-----------------------------------------------------------------------------
(* Specification *)

CreateStep(t) ==
    \/ \E a \in AdminKey : CreateCheck(t, a)
    \/ \E c \in Channel : CreateChannel(t, c)
    \/ PutReader(t) \/ PutAddress(t) \/ PutAdmin(t)

PurgeStep(t) ==
    \/ \E a \in AdminKey : PurgeNext(t, a) \/ PurgePanic(t, a)
    \/ \E c \in Channel : PurgeStream(t, c)
    \/ PurgeReader(t) \/ PurgeAddress(t) \/ PurgeAdmin(t) \/ PurgeDone(t)

\* A step of an operation under way.
Continue(t) ==
    \/ LookupRW(t) \/ LookupAdmin(t)
    \/ CreateStep(t)
    \/ \E c \in Channel : AddStream(t, c)
    \/ UpdateStore(t)
    \/ PurgeStep(t)

\* A request reaches a thread, or the purge loop starts a pass.
Start(t) ==
    \/ /\ "lookup" \in Requests
       /\ \/ \E a \in issued : StartLookup(t, a, NoKey) \/ StartLookup(t, NoKey, a)
          \/ \E n \in Name : StartLookup(t, NoKey, n)
    \/ /\ "fetchOrCreate" \in Requests
       /\ \E n \in Name, o \in {"serve", "own"} : StartFetchOrCreate(t, n, o)
    \/ /\ "create" \in Requests
       /\ \E o \in {"serve", "own"} : StartCreate(t, o)
    \/ /\ "addChannel" \in Requests
       /\ \E a \in AdminKey, cs \in SUBSET Channel : StartAddChannel(t, a, cs)
    \/ PurgeStart(t)

ProcStep(p) ==
    \/ KeepAlive(p)
    \/ \E a \in AdminKey : UpdateLastActivity(p, a)
    \/ SyncToDisk(p)
    \/ Crash(p)

Next ==
    \/ \E t \in Thread : Start(t) \/ Continue(t)
    \/ \E p \in Proc : ProcStep(p)
    \/ Tick

Spec == Init /\ [][Next]_vars

\* Fairness: goroutines under way are scheduled, and sync.Mutex hands itself to a
\* waiter that starves, so a thread that can go on again and again does go on; the
\* purge loop and the sync loop start their passes, every 30 and 5 minutes; time
\* passes.
Fairness ==
    /\ \A t \in Thread : SF_vars(Continue(t))
    /\ \A t \in PurgeThread : WF_vars(PurgeStart(t))
    /\ \A p \in Proc : WF_vars(KeepAlive(p) /\ owned[p].lastActivity < clock)
    /\ \A p \in HttpProc : WF_vars(SyncToDisk(p))
    /\ WF_vars(Tick)

FairSpec == Spec /\ Fairness
-----------------------------------------------------------------------------
(* Properties *)

MutexesFree == \A p \in Proc : lock[p] = NoThread

\* When no thread is inside the mutex the two buckets agree: every reader key leads to a
\* mailbox and every address to a mailbox that its reader can open, which is why
\* MailboxLookup calls a dangling entry impossible; and every mailbox that is still in the
\* bucket is found under its address, which makes two mailboxes of one name impossible,
\* unless AddChannel or a keep-alive wrote a mailbox of that name back after its purge.  A later
\* pass then purges it again, and takes the entry of whoever has the name by then.
IndexConsistent ==
    MutexesFree =>
        /\ \A a \in readerKV : adminKV[a] # NoMbox
        /\ \A x \in Address : addressKV[x] # NoKey =>
                addressKV[x] \in readerKV /\ adminKV[addressKV[x]].address = x
        /\ \A a \in AdminKey : adminKV[a] # NoMbox /\ adminKV[a].address \notin revived =>
                a \in readerKV /\ addressKV[adminKV[a].address] = a

\* The in-memory map never outlives the buckets: whatever MailboxLookup would
\* answer from memory, by reader key or by address, the buckets would answer too, with the
\* same exception for an address.
CacheCoherent ==
    \A p \in Proc : lock[p] = NoThread =>
        /\ \A a \in AdminKey : cached[p][a] # NoMbox => a \in readerKV
        /\ \A x \in Address \ revived :
                cachedAddr[p][x] # NoKey => addressKV[x] = cachedAddr[p][x]

\* An address in use is not taken over: it is purged before another mailbox of
\* that name is created (the "duplicate address" check of _CreateMailboxImpl).
AddressNotTakenOver ==
    [][\A x \in Address : addressKV[x] # NoKey => addressKV'[x] \in {addressKV[x], NoKey}]_vars

\* A mailbox that a reader can open has a stream behind each of its channels, at
\* every moment of creation, AddChannel and purge, in any number of processes,
\* through crashes and failed puts: _CreateMailboxImpl publishes the reader key
\* after the streams exist, and Purge withdraws it before they go.
ReachableHasStreams ==
    \A a \in readerKV : adminKV[a] # NoMbox =>
        \A c \in adminKV[a].channels : <<a, c>> \in streams

\* A mailbox that a process keeps alive is never purged under it, in whichever
\* process the purge pass runs and although the put of one keep-alive may fail: a
\* pass that has read it finds it fresh.
KeptAliveStays ==
    [][\A p \in Proc : owned[p] # NoMbox /\ owned'[p] # NoMbox =>
          LET a == owned[p].key IN
            /\ a \in readerKV => a \in readerKV'
            /\ addressKV[owned[p].address] = a => addressKV'[owned[p].address] = a
            /\ adminKV[a] # NoMbox => adminKV'[a] # NoMbox]_vars

\* No path through the store, the error returns included, keeps the mutex: whoever
\* has it gives it back, and whoever waits for it goes on.
OperationsReturn == \A t \in Thread : pc[t] # "idle" ~> pc[t] = "idle"

\* A mailbox that is not kept alive is purged in the end, even if the purging
\* process dies half way and takes its list of keys with it: what is left of the
\* mailbox in either bucket is deleted by a later pass.
Gone(a) == adminKV[a] = NoMbox /\ a \notin readerKV /\ \A x \in Address : addressKV[x] # a
ExpiresInTime(a) == adminKV[a] # NoMbox /\ adminKV[a].lastActivity + PurgeTimeout(adminKV[a]) <= MaxTime
Renewed(a) == adminKV[a] # NoMbox /\ ~ ExpiresInTime(a)
ExpiredPurged == \A a \in AdminKey : ExpiresInTime(a) ~> (Gone(a) \/ Renewed(a))
=============================================================================
