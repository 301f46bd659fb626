------------------------------ MODULE SeedCache ------------------------------
(***************************************************************************)
(* The read model: one Redis entry holds a snapshot of thirteen tables,    *)
(* filled on a miss by internal/repo/seed.go, one query per table outside  *)
(* any transaction, and dropped by the write handlers after their commit   *)
(* (internal/handlers/router.go, internal/cache/redis.go).  GET /seed and  *)
(* every unpaged list route answer from it.                                *)
(*                                                                         *)
(* A table's contents are the number of transactions that wrote it.  The   *)
(* "missed" fields are history: the tables whose change nobody will tell   *)
(* this snapshot of any more.                                              *)
(***************************************************************************)
EXTENDS Integers

CONSTANTS
    NTables,        \* tables of the snapshot, in the order Load reads them
    Requests,       \* read requests under way at a time
    Handlers,       \* write requests under way at a time
    HandlerWrites,  \* sets of tables a handler's transaction writes
    ConsumerWrites, \* sets of tables a consumer's transaction writes
    Empty,          \* no entry in Redis
    MaxWrites,      \* bound on transactions
    MaxFaults       \* bound on Redis, database and request failures

Tables == 1 .. NTables

ASSUME CacheAssumption ==
    /\ NTables \in Nat /\ MaxWrites \in Nat /\ MaxFaults \in Nat
    /\ HandlerWrites \subseteq SUBSET Tables /\ ConsumerWrites \subseteq SUBSET Tables

VARIABLES
    db,      \* table -> its contents
    entry,   \* the entry under KeySeedPayloadV1
    request, \* read request -> its place in loadCached
    owed,    \* write request -> tables committed, entry not yet dropped
    writes,  \* transactions so far
    faults   \* faults so far

vars == <<db, entry, request, owed, writes, faults>>

Contents == [Tables -> Nat]
Entries == [snap : Contents, missed : SUBSET Tables]

\* No data read: not loading.  Otherwise tables before "next" are in snap.
Idle == [next |-> 0, snap |-> [t \in Tables |-> 0], missed |-> {}]

Init ==
    /\ db = [t \in Tables |-> 0]
    /\ entry = Empty
    /\ request = [r \in Requests |-> Idle]
    /\ owed = [h \in Handlers |-> {}]
    /\ writes = 0
    /\ faults = 0

Fault == faults < MaxFaults /\ faults' = faults + 1

Loading(r) == request[r].next > 0

-----------------------------------------------------------------------------
(* Reading *)

\* loadCached with an entry to answer from: a hit changes nothing.
Hit == entry # Empty /\ UNCHANGED vars

\* loadCached with none, or with an error of Redis or of the decoder, which is
\* logged and treated as a miss.
loadCached(r) ==
    /\ ~Loading(r)
    /\ \/ entry = Empty /\ UNCHANGED faults
       \/ entry # Empty /\ Fault
    /\ request' = [request EXCEPT ![r] = [Idle EXCEPT !.next = 1]]
    /\ UNCHANGED <<db, entry, owed, writes>>

\* Mutant: a query's block is lost.
LoadSkipping(r) ==
    /\ Loading(r) /\ request[r].next \in Tables
    /\ request' = [request EXCEPT ![r].next = @ + 2]
    /\ UNCHANGED <<db, entry, owed, writes, faults>>

\* Load: the next of the queries.
Load(r) ==
    /\ Loading(r) /\ request[r].next \in Tables
    /\ request' = [request EXCEPT
         ![r] = [next |-> request[r].next + 1, missed |-> request[r].missed,
                 snap |-> [request[r].snap EXCEPT ![request[r].next] = db[request[r].next]]]]
    /\ UNCHANGED <<db, entry, owed, writes, faults>>

\* One query fails, and with it the whole request (500).
LoadFails(r) ==
    /\ Loading(r) /\ request[r].next \in Tables
    /\ Fault
    /\ request' = [request EXCEPT ![r] = Idle]
    /\ UNCHANGED <<db, entry, owed, writes>>

\* SetJSON replaces whatever is there; an error is logged.
SetJSON(r) ==
    /\ Loading(r) /\ request[r].next \notin Tables
    /\ \/ /\ entry' = [snap |-> request[r].snap, missed |-> request[r].missed]
          /\ UNCHANGED faults
       \/ UNCHANGED entry /\ Fault
    /\ request' = [request EXCEPT ![r] = Idle]
    /\ UNCHANGED <<db, owed, writes>>

-----------------------------------------------------------------------------
(* Writing *)

\* Nobody will drop on account of these tables: the requests that have read
\* them already are overtaken.
Overtake(tables) ==
    [r \in Requests |->
       [request[r] EXCEPT !.missed = @ \cup {t \in tables : t < request[r].next}]]

\* The entry, when it is not dropped on account of these tables.
Unaware(tables) ==
    IF entry = Empty THEN Empty ELSE [entry EXCEPT !.missed = @ \cup tables]

Written(tables) == [t \in Tables |-> IF t \in tables THEN db[t] + 1 ELSE db[t]]

\* Mutant: a handler that does not drop the entry (approveInvoice before its fix).
CommitOnly(h, tables) ==
    /\ owed[h] = {} /\ writes < MaxWrites
    /\ db' = Written(tables)
    /\ writes' = writes + 1
    /\ UNCHANGED <<entry, request, owed, faults>>

\* A write handler's transaction commits ...
Commit(h, tables) ==
    /\ owed[h] = {} /\ writes < MaxWrites
    /\ db' = Written(tables)
    /\ owed' = [owed EXCEPT ![h] = tables]
    /\ writes' = writes + 1
    /\ UNCHANGED <<entry, request, faults>>

\* ... and the handler drops the entry.
InvalidateSeedCache(h) ==
    /\ owed[h] # {}
    /\ entry' = Empty
    /\ request' = Overtake(owed[h])
    /\ owed' = [owed EXCEPT ![h] = {}]
    /\ UNCHANGED <<db, writes, faults>>

\* It does not: Redis fails and the error is logged, the client hangs up and
\* the request's context is cancelled, or the process dies.
InvalidationLost(h) ==
    /\ owed[h] # {}
    /\ Fault
    /\ entry' = Unaware(owed[h])
    /\ request' = Overtake(owed[h])
    /\ owed' = [owed EXCEPT ![h] = {}]
    /\ UNCHANGED <<db, writes>>

\* The consumers write without touching the cache.
Consume(tables) ==
    /\ writes < MaxWrites
    /\ db' = Written(tables)
    /\ entry' = Unaware(tables)
    /\ request' = Overtake(tables)
    /\ writes' = writes + 1
    /\ UNCHANGED <<owed, faults>>

\* Mutant: an entry stored without a lifetime.
NeverExpires == FALSE

\* SeedCacheTTL, always positive, is on every entry.
Expires == entry # Empty

Expire ==
    /\ Expires
    /\ entry' = Empty
    /\ UNCHANGED <<db, request, owed, writes, faults>>

Step(r) == Load(r) \/ LoadFails(r) \/ SetJSON(r)
Settle(h) == InvalidateSeedCache(h) \/ InvalidationLost(h)

Next ==
    \/ Hit
    \/ \E r \in Requests : loadCached(r)
    \/ \E r \in Requests : Step(r)
    \/ \E h \in Handlers, tables \in HandlerWrites : Commit(h, tables)
    \/ \E h \in Handlers : Settle(h)
    \/ \E tables \in ConsumerWrites : Consume(tables)
    \/ Expire

\* A request once started ends, and time passes.
Spec == /\ Init /\ [][Next]_vars
        /\ \A r \in Requests : WF_vars(Step(r))
        /\ \A h \in Handlers : WF_vars(Settle(h))
        /\ WF_vars(Expire)

-----------------------------------------------------------------------------
TypeOK ==
    /\ db \in Contents
    /\ entry \in Entries \cup {Empty}
    /\ request \in [Requests -> [next : 0 .. NTables + 1, snap : Contents,
                                 missed : SUBSET Tables]]
    /\ owed \in [Handlers -> SUBSET Tables]
    /\ writes \in 0 .. MaxWrites
    /\ faults \in 0 .. MaxFaults

\* A write handler has yet to drop the entry on account of table t.
Owed(t) == \E h \in Handlers : t \in owed[h]

\* A snapshot is out of date in a table only while the handler that wrote it
\* is between its commit and its DEL, or when that DEL was lost, came while
\* the snapshot was being read, or was never due because a consumer wrote.
\* "Call it from any mutating handler after a successful DB commit so GET
\* /api/v1/seed and slice routes cannot return stale data" (router.go:303-305)
\* holds up to these.
StaleIsExcused ==
    entry # Empty =>
      \A t \in Tables : entry.snap[t] = db[t] \/ Owed(t) \/ t \in entry.missed

\* The same of a snapshot still being read, which makes it inductive.
LoadingIsExcused ==
    \A r \in Requests : \A t \in Tables :
      t < request[r].next =>
        request[r].snap[t] = db[t] \/ Owed(t) \/ t \in request[r].missed

Current == entry # Empty => entry.snap = db

\* Once the writing stops the read model catches up for good, whatever was
\* lost or overtaken before: the lifetime of the entry sees to it.
EventuallyCurrent == <>[]Current
=============================================================================
