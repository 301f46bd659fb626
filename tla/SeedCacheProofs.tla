--------------------------- MODULE SeedCacheProofs ---------------------------
(***************************************************************************)
(* The cached read model is stale only for the reasons StaleIsExcused      *)
(* names, for any number of tables, readers and writers.  What it says of  *)
(* the stored entry is not inductive: a reader between its queries and its *)
(* SET carries a snapshot of its own, so the invariant says the same of    *)
(* every snapshot being read (LoadingIsExcused).                           *)
(***************************************************************************)
EXTENDS SeedCache, TLAPS

CacheInv == TypeOK /\ StaleIsExcused /\ LoadingIsExcused

RequestRows == [next : 0 .. NTables + 1, snap : Contents, missed : SUBSET Tables]

\* Nothing is cached, read or owed at first.
LEMMA CacheInit == Init => CacheInv
<1> SUFFICES ASSUME Init PROVE CacheInv OBVIOUS
<1> USE CacheAssumption DEF CacheAssumption
<1>1. Idle \in RequestRows BY DEF Idle, RequestRows, Contents, Tables
<1>2. TypeOK BY <1>1 DEF Init, TypeOK, RequestRows, Contents
<1>3. \A r \in Requests : request[r].next = 0 BY DEF Init, Idle
<1>4. LoadingIsExcused BY <1>3 DEF LoadingIsExcused, Tables
<1> QED BY <1>2, <1>4 DEF Init, CacheInv, StaleIsExcused

-----------------------------------------------------------------------------
\* Overtaking changes nothing of a request but what it has missed.
LEMMA OvertakeFacts ==
  ASSUME TypeOK, NEW tables \in SUBSET Tables
  PROVE  /\ Overtake(tables) \in [Requests -> RequestRows]
         /\ \A r \in Requests :
              /\ Overtake(tables)[r].next = request[r].next
              /\ Overtake(tables)[r].snap = request[r].snap
              /\ request[r].missed \subseteq Overtake(tables)[r].missed
              /\ \A t \in tables : t < request[r].next => t \in Overtake(tables)[r].missed
<1>1. ASSUME NEW r \in Requests
      PROVE  LET o == [request[r] EXCEPT
                         !.missed = request[r].missed \cup {t \in tables : t < request[r].next}]
             IN  /\ o \in RequestRows
                 /\ o.next = request[r].next /\ o.snap = request[r].snap
                 /\ o.missed = request[r].missed \cup {t \in tables : t < request[r].next}
  BY DEF TypeOK, RequestRows
<1> QED BY <1>1 DEF Overtake

\* Not being dropped changes nothing of the entry but what it has missed.
LEMMA UnawareFacts ==
  ASSUME TypeOK, NEW tables \in SUBSET Tables
  PROVE  /\ Unaware(tables) \in Entries \cup {Empty}
         /\ entry # Empty =>
              /\ Unaware(tables).snap = entry.snap
              /\ Unaware(tables).missed = entry.missed \cup tables
         /\ entry = Empty => Unaware(tables) = Empty
<1>1. CASE entry = Empty BY <1>1 DEF Unaware
<1>2. CASE entry # Empty
  <2>1. entry \in Entries BY <1>2 DEF TypeOK
  <2>2. Unaware(tables) = [entry EXCEPT !.missed = entry.missed \cup tables]
    BY <1>2 DEF Unaware
  <2>3. entry.missed \cup tables \in SUBSET Tables BY <2>1 DEF Entries
  <2> QED BY <1>2, <2>1, <2>2, <2>3 DEF Entries
<1> QED BY <1>1, <1>2

\* A write moves the tables it writes and no other.
LEMMA WrittenFacts ==
  ASSUME TypeOK, NEW tables \in SUBSET Tables
  PROVE  /\ Written(tables) \in Contents
         /\ \A t \in Tables \ tables : Written(tables)[t] = db[t]
BY DEF TypeOK, Written, Contents

-----------------------------------------------------------------------------
\* A miss starts a snapshot with no table in it.
LEMMA MissInv ==
  ASSUME CacheInv, NEW r \in Requests, loadCached(r)
  PROVE  CacheInv'
<1> USE CacheAssumption DEF CacheAssumption
<1> DEFINE fresh == [Idle EXCEPT !.next = 1]
<1>1. fresh \in RequestRows /\ fresh.next = 1 BY DEF Idle, RequestRows, Contents, Tables
<1>2. request' = [request EXCEPT ![r] = fresh] BY DEF loadCached
<1> HIDE DEF fresh
<1>3. TypeOK'
  <2>1. request' \in [Requests -> RequestRows]
    BY <1>1, <1>2 DEF CacheInv, TypeOK, RequestRows
  <2>2. faults' \in 0 .. MaxFaults BY DEF CacheInv, TypeOK, loadCached, Fault
  <2>3. UNCHANGED <<db, entry, owed, writes>> BY DEF loadCached
  <2> QED BY <2>1, <2>2, <2>3 DEF CacheInv, TypeOK, RequestRows
<1>4. \A t \in Tables : ~(t < 1) BY DEF Tables
<1>5. LoadingIsExcused'
  BY <1>1, <1>2, <1>4 DEF CacheInv, TypeOK, LoadingIsExcused, loadCached, Owed
<1>6. StaleIsExcused' BY DEF CacheInv, StaleIsExcused, loadCached, Owed
<1> QED BY <1>3, <1>5, <1>6 DEF CacheInv

\* A query adds one table, as it is now.
LEMMA LoadInv ==
  ASSUME CacheInv, NEW r \in Requests, Load(r)
  PROVE  CacheInv'
<1> USE CacheAssumption DEF CacheAssumption
<1> DEFINE n == request[r].next
           more == [next |-> n + 1, missed |-> request[r].missed,
                    snap |-> [request[r].snap EXCEPT ![n] = db[n]]]
<1>1. n \in Tables /\ request[r] \in RequestRows /\ db \in Contents
  BY DEF Load, CacheInv, TypeOK, RequestRows
<1>2. more \in RequestRows
  <2>1. [request[r].snap EXCEPT ![n] = db[n]] \in Contents BY <1>1 DEF RequestRows, Contents
  <2>2. n + 1 \in 0 .. NTables + 1 BY <1>1 DEF Tables
  <2>3. request[r].missed \in SUBSET Tables BY <1>1 DEF RequestRows
  <2> QED BY <2>1, <2>2, <2>3 DEF RequestRows
<1>3. /\ more.next = n + 1 /\ more.missed = request[r].missed
      /\ more.snap[n] = db[n]
      /\ \A t \in Tables : t # n => more.snap[t] = request[r].snap[t]
  BY <1>1 DEF RequestRows, Contents
<1>4. request' = [request EXCEPT ![r] = more] BY DEF Load
<1> HIDE DEF more
<1>5. TypeOK' BY <1>2, <1>4 DEF CacheInv, TypeOK, Load, RequestRows
<1>6. LoadingIsExcused'
  <2> SUFFICES ASSUME NEW q \in Requests, NEW t \in Tables, t < request'[q].next
               PROVE  request'[q].snap[t] = db'[t] \/ Owed(t)' \/ t \in request'[q].missed
    BY DEF LoadingIsExcused
  <2>1. db' = db /\ Owed(t)' = Owed(t) BY DEF Load, Owed
  <2>2. CASE q # r
    <3>1. request'[q] = request[q] BY <1>4, <2>2 DEF CacheInv, TypeOK
    <3> QED BY <2>1, <3>1 DEF CacheInv, LoadingIsExcused
  <2>3. CASE q = r
    <3>1. request'[q] = more BY <1>4, <2>3 DEF CacheInv, TypeOK
    <3>2. t = n \/ t < n BY <1>1, <1>3, <3>1 DEF Tables
    <3>3. t < n => request[r].snap[t] = db[t] \/ Owed(t) \/ t \in request[r].missed
      BY DEF CacheInv, LoadingIsExcused
    <3>4. t < n => t # n BY <1>1 DEF Tables
    <3> QED BY <1>3, <2>1, <3>1, <3>2, <3>3, <3>4
  <2> QED BY <2>2, <2>3
<1>7. StaleIsExcused' BY DEF CacheInv, StaleIsExcused, Load, Owed
<1> QED BY <1>5, <1>6, <1>7 DEF CacheInv

\* A request that ends leaves no snapshot behind it.
LEMMA EndedInv ==
  ASSUME CacheInv, NEW r \in Requests, request' = [request EXCEPT ![r] = Idle],
         UNCHANGED <<db, owed>>
  PROVE  LoadingIsExcused' /\ request' \in [Requests -> RequestRows]
<1> USE CacheAssumption DEF CacheAssumption
<1>1. Idle \in RequestRows /\ Idle.next = 0 BY DEF Idle, RequestRows, Contents, Tables
<1>2. \A t \in Tables : ~(t < 0) BY DEF Tables
<1> HIDE DEF Idle
<1> QED BY <1>1, <1>2 DEF CacheInv, TypeOK, LoadingIsExcused, Owed, RequestRows

\* A failed query ends the request.
LEMMA LoadFailsInv ==
  ASSUME CacheInv, NEW r \in Requests, LoadFails(r)
  PROVE  CacheInv'
<1>1. LoadingIsExcused' /\ request' \in [Requests -> RequestRows]
  BY EndedInv DEF LoadFails
<1>2. TypeOK' BY <1>1, CacheAssumption
  DEF CacheAssumption, CacheInv, TypeOK, LoadFails, Fault, RequestRows
<1>3. StaleIsExcused' BY DEF CacheInv, StaleIsExcused, LoadFails, Owed
<1> QED BY <1>1, <1>2, <1>3 DEF CacheInv

\* The SET stores a snapshot of every table, excused as it was while read.
LEMMA SetJSONInv ==
  ASSUME CacheInv, NEW r \in Requests, SetJSON(r)
  PROVE  CacheInv'
<1> USE CacheAssumption DEF CacheAssumption
<1> DEFINE stored == [snap |-> request[r].snap, missed |-> request[r].missed]
<1>1. LoadingIsExcused' /\ request' \in [Requests -> RequestRows]
  BY EndedInv DEF SetJSON
<1>2. request[r] \in RequestRows BY DEF CacheInv, TypeOK, RequestRows
<1>3. stored \in Entries BY <1>2 DEF RequestRows, Entries
<1>4. stored.snap = request[r].snap /\ stored.missed = request[r].missed OBVIOUS
<1>5. entry' = stored \/ entry' = entry BY DEF SetJSON
<1> HIDE DEF stored
<1>6. TypeOK'
  <2>1. faults' \in 0 .. MaxFaults BY DEF CacheInv, TypeOK, SetJSON, Fault
  <2>2. entry' \in Entries \cup {Empty} BY <1>3, <1>5 DEF CacheInv, TypeOK
  <2>3. UNCHANGED <<db, owed, writes>> BY DEF SetJSON
  <2> QED BY <1>1, <2>1, <2>2, <2>3 DEF CacheInv, TypeOK, RequestRows
<1>7. \A t \in Tables : t < request[r].next
  BY <1>2 DEF SetJSON, Loading, RequestRows, Tables
<1>8. db' = db /\ owed' = owed BY DEF SetJSON
<1>9. ASSUME entry' = stored PROVE StaleIsExcused'
  BY <1>4, <1>7, <1>8, <1>9 DEF CacheInv, StaleIsExcused, LoadingIsExcused, Owed
<1>10. ASSUME entry' = entry PROVE StaleIsExcused'
  BY <1>8, <1>10 DEF CacheInv, StaleIsExcused, Owed
<1> QED BY <1>1, <1>5, <1>6, <1>9, <1>10 DEF CacheInv

-----------------------------------------------------------------------------
\* A handler's commit makes its tables owed, which excuses every snapshot.
LEMMA CommitInv ==
  ASSUME CacheInv, NEW h \in Handlers, NEW tables \in SUBSET Tables, Commit(h, tables)
  PROVE  CacheInv'
<1>1. db' \in Contents /\ \A t \in Tables \ tables : db'[t] = db[t]
  BY WrittenFacts DEF Commit, CacheInv
<1>2. owed' \in [Handlers -> SUBSET Tables] /\ owed'[h] = tables
  BY DEF Commit, CacheInv, TypeOK
<1>3. \A t \in Tables : (t \in tables \/ Owed(t)) => Owed(t)'
  BY <1>2 DEF Commit, CacheInv, TypeOK, Owed
<1>4. TypeOK'
  BY <1>1, <1>2, CacheAssumption DEF CacheAssumption, Commit, CacheInv, TypeOK
<1>5. StaleIsExcused' BY <1>1, <1>3 DEF Commit, CacheInv, StaleIsExcused
<1>6. LoadingIsExcused' BY <1>1, <1>3 DEF Commit, CacheInv, LoadingIsExcused
<1> QED BY <1>4, <1>5, <1>6 DEF CacheInv

\* What ends a handler's debt: its tables are missed by every snapshot that
\* has read them, and are owed by the other handlers as before.
LEMMA SettledLoading ==
  ASSUME CacheInv, NEW h \in Handlers, UNCHANGED db,
         request' = Overtake(owed[h]), owed' = [owed EXCEPT ![h] = {}]
  PROVE  /\ request' \in [Requests -> RequestRows]
         /\ owed' \in [Handlers -> SUBSET Tables]
         /\ \A t \in Tables : Owed(t) => Owed(t)' \/ t \in owed[h]
         /\ LoadingIsExcused'
<1>1. owed[h] \in SUBSET Tables /\ TypeOK BY DEF CacheInv, TypeOK
<1>2. /\ request' \in [Requests -> RequestRows]
      /\ \A r \in Requests :
           /\ request'[r].next = request[r].next
           /\ request'[r].snap = request[r].snap
           /\ request[r].missed \subseteq request'[r].missed
           /\ \A t \in owed[h] : t < request[r].next => t \in request'[r].missed
  BY <1>1, OvertakeFacts
<1>3. owed' \in [Handlers -> SUBSET Tables] BY <1>1 DEF TypeOK
<1>4. \A t \in Tables : Owed(t) => Owed(t)' \/ t \in owed[h] BY <1>1 DEF Owed, TypeOK
<1>5. LoadingIsExcused'
  <2> SUFFICES ASSUME NEW r \in Requests, NEW t \in Tables, t < request'[r].next
               PROVE  request'[r].snap[t] = db'[t] \/ Owed(t)' \/ t \in request'[r].missed
    BY DEF LoadingIsExcused
  <2>1. t < request[r].next BY <1>2
  <2>2. request[r].snap[t] = db[t] \/ Owed(t) \/ t \in request[r].missed
    BY <2>1 DEF CacheInv, LoadingIsExcused
  <2> QED BY <1>2, <1>4, <2>1, <2>2
<1> QED BY <1>2, <1>3, <1>4, <1>5

\* The DEL leaves nothing to be stale.
LEMMA InvalidateInv ==
  ASSUME CacheInv, NEW h \in Handlers, InvalidateSeedCache(h)
  PROVE  CacheInv'
<1>1. /\ request' \in [Requests -> RequestRows] /\ owed' \in [Handlers -> SUBSET Tables]
      /\ LoadingIsExcused'
  BY SettledLoading DEF InvalidateSeedCache
<1>2. TypeOK' BY <1>1 DEF InvalidateSeedCache, CacheInv, TypeOK, RequestRows
<1>3. StaleIsExcused' BY DEF InvalidateSeedCache, StaleIsExcused
<1> QED BY <1>1, <1>2, <1>3 DEF CacheInv

\* A DEL that is lost leaves the entry having missed the handler's tables.
LEMMA LostInv ==
  ASSUME CacheInv, NEW h \in Handlers, InvalidationLost(h)
  PROVE  CacheInv'
<1>1. /\ request' \in [Requests -> RequestRows] /\ owed' \in [Handlers -> SUBSET Tables]
      /\ \A t \in Tables : Owed(t) => Owed(t)' \/ t \in owed[h]
      /\ LoadingIsExcused'
  BY SettledLoading DEF InvalidationLost
<1>2. owed[h] \in SUBSET Tables /\ TypeOK BY DEF CacheInv, TypeOK
<1>3. /\ entry' \in Entries \cup {Empty}
      /\ entry # Empty => entry'.snap = entry.snap /\ entry'.missed = entry.missed \cup owed[h]
      /\ entry = Empty => entry' = Empty
  BY <1>2, UnawareFacts DEF InvalidationLost
<1>4. faults' \in 0 .. MaxFaults
  BY CacheAssumption DEF CacheAssumption, InvalidationLost, Fault, CacheInv, TypeOK
<1>5. TypeOK' BY <1>1, <1>3, <1>4 DEF InvalidationLost, CacheInv, TypeOK, RequestRows
<1>6. StaleIsExcused'
  BY <1>1, <1>3 DEF InvalidationLost, CacheInv, StaleIsExcused
<1> QED BY <1>1, <1>5, <1>6 DEF CacheInv

\* A consumer's write is missed by the entry and by every snapshot that has
\* read its tables; the others read them afterwards.
LEMMA ConsumeInv ==
  ASSUME CacheInv, NEW tables \in SUBSET Tables, Consume(tables)
  PROVE  CacheInv'
<1> USE DEF CacheInv
<1>1. db' \in Contents /\ \A t \in Tables \ tables : db'[t] = db[t]
  BY WrittenFacts DEF Consume
<1>2. /\ entry' \in Entries \cup {Empty}
      /\ entry # Empty => entry'.snap = entry.snap /\ entry'.missed = entry.missed \cup tables
      /\ entry = Empty => entry' = Empty
  BY UnawareFacts DEF Consume
<1>3. /\ request' \in [Requests -> RequestRows]
      /\ \A r \in Requests :
           /\ request'[r].next = request[r].next
           /\ request'[r].snap = request[r].snap
           /\ request[r].missed \subseteq request'[r].missed
           /\ \A t \in tables : t < request[r].next => t \in request'[r].missed
  BY OvertakeFacts DEF Consume
<1>4. \A t \in Tables : Owed(t)' = Owed(t) BY DEF Consume, Owed
<1>5. TypeOK'
  BY <1>1, <1>2, <1>3, CacheAssumption DEF CacheAssumption, Consume, TypeOK, RequestRows
<1>6. StaleIsExcused' BY <1>1, <1>2, <1>4 DEF StaleIsExcused
<1>7. LoadingIsExcused'
  <2> SUFFICES ASSUME NEW r \in Requests, NEW t \in Tables, t < request'[r].next
               PROVE  request'[r].snap[t] = db'[t] \/ Owed(t)' \/ t \in request'[r].missed
    BY DEF LoadingIsExcused
  <2>1. t < request[r].next BY <1>3
  <2>2. request[r].snap[t] = db[t] \/ Owed(t) \/ t \in request[r].missed
    BY <2>1 DEF LoadingIsExcused
  <2> QED BY <1>1, <1>3, <1>4, <2>1, <2>2
<1> QED BY <1>5, <1>6, <1>7

\* Expiry leaves nothing to be stale.
LEMMA ExpireInv == CacheInv /\ Expire => CacheInv'
BY DEF CacheInv, Expire, TypeOK, StaleIsExcused, LoadingIsExcused, Owed

\* The inductive step, one case per action.
LEMMA CacheStep == CacheInv /\ [Next]_vars => CacheInv'
<1> SUFFICES ASSUME CacheInv, [Next]_vars PROVE CacheInv' OBVIOUS
<1>1. CASE UNCHANGED vars
  BY <1>1 DEF vars, CacheInv, TypeOK, StaleIsExcused, LoadingIsExcused, Owed
<1>2. CASE Hit BY <1>1, <1>2 DEF Hit
<1>3. ASSUME NEW r \in Requests, loadCached(r) PROVE CacheInv' BY <1>3, MissInv
<1>4. ASSUME NEW r \in Requests, Step(r) PROVE CacheInv'
  BY <1>4, LoadInv, LoadFailsInv, SetJSONInv DEF Step
<1>5. ASSUME NEW h \in Handlers, NEW tables \in HandlerWrites, Commit(h, tables)
      PROVE  CacheInv'
  BY <1>5, CommitInv, CacheAssumption DEF CacheAssumption
<1>6. ASSUME NEW h \in Handlers, Settle(h) PROVE CacheInv'
  BY <1>6, InvalidateInv, LostInv DEF Settle
<1>7. ASSUME NEW tables \in ConsumerWrites, Consume(tables) PROVE CacheInv'
  BY <1>7, ConsumeInv, CacheAssumption DEF CacheAssumption
<1>8. CASE Expire BY <1>8, ExpireInv
<1> QED BY <1>1, <1>2, <1>3, <1>4, <1>5, <1>6, <1>7, <1>8 DEF Next

\* The cache keeps its strengthened invariant forever.
THEOREM CacheInvariant == Spec => []CacheInv
  BY CacheInit, CacheStep, PTL DEF Spec

\* The entry, the readers and the debts of the write handlers stay well formed
\* whatever Redis, the database and the clients do (redis.go, seed.go).
THEOREM CacheTypes == Spec => []TypeOK
<1>1. CacheInv => TypeOK BY DEF CacheInv
<1> QED BY <1>1, CacheInvariant, PTL

\* GET /seed answers with stale data only between a handler's commit and its
\* DEL, or for a DEL lost, overtaken or never sent (router.go:300-302).
THEOREM CacheStaleness == Spec => []StaleIsExcused
<1>1. CacheInv => StaleIsExcused BY DEF CacheInv
<1> QED BY <1>1, CacheInvariant, PTL
=============================================================================
