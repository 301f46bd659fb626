---------------------------- MODULE OutboxProofs ----------------------------
(***************************************************************************)
(* That the outbox loses no event, and delivers none twice without a       *)
(* cause, for any number of rows, publishers and faults.  Neither property *)
(* is inductive: a row is retired on the word of the publisher that        *)
(* dispatched it, so the first proof carries what a successful dispatch in *)
(* hand says about the topic; and the second counts, for every row, the    *)
(* publishers that may still deliver it.                                   *)
(***************************************************************************)
EXTENDS Outbox, FiniteSetTheorems, TLAPS

\* A publisher that will mark a row dispatched has put it in the topic.
HandIsDelivered ==
    \A p \in Publishers :
        hand[p] # Nothing /\ hand[p].ok => delivered[hand[p].row] > 0

OutboxInv == TypeOK /\ RetiredIsDelivered /\ HandIsDelivered

\* An empty outbox satisfies the invariant.
LEMMA OutboxInit == Init => OutboxInv
  BY OutboxAssumption DEF Init, OutboxInv, TypeOK, RetiredIsDelivered, HandIsDelivered,
       RowStates

\* drainOnce's claim leases rows that are pending: none is retired by it.
LEMMA ClaimStep ==
  ASSUME OutboxInv, NEW p \in Publishers, ClaimBatch(p)
  PROVE  OutboxInv'
<1> USE DEF OutboxInv
<1>1. /\ DueRows \subseteq Rows
      /\ \A r \in DueRows : row[r].state = "pending"
  BY DEF DueRows, Pending
<1>0. \A r \in Rows : /\ Claimed(row[r]) \in [state : RowStates, attempts : Nat, due : BOOLEAN]
                      /\ Claimed(row[r]).state = row[r].state
  <2> TAKE r \in Rows
  <2> DEFINE n == row[r].attempts + 1
  <2>1. row[r] \in [state : RowStates, attempts : Nat, due : BOOLEAN] /\ n \in Nat
    BY DEF TypeOK
  <2>2. Claimed(row[r]) = [row[r] EXCEPT !.attempts = n, !.due = FALSE]
    BY DEF Claimed
  <2> HIDE DEF n
  <2> QED
    BY <2>1, <2>2
<1>2. row' \in [Rows -> [state : RowStates, attempts : Nat, due : BOOLEAN]]
  <2> DEFINE State == [state : RowStates, attempts : Nat, due : BOOLEAN]
  <2>1. \A r \in Rows : row[r] \in State /\ Claimed(row[r]) \in State
    BY <1>0 DEF TypeOK
  <2> HIDE DEF State
  <2>2. row' \in [Rows -> State]
    BY <2>1 DEF ClaimBatch
  <2> QED
    BY <2>2 DEF State
<1>3. \A r \in Rows : row'[r].state = row[r].state
  BY <1>0 DEF ClaimBatch
<1>4. held' \in [Publishers -> SUBSET [row : Rows, attempts : Nat]]
  BY <1>1 DEF ClaimBatch, TypeOK
<1>5. TypeOK'
  BY <1>2, <1>4 DEF ClaimBatch, TypeOK
<1> QED
  BY <1>3, <1>5 DEF ClaimBatch, RetiredIsDelivered, HandIsDelivered

\* A dispatch is in hand as successful only when it reached the topic.
LEMMA DispatchStep ==
  ASSUME OutboxInv, NEW p \in Publishers, NEW c \in held[p], DispatchOutbox(p, c)
  PROVE  OutboxInv'
<1> USE DEF OutboxInv
<1>1. c \in [row : Rows, attempts : Nat]
  BY DEF TypeOK
<1>2. PICK ok \in BOOLEAN :
        /\ hand' = [hand EXCEPT ![p] = [row |-> c.row, attempts |-> c.attempts, ok |-> ok]]
        /\ ok => delivered' = [delivered EXCEPT ![c.row] = delivered[c.row] + 1]
  BY DEF DispatchOutbox
<1>3. /\ delivered' \in [Rows -> Nat]
      /\ \A r \in Rows : delivered'[r] >= delivered[r]
  BY <1>1 DEF DispatchOutbox, TypeOK
<1>4. TypeOK'
  <2>1. held' \in [Publishers -> SUBSET [row : Rows, attempts : Nat]]
    BY DEF DispatchOutbox, TypeOK
  <2>2. hand' \in [Publishers -> {Nothing} \cup [row : Rows, attempts : Nat, ok : BOOLEAN]]
    BY <1>1, <1>2 DEF TypeOK
  <2>3. faults' \in 0 .. MaxFaults /\ excuses' \in [Rows -> Nat]
    BY <1>1, OutboxAssumption DEF DispatchOutbox, Fault, TypeOK
  <2> QED
    BY <1>3, <2>1, <2>2, <2>3 DEF DispatchOutbox, TypeOK
<1>5. RetiredIsDelivered'
  BY <1>3 DEF DispatchOutbox, RetiredIsDelivered, TypeOK
<1>6. HandIsDelivered'
  <2> SUFFICES ASSUME NEW q \in Publishers, hand'[q] # Nothing, hand'[q].ok
               PROVE  delivered'[hand'[q].row] > 0
    BY DEF HandIsDelivered
  <2>1. CASE q = p
    BY <1>1, <1>2, <2>1 DEF TypeOK
  <2>2. CASE q # p
    <3>1. hand'[q] = hand[q] /\ hand[q] # Nothing /\ hand[q].ok
      BY <1>2, <2>2 DEF TypeOK
    <3>2. delivered[hand[q].row] > 0 /\ hand[q].row \in Rows
      BY <3>1 DEF HandIsDelivered, TypeOK
    <3> QED
      BY <1>3, <3>1, <3>2 DEF TypeOK
  <2> QED
    BY <2>1, <2>2
<1> QED
  BY <1>4, <1>5, <1>6

\* A mark retires a row only after a successful dispatch of that row.
LEMMA MarkStep ==
  ASSUME OutboxInv, NEW p \in Publishers, Mark(p)
  PROVE  OutboxInv'
<1> USE DEF OutboxInv
<1>1. hand[p] \in [row : Rows, attempts : Nat, ok : BOOLEAN]
  BY DEF Mark, TypeOK
<1> DEFINE r == hand[p].row
<1>2. r \in Rows
  BY <1>1
<1>3. /\ hand' = [hand EXCEPT ![p] = Nothing]
      /\ held' = held /\ delivered' = delivered
      /\ \/ /\ hand[p].ok
            /\ row' = [row EXCEPT ![r] = Dispatched(row[r])]
         \/ /\ ~hand[p].ok
            /\ row' = [row EXCEPT ![r] = Failed(row[r], hand[p].attempts)]
         \/ row' = row
  BY <1>1 DEF Mark
<1>4. row' \in [Rows -> [state : RowStates, attempts : Nat, due : BOOLEAN]]
  <2>0. row[r] \in [state : RowStates, attempts : Nat, due : BOOLEAN]
    BY <1>2 DEF TypeOK
  <2>1. Dispatched(row[r]) \in [state : RowStates, attempts : Nat, due : BOOLEAN]
    BY <2>0 DEF Dispatched, RowStates
  <2>2. Failed(row[r], hand[p].attempts) \in [state : RowStates, attempts : Nat, due : BOOLEAN]
    <3> DEFINE now == backoffFor(hand[p].attempts) <= 0
    <3> HIDE DEF now
    <3>1. Failed(row[r], hand[p].attempts) = [row[r] EXCEPT !.due = now]
      BY DEF Failed, now
    <3>2. now \in BOOLEAN
      BY DEF now
    <3> QED
      BY <2>0, <3>1, <3>2
  <2> HIDE DEF OutboxInv, r
  <2>3. row \in [Rows -> [state : RowStates, attempts : Nat, due : BOOLEAN]]
    BY DEF OutboxInv, TypeOK
  <2> QED
    BY <1>2, <1>3, <2>1, <2>2, <2>3
<1>5. faults' \in 0 .. MaxFaults /\ excuses' \in [Rows -> Nat]
  BY <1>2, OutboxAssumption DEF Mark, Fault, Excused, TypeOK
<1>6. TypeOK'
  BY <1>3, <1>4, <1>5 DEF TypeOK
<1>7. RetiredIsDelivered'
  <2>1. CASE hand[p].ok
    <3>1. delivered[r] > 0
      BY <2>1 DEF HandIsDelivered, Mark
    <3> QED
      BY <1>2, <1>3, <2>1, <3>1 DEF RetiredIsDelivered, TypeOK
  <2>2. CASE ~hand[p].ok
    <3>1. Failed(row[r], hand[p].attempts).state = row[r].state
      BY <1>2 DEF Failed, TypeOK
    <3>2. \A q \in Rows : row'[q].state = row[q].state
      BY <1>2, <1>3, <2>2, <3>1 DEF TypeOK
    <3> QED
      BY <1>3, <3>2 DEF RetiredIsDelivered
  <2> QED
    BY <2>1, <2>2
<1>8. HandIsDelivered'
  BY <1>3 DEF HandIsDelivered, TypeOK
<1> QED
  BY <1>6, <1>7, <1>8

\* A crash forgets what was in hand and touches neither rows nor topic.
LEMMA CrashStep ==
  ASSUME OutboxInv, NEW p \in Publishers, Crash(p)
  PROVE  OutboxInv'
<1> USE DEF OutboxInv
<1>1. excuses' \in [Rows -> Nat]
  <2>1. hand[p] # Nothing => hand[p].row \in Rows
    BY DEF TypeOK
  <2> QED
    BY <2>1 DEF Crash, Excused, TypeOK
<1>2. TypeOK'
  BY <1>1, OutboxAssumption DEF Crash, Fault, TypeOK
<1> QED
  BY <1>2 DEF Crash, RetiredIsDelivered, HandIsDelivered, TypeOK

\* The inductive step, one case per action.
LEMMA OutboxStep == OutboxInv /\ [Next]_vars => OutboxInv'
<1> SUFFICES ASSUME OutboxInv, [Next]_vars PROVE OutboxInv'
  OBVIOUS
<1>1. ASSUME NEW r \in Rows, EnqueueTx(r) PROVE OutboxInv'
  BY <1>1 DEF EnqueueTx, OutboxInv, TypeOK, RowStates, RetiredIsDelivered, HandIsDelivered
<1>2. ASSUME NEW r \in Rows, Tick(r) PROVE OutboxInv'
  <2>1. row' \in [Rows -> [state : RowStates, attempts : Nat, due : BOOLEAN]]
    BY <1>2 DEF Tick, OutboxInv, TypeOK
  <2>2. \A q \in Rows : row'[q].state = row[q].state
    BY <1>2 DEF Tick, OutboxInv, TypeOK
  <2>3. excuses' \in [Rows -> Nat]
    BY <1>2 DEF Tick, OutboxInv, TypeOK
  <2> QED
    BY <1>2, <2>1, <2>2, <2>3
       DEF Tick, OutboxInv, TypeOK, RetiredIsDelivered, HandIsDelivered
<1>3. ASSUME NEW p \in Publishers, drainOnce(p) PROVE OutboxInv'
  BY <1>3, ClaimStep, DispatchStep, MarkStep DEF drainOnce
<1>4. ASSUME NEW p \in Publishers, Crash(p) PROVE OutboxInv'
  BY <1>4, CrashStep
<1>5. CASE UNCHANGED vars
  BY <1>5 DEF vars, OutboxInv, TypeOK, RetiredIsDelivered, HandIsDelivered
<1> QED
  BY <1>1, <1>2, <1>3, <1>4, <1>5 DEF Next

\* The outbox keeps its strengthened invariant forever.
THEOREM OutboxInvariant == Spec => []OutboxInv
  BY OutboxInit, OutboxStep, PTL DEF Spec

\* No crash, broker error, lost acknowledgement or race between publishers
\* retires a row whose event is not in the topic (outbox.go:4-10).
THEOREM NoEventIsLost == Spec => []RetiredIsDelivered
<1>1. OutboxInv => RetiredIsDelivered
  BY DEF OutboxInv
<1> QED
  BY <1>1, OutboxInvariant, PTL

\* Every record stays within its type through faults, leases and restarts.
THEOREM OutboxTypes == Spec => []TypeOK
<1>1. OutboxInv => TypeOK
  BY DEF OutboxInv
<1> QED
  BY <1>1, OutboxInvariant, PTL

-----------------------------------------------------------------------------
(* Duplicates.  A row can be delivered once more by every publisher that   *)
(* has it still to dispatch, or will mark it failed, and by one that may   *)
(* yet claim it.  These chances and the deliveries made never exceed one   *)
(* and the excuses.                                                        *)

\* Publisher p will dispatch row r, or report its dispatch as failed.
Waits(p, r) == \/ \E c \in held[p] : c.row = r
               \/ hand[p] # Nothing /\ hand[p].row = r /\ ~hand[p].ok

Waiting(r) == {p \in Publishers : Waits(p, r)}

\* Row r can be claimed, or could be without a lease running out first.
Claimable(r) ==
    \/ row[r].state = "absent"
    \/ row[r].state = "pending" /\ (row[r].due \/ \A p \in Publishers : ~Holds(p, r))

Chance(r) == IF Claimable(r) THEN 1 ELSE 0

Counted(r) ==
    /\ IsFiniteSet(Waiting(r))
    /\ delivered[r] + Cardinality(Waiting(r)) + Chance(r) <= 1 + excuses[r]

\* A publisher has a row at most once, to dispatch or in hand.
OneClaim ==
    \A p \in Publishers :
        /\ \A c, d \in held[p] : c.row = d.row => c = d
        /\ hand[p] # Nothing => \A c \in held[p] : c.row # hand[p].row

\* Only rows in the table are held.
HeldIsPresent ==
    \A p \in Publishers, r \in Rows : Holds(p, r) => row[r].state # "absent"

CountInv == OneClaim /\ HeldIsPresent /\ \A r \in Rows : Counted(r)

\* One chance for every row of an empty outbox.
LEMMA CountInit == Init => CountInv
<1> SUFFICES ASSUME Init PROVE CountInv
  OBVIOUS
<1>1. OneClaim /\ HeldIsPresent
  BY DEF Init, OneClaim, HeldIsPresent, Holds
<1>2. ASSUME NEW r \in Rows PROVE Counted(r)
  <2>1. Waiting(r) = {}
    BY DEF Init, Waiting, Waits
  <2>2. delivered[r] = 0 /\ excuses[r] = 0 /\ Chance(r) = 1
    BY DEF Init, Chance, Claimable
  <2> QED
    BY <2>1, <2>2, FS_EmptySet DEF Counted
<1> QED
  BY <1>1, <1>2 DEF CountInv

\* The same publishers wait, and what was counted grows no faster than the
\* excuses.
LEMMA SameWaiting ==
  ASSUME NEW r \in Rows, Counted(r), TypeOK, TypeOK',
         \A q \in Publishers : Waits(q, r)' <=> Waits(q, r),
         delivered'[r] + Chance(r)' - excuses'[r] <= delivered[r] + Chance(r) - excuses[r]
  PROVE  Counted(r)'
<1>1. Waiting(r)' = Waiting(r)
  BY DEF Waiting
<1>2. Cardinality(Waiting(r)) \in Nat
  BY FS_CardinalityType DEF Counted
<1>3. /\ delivered[r] \in Nat /\ delivered'[r] \in Nat
      /\ excuses[r] \in Nat /\ excuses'[r] \in Nat
  BY DEF TypeOK
<1>4. Chance(r) \in Nat /\ Chance(r)' \in Nat
  BY DEF Chance
<1> DEFINE n == Cardinality(Waiting(r))  c == Chance(r)  d == Chance(r)'
<1>5. Cardinality(Waiting(r))' = n
  BY <1>1
<1> HIDE DEF n, c, d
<1>6. delivered[r] + n + c <= 1 + excuses[r]
  BY DEF Counted, n, c
<1>7. delivered'[r] + d - excuses'[r] <= delivered[r] + c - excuses[r]
  BY DEF c, d
<1>8. n \in Nat /\ c \in Nat /\ d \in Nat
  BY <1>2, <1>4 DEF n, c, d
<1>9. delivered'[r] + n + d <= 1 + excuses'[r]
  BY <1>3, <1>6, <1>7, <1>8
<1>10. IsFiniteSet(Waiting(r))'
  BY <1>1 DEF Counted
<1> QED
  BY <1>5, <1>9, <1>10 DEF Counted, d

\* Publisher p alone stops waiting for row r.
LEMMA OneLess ==
  ASSUME NEW r \in Rows, Counted(r), TypeOK, TypeOK', NEW p \in Publishers,
         \A q \in Publishers \ {p} : Waits(q, r)' <=> Waits(q, r),
         Waits(p, r), ~Waits(p, r)',
         delivered'[r] + Chance(r)' - excuses'[r] <= delivered[r] + Chance(r) - excuses[r] + 1
  PROVE  Counted(r)'
<1>1. Waiting(r)' = Waiting(r) \ {p} /\ p \in Waiting(r)
  BY DEF Waiting
<1>2. Cardinality(Waiting(r)) \in Nat /\ Cardinality(Waiting(r) \ {p}) = Cardinality(Waiting(r)) - 1
      /\ IsFiniteSet(Waiting(r) \ {p})
  BY <1>1, FS_CardinalityType, FS_RemoveElement DEF Counted
<1>3. /\ delivered[r] \in Nat /\ delivered'[r] \in Nat
      /\ excuses[r] \in Nat /\ excuses'[r] \in Nat
  BY DEF TypeOK
<1>4. Chance(r) \in Nat /\ Chance(r)' \in Nat
  BY DEF Chance
<1> DEFINE n == Cardinality(Waiting(r))  c == Chance(r)  d == Chance(r)'
<1>5. Cardinality(Waiting(r))' = n - 1
  BY <1>1, <1>2
<1> HIDE DEF n, c, d
<1>6. delivered[r] + n + c <= 1 + excuses[r]
  BY DEF Counted, n, c
<1>7. delivered'[r] + d - excuses'[r] <= delivered[r] + c - excuses[r] + 1
  BY DEF c, d
<1>8. n \in Nat /\ c \in Nat /\ d \in Nat
  BY <1>2, <1>4 DEF n, c, d
<1>9. delivered'[r] + (n - 1) + d <= 1 + excuses'[r]
  BY <1>3, <1>6, <1>7, <1>8
<1>10. IsFiniteSet(Waiting(r))'
  BY <1>1, <1>2
<1> QED
  BY <1>5, <1>9, <1>10 DEF Counted, d

\* Publisher p alone begins to wait for row r, which it took from the table.
LEMMA OneMoreWaits ==
  ASSUME NEW r \in Rows, Counted(r), TypeOK, TypeOK', NEW p \in Publishers,
         \A q \in Publishers \ {p} : Waits(q, r)' <=> Waits(q, r),
         ~Waits(p, r), Waits(p, r)',
         delivered'[r] = delivered[r], excuses'[r] = excuses[r],
         Claimable(r), ~Claimable(r)'
  PROVE  Counted(r)'
<1>1. Waiting(r)' = Waiting(r) \cup {p} /\ p \notin Waiting(r)
  BY DEF Waiting
<1>2. Cardinality(Waiting(r)) \in Nat /\ Cardinality(Waiting(r) \cup {p}) = Cardinality(Waiting(r)) + 1
      /\ IsFiniteSet(Waiting(r) \cup {p})
  BY <1>1, FS_CardinalityType, FS_AddElement DEF Counted
<1>3. delivered[r] \in Nat /\ excuses[r] \in Nat
  BY DEF TypeOK
<1>4. Chance(r) = 1 /\ Chance(r)' = 0
  BY DEF Chance
<1> DEFINE n == Cardinality(Waiting(r))
<1>5. Cardinality(Waiting(r))' = n + 1
  BY <1>1, <1>2
<1>6. n \in Nat /\ delivered[r] + n + 1 <= 1 + excuses[r]
  BY <1>2, <1>4 DEF Counted
<1> HIDE DEF n
<1>7. delivered'[r] + (n + 1) + 0 <= 1 + excuses'[r]
  BY <1>3, <1>6
<1> QED
  BY <1>1, <1>2, <1>4, <1>5, <1>7 DEF Counted

\* What an action leaves of a row it does not touch.
LEMMA UntouchedCounted ==
  ASSUME NEW r \in Rows, Counted(r), TypeOK, TypeOK',
         \A q \in Publishers : Waits(q, r)' <=> Waits(q, r),
         \A q \in Publishers : Holds(q, r)' <=> Holds(q, r),
         row'[r].state = row[r].state, row'[r].due = row[r].due,
         delivered'[r] = delivered[r], excuses'[r] = excuses[r]
  PROVE  Counted(r)'
<1>1. Claimable(r)' <=> Claimable(r)
  BY DEF Claimable
<1>2. Chance(r)' = Chance(r) /\ Chance(r) \in Nat
  BY <1>1 DEF Chance
<1>3. delivered[r] \in Nat /\ excuses[r] \in Nat
  BY DEF TypeOK
<1> QED
  BY <1>2, <1>3, SameWaiting

\* A row enters the table with its one chance.
LEMMA CountEnqueue ==
  ASSUME OutboxInv, OutboxInv', CountInv, NEW r \in Rows, EnqueueTx(r)
  PROVE  CountInv'
<1>1. OneClaim'
  BY DEF CountInv, OneClaim, EnqueueTx
<1>2. \A q \in Publishers, s \in Rows : (Holds(q, s)' <=> Holds(q, s)) /\ (Waits(q, s)' <=> Waits(q, s))
  BY DEF Holds, Waits, EnqueueTx
<1>3. /\ row'[r].state = "pending" /\ row'[r].due
      /\ \A s \in Rows \ {r} : row'[s] = row[s]
  BY DEF EnqueueTx, OutboxInv, TypeOK
<1>4. HeldIsPresent'
  BY <1>2, <1>3 DEF CountInv, HeldIsPresent
<1>5. ASSUME NEW s \in Rows PROVE Counted(s)'
  <2>1. CASE s = r
    <3>1. Chance(r) = 1 /\ Chance(r)' = 1
      BY <1>3 DEF Chance, Claimable, EnqueueTx
    <3>2. delivered'[r] = delivered[r] /\ excuses'[r] = excuses[r]
          /\ delivered[r] \in Nat /\ excuses[r] \in Nat
      BY DEF EnqueueTx, OutboxInv, TypeOK
    <3> QED
      BY <1>2, <2>1, <3>1, <3>2, SameWaiting DEF CountInv, OutboxInv
  <2>2. CASE s # r
    BY <1>2, <1>3, <2>2, UntouchedCounted DEF CountInv, OutboxInv, EnqueueTx
  <2> QED
    BY <2>1, <2>2
<1> QED
  BY <1>1, <1>4, <1>5 DEF CountInv

\* A lease that runs out under its holder adds a chance and an excuse.
LEMMA CountTick ==
  ASSUME OutboxInv, OutboxInv', CountInv, NEW r \in Rows, Tick(r)
  PROVE  CountInv'
<1>1. OneClaim'
  BY DEF CountInv, OneClaim, Tick
<1>2. \A q \in Publishers, s \in Rows : (Holds(q, s)' <=> Holds(q, s)) /\ (Waits(q, s)' <=> Waits(q, s))
  BY DEF Holds, Waits, Tick
<1>3. /\ row[r].state = "pending" /\ row'[r].state = "pending" /\ ~row[r].due /\ row'[r].due
      /\ \A s \in Rows \ {r} : row'[s] = row[s]
  <2>1. row[r] \in [state : RowStates, attempts : Nat, due : BOOLEAN]
    BY DEF OutboxInv, TypeOK
  <2>2. row' = [row EXCEPT ![r] = [row[r] EXCEPT !.due = TRUE]]
    BY DEF Tick
  <2> QED
    BY <2>1, <2>2 DEF Tick, Pending, OutboxInv, TypeOK
<1>4. HeldIsPresent'
  BY <1>2, <1>3 DEF CountInv, HeldIsPresent
<1>5. ASSUME NEW s \in Rows PROVE Counted(s)'
  <2>0. delivered' = delivered /\ delivered[s] \in Nat /\ excuses[s] \in Nat
    BY DEF Tick, OutboxInv, TypeOK
  <2>1. CASE s = r
    <3>1. Chance(r)' = 1
      BY <1>3 DEF Chance, Claimable
    <3>2. CASE \E q \in Publishers : Holds(q, r)
      <4>1. excuses'[r] = excuses[r] + 1
        BY <3>2 DEF Tick, OutboxInv, TypeOK
      <4>2. Chance(r) = 0
        BY <1>3, <3>2 DEF Chance, Claimable
      <4> QED
        BY <1>2, <2>0, <2>1, <3>1, <4>1, <4>2, SameWaiting DEF CountInv, OutboxInv
    <3>3. CASE ~\E q \in Publishers : Holds(q, r)
      <4>1. excuses'[r] = excuses[r]
        BY <3>3 DEF Tick, OutboxInv, TypeOK
      <4>2. Chance(r) = 1
        BY <1>3, <3>3 DEF Chance, Claimable
      <4> QED
        BY <1>2, <2>0, <2>1, <3>1, <4>1, <4>2, SameWaiting DEF CountInv, OutboxInv
    <3> QED
      BY <3>2, <3>3
  <2>2. CASE s # r
    <3>1. excuses'[s] = excuses[s]
      BY <2>2 DEF Tick, OutboxInv, TypeOK
    <3> QED
      BY <1>2, <1>3, <2>0, <2>2, <3>1, UntouchedCounted DEF CountInv, OutboxInv
  <2> QED
    BY <2>1, <2>2
<1> QED
  BY <1>1, <1>4, <1>5 DEF CountInv

\* The claim turns the one chance of every row it takes into a waiting
\* publisher.
LEMMA CountClaim ==
  ASSUME OutboxInv, OutboxInv', CountInv, NEW p \in Publishers, ClaimBatch(p)
  PROVE  CountInv'
<1>1. /\ DueRows \subseteq Rows
      /\ \A r \in DueRows : row[r].state = "pending" /\ row[r].due
  BY DEF DueRows, Pending
<1>2. \A r \in Rows : /\ Claimed(row[r]).state = row[r].state
                      /\ ~Claimed(row[r]).due
  <2> TAKE r \in Rows
  <2> DEFINE n == row[r].attempts + 1
  <2>1. row[r] \in [state : RowStates, attempts : Nat, due : BOOLEAN]
    BY DEF OutboxInv, TypeOK
  <2>2. Claimed(row[r]) = [row[r] EXCEPT !.attempts = n, !.due = FALSE]
    BY DEF Claimed
  <2> HIDE DEF n
  <2> QED
    BY <2>1, <2>2
<1>3. \A r \in Rows : /\ row'[r].state = row[r].state
                      /\ r \in DueRows => ~row'[r].due
                      /\ r \notin DueRows => row'[r].due = row[r].due
  BY <1>2 DEF ClaimBatch
<1>4. /\ \A q \in Publishers \ {p} : held'[q] = held[q]
      /\ held'[p] = {[row |-> r, attempts |-> row[r].attempts + 1] : r \in DueRows}
      /\ held[p] = {} /\ hand[p] = Nothing /\ hand' = hand
  BY DEF ClaimBatch, OutboxInv, TypeOK
<1>5. \A c, d \in held'[p] : c.row = d.row => c = d
  BY <1>4
<1>6. \A r \in Rows : (\E c \in held'[p] : c.row = r) <=> r \in DueRows
  <2> TAKE r \in Rows
  <2>1. ASSUME NEW c \in held'[p], c.row = r PROVE r \in DueRows
    BY <1>4, <2>1
  <2>2. ASSUME r \in DueRows PROVE \E c \in held'[p] : c.row = r
    <3>1. [row |-> r, attempts |-> row[r].attempts + 1] \in held'[p]
      BY <1>4, <2>2
    <3> QED
      BY <3>1
  <2> QED
    BY <2>1, <2>2
<1>7. \A q \in Publishers \ {p}, s \in Rows : (Holds(q, s)' <=> Holds(q, s)) /\ (Waits(q, s)' <=> Waits(q, s))
  BY <1>4 DEF Holds, Waits
<1>8. \A s \in Rows : /\ ~Holds(p, s) /\ ~Waits(p, s)
                      /\ (Holds(p, s)' <=> s \in DueRows)
                      /\ (Waits(p, s)' <=> s \in DueRows)
  BY <1>4, <1>6 DEF Holds, Waits
<1>9. OneClaim'
  BY <1>4, <1>5 DEF CountInv, OneClaim
<1>10. HeldIsPresent'
  <2> SUFFICES ASSUME NEW q \in Publishers, NEW s \in Rows, Holds(q, s)' PROVE row'[s].state # "absent"
    BY DEF HeldIsPresent
  <2>1. CASE q = p
    BY <1>1, <1>3, <1>8, <2>1
  <2>2. CASE q # p
    BY <1>3, <1>7, <2>2 DEF CountInv, HeldIsPresent
  <2> QED
    BY <2>1, <2>2
<1>11. ASSUME NEW s \in Rows PROVE Counted(s)'
  <2>0. delivered' = delivered /\ excuses' = excuses
    BY DEF ClaimBatch
  <2>1. CASE s \in DueRows
    <3>1. Claimable(s) /\ ~Claimable(s)'
      BY <1>1, <1>3, <1>8, <2>1 DEF Claimable
    <3> QED
      BY <1>7, <1>8, <2>0, <2>1, <3>1, OneMoreWaits DEF CountInv, OutboxInv
  <2>2. CASE s \notin DueRows
    <3>1. \A q \in Publishers : (Holds(q, s)' <=> Holds(q, s)) /\ (Waits(q, s)' <=> Waits(q, s))
      BY <1>7, <1>8, <2>2
    <3> QED
      BY <1>3, <2>0, <2>2, <3>1, UntouchedCounted DEF CountInv, OutboxInv
  <2> QED
    BY <2>1, <2>2
<1> QED
  BY <1>9, <1>10, <1>11 DEF CountInv

\* A dispatch that reached the topic uses up its publisher's chance, unless
\* the acknowledgement was lost, which is an excuse.
LEMMA CountDispatch ==
  ASSUME OutboxInv, OutboxInv', CountInv, NEW p \in Publishers, NEW c \in held[p],
         DispatchOutbox(p, c)
  PROVE  CountInv'
<1>1. c \in [row : Rows, attempts : Nat] /\ c.row \in Rows
  BY DEF OutboxInv, TypeOK
<1>2. PICK ok \in BOOLEAN :
        /\ hand' = [hand EXCEPT ![p] = [row |-> c.row, attempts |-> c.attempts, ok |-> ok]]
        /\ \/ /\ ok /\ delivered' = [delivered EXCEPT ![c.row] = delivered[c.row] + 1]
              /\ excuses' = excuses
           \/ ~ok /\ delivered' = delivered /\ excuses' = excuses
           \/ /\ ~ok /\ delivered' = [delivered EXCEPT ![c.row] = delivered[c.row] + 1]
              /\ excuses' = [excuses EXCEPT ![c.row] = excuses[c.row] + 1]
  BY DEF DispatchOutbox
<1>3. /\ hand[p] = Nothing /\ row' = row /\ held'[p] = held[p] \ {c}
      /\ \A q \in Publishers \ {p} : held'[q] = held[q] /\ hand'[q] = hand[q]
      /\ hand'[p] = [row |-> c.row, attempts |-> c.attempts, ok |-> ok]
      /\ hand'[p] # Nothing /\ hand'[p].row = c.row /\ hand'[p].ok = ok
  BY <1>1, <1>2, OutboxAssumption DEF DispatchOutbox, OutboxInv, TypeOK
<1>4. \A d \in held[p] : d.row = c.row => d = c
  BY DEF CountInv, OneClaim
<1>5. \A q \in Publishers \ {p}, s \in Rows : (Holds(q, s)' <=> Holds(q, s)) /\ (Waits(q, s)' <=> Waits(q, s))
  BY <1>3 DEF Holds, Waits
<1>6. \A s \in Rows : Holds(p, s)' <=> Holds(p, s)
  BY <1>3, <1>4 DEF Holds
<1>7. \A s \in Rows \ {c.row} : Waits(p, s)' <=> Waits(p, s)
  BY <1>3, <1>4 DEF Waits
<1>8. Waits(p, c.row) /\ (Waits(p, c.row)' <=> ~ok)
  BY <1>3, <1>4 DEF Waits
<1>9. OneClaim'
  BY <1>3, <1>4 DEF CountInv, OneClaim
<1>10. HeldIsPresent'
  BY <1>3, <1>5, <1>6 DEF CountInv, HeldIsPresent
<1>11. ASSUME NEW s \in Rows PROVE Counted(s)'
  <2>0. delivered[s] \in Nat /\ excuses[s] \in Nat
    BY DEF OutboxInv, TypeOK
  <2>1. \A q \in Publishers : Holds(q, s)' <=> Holds(q, s)
    BY <1>5, <1>6
  <2>2. CASE s # c.row
    <3>1. delivered'[s] = delivered[s] /\ excuses'[s] = excuses[s]
      BY <1>1, <1>2, <2>2 DEF OutboxInv, TypeOK
    <3>2. \A q \in Publishers : Waits(q, s)' <=> Waits(q, s)
      BY <1>5, <1>7, <2>2
    <3> QED
      BY <1>3, <2>1, <3>1, <3>2, UntouchedCounted DEF CountInv, OutboxInv
  <2>3. CASE s = c.row
    <3>1. Chance(s)' = Chance(s) /\ Chance(s) \in Nat
      BY <1>3, <2>1 DEF Chance, Claimable
    <3>2. CASE ok
      <4>1. delivered'[s] = delivered[s] + 1 /\ excuses'[s] = excuses[s]
        BY <1>2, <2>3, <3>2 DEF OutboxInv, TypeOK
      <4> QED
        BY <1>5, <1>8, <2>0, <2>3, <3>1, <3>2, <4>1, OneLess DEF CountInv, OutboxInv
    <3>3. CASE ~ok
      <4>1. \/ delivered'[s] = delivered[s] /\ excuses'[s] = excuses[s]
            \/ delivered'[s] = delivered[s] + 1 /\ excuses'[s] = excuses[s] + 1
        BY <1>2, <2>3, <3>3 DEF OutboxInv, TypeOK
      <4>2. \A q \in Publishers : Waits(q, s)' <=> Waits(q, s)
        BY <1>5, <1>8, <2>3, <3>3
      <4> QED
        BY <2>0, <3>1, <4>1, <4>2, SameWaiting DEF CountInv, OutboxInv
    <3> QED
      BY <3>2, <3>3
  <2> QED
    BY <2>2, <2>3
<1> QED
  BY <1>9, <1>10, <1>11 DEF CountInv

\* A mark ends the claim: of a dispatched row for good, of a failed one in
\* favour of the next claim, and a lost mark of a dispatched row is an excuse.
LEMMA CountMark ==
  ASSUME OutboxInv, OutboxInv', CountInv, NEW p \in Publishers, Mark(p)
  PROVE  CountInv'
<1>1. hand[p] # Nothing /\ hand[p] \in [row : Rows, attempts : Nat, ok : BOOLEAN]
  BY DEF Mark, OutboxInv, TypeOK
<1>0. PICK r \in Rows : r = hand[p].row
  BY <1>1
<1>2. r \in Rows /\ r = hand[p].row /\ hand[p].ok \in BOOLEAN
  BY <1>0, <1>1
<1>3. /\ hand'[p] = Nothing /\ held' = held /\ delivered' = delivered
      /\ \A q \in Publishers \ {p} : hand'[q] = hand[q]
  BY DEF Mark, OutboxInv, TypeOK
<1>4. \A s \in Rows \ {r} : row'[s] = row[s] /\ excuses'[s] = excuses[s]
  BY <1>1, <1>2 DEF Mark, Excused, OutboxInv, TypeOK
<1>5. \/ hand[p].ok /\ row'[r].state = "dispatched" /\ excuses'[r] = excuses[r]
      \/ ~hand[p].ok /\ row'[r].state = row[r].state /\ excuses'[r] = excuses[r]
      \/ hand[p].ok /\ row'[r] = row[r] /\ excuses'[r] = excuses[r] + 1
  <2>0. row[r] \in [state : RowStates, attempts : Nat, due : BOOLEAN]
    BY <1>2 DEF OutboxInv, TypeOK
  <2>1. Dispatched(row[r]).state = "dispatched"
    BY <2>0 DEF Dispatched
  <2>2. Failed(row[r], hand[p].attempts).state = row[r].state
    BY <2>0 DEF Failed
  <2>3. \/ row' = [row EXCEPT ![r] = IF hand[p].ok THEN Dispatched(row[r])
                                      ELSE Failed(row[r], hand[p].attempts)] /\ excuses' = excuses
        \/ row' = row /\ excuses' = Excused(hand[p])
    BY <1>2 DEF Mark
  <2> QED
    BY <1>2, <2>1, <2>2, <2>3 DEF Excused, OutboxInv, TypeOK
<1>6. row[r].state # "absent" /\ \A c \in held[p] : c.row # r
  BY <1>1, <1>2 DEF CountInv, HeldIsPresent, OneClaim, Holds
<1>7. \A q \in Publishers \ {p}, s \in Rows : (Holds(q, s)' <=> Holds(q, s)) /\ (Waits(q, s)' <=> Waits(q, s))
  BY <1>3 DEF Holds, Waits
<1>8. \A s \in Rows \ {r} : (Holds(p, s)' <=> Holds(p, s)) /\ (Waits(p, s)' <=> Waits(p, s))
  BY <1>1, <1>2, <1>3 DEF Holds, Waits
<1>9. ~Waits(p, r)' /\ ~Holds(p, r)' /\ (Waits(p, r) <=> ~hand[p].ok)
  BY <1>1, <1>2, <1>3, <1>6 DEF Waits, Holds
<1>10. OneClaim'
  BY <1>3 DEF CountInv, OneClaim
<1>11. \A s \in Rows : row'[s].state = "absent" => row[s].state = "absent"
  BY <1>2, <1>4, <1>5, <1>6
<1>12. HeldIsPresent'
  BY <1>7, <1>8, <1>9, <1>11 DEF CountInv, HeldIsPresent
<1>13. ASSUME NEW s \in Rows PROVE Counted(s)'
  <2>0. delivered[s] \in Nat /\ excuses[s] \in Nat /\ delivered'[s] = delivered[s]
    BY <1>3 DEF OutboxInv, TypeOK
  <2>1. CASE s # r
    <3>1. \A q \in Publishers : (Holds(q, s)' <=> Holds(q, s)) /\ (Waits(q, s)' <=> Waits(q, s))
      BY <1>7, <1>8, <2>1
    <3> QED
      BY <1>4, <2>0, <2>1, <3>1, UntouchedCounted DEF CountInv, OutboxInv
  <2>2. CASE s = r /\ hand[p].ok
    <3>1. \A q \in Publishers : Waits(q, s)' <=> Waits(q, s)
      BY <1>7, <1>9, <2>2
    <3>2. Chance(s)' - excuses'[s] <= Chance(s) - excuses[s]
      <4>1. Chance(s) \in {0, 1} /\ Chance(s)' \in {0, 1}
        BY DEF Chance
      <4>2. CASE row'[r].state = "dispatched" /\ excuses'[r] = excuses[r]
        <5>1. Chance(s)' = 0
          BY <2>2, <4>2 DEF Chance, Claimable
        <5> QED
          BY <2>0, <2>2, <4>1, <4>2, <5>1
      <4>3. CASE excuses'[r] = excuses[r] + 1
        BY <2>0, <2>2, <4>1, <4>3
      <4> QED
        BY <1>5, <2>2, <4>2, <4>3
    <3>3. Chance(s) \in Nat /\ Chance(s)' \in Nat /\ excuses'[s] \in Nat
      BY DEF Chance, OutboxInv, TypeOK
    <3> QED
      BY <2>0, <3>1, <3>2, <3>3, SameWaiting DEF CountInv, OutboxInv
  <2>3. CASE s = r /\ ~hand[p].ok
    <3>1. Chance(s) \in {0, 1} /\ Chance(s)' \in {0, 1} /\ excuses'[s] = excuses[s]
      BY <1>5, <2>3 DEF Chance
    <3>2. delivered'[s] + Chance(s)' - excuses'[s] <= delivered[s] + Chance(s) - excuses[s] + 1
      BY <2>0, <3>1
    <3> QED
      BY <1>7, <1>9, <2>3, <3>2, OneLess DEF CountInv, OutboxInv
  <2> QED
    BY <1>2, <2>1, <2>2, <2>3
<1> QED
  BY <1>10, <1>12, <1>13 DEF CountInv

\* A crash gives up every chance of its publisher; what it had dispatched and
\* not marked is an excuse.
LEMMA CountCrash ==
  ASSUME OutboxInv, OutboxInv', CountInv, NEW p \in Publishers, Crash(p)
  PROVE  CountInv'
<1>1. /\ hand'[p] = Nothing /\ held'[p] = {} /\ row' = row /\ delivered' = delivered
      /\ \A q \in Publishers \ {p} : hand'[q] = hand[q] /\ held'[q] = held[q]
  BY DEF Crash, OutboxInv, TypeOK
<1>2. \A q \in Publishers \ {p}, s \in Rows : (Holds(q, s)' <=> Holds(q, s)) /\ (Waits(q, s)' <=> Waits(q, s))
  BY <1>1 DEF Holds, Waits
<1>3. \A s \in Rows : ~Waits(p, s)' /\ ~Holds(p, s)'
  BY <1>1 DEF Waits, Holds
<1>4. OneClaim' /\ HeldIsPresent'
  BY <1>1, <1>2, <1>3 DEF CountInv, OneClaim, HeldIsPresent
<1>5. ASSUME NEW s \in Rows PROVE Counted(s)'
  <2>0. delivered[s] \in Nat /\ excuses[s] \in Nat /\ delivered'[s] = delivered[s]
    BY <1>1 DEF OutboxInv, TypeOK
  <2>1. Chance(s) \in {0, 1} /\ Chance(s)' \in {0, 1}
    BY DEF Chance
  <2>2. excuses'[s] = excuses[s] \/ excuses'[s] = excuses[s] + 1
    <3>1. hand[p] # Nothing => hand[p].row \in Rows
      BY DEF OutboxInv, TypeOK
    <3> QED
      BY <3>1 DEF Crash, Excused, OutboxInv, TypeOK
  <2>3. CASE Waits(p, s)
    <3>1. delivered'[s] + Chance(s)' - excuses'[s] <= delivered[s] + Chance(s) - excuses[s] + 1
      BY <2>0, <2>1, <2>2
    <3> QED
      BY <1>2, <1>3, <2>3, <3>1, OneLess DEF CountInv, OutboxInv
  <2>4. CASE ~Waits(p, s)
    <3>1. \A q \in Publishers : Waits(q, s)' <=> Waits(q, s)
      BY <1>2, <1>3, <2>4
    <3>2. CASE Holds(p, s)
      <4>1. hand[p] # Nothing /\ hand[p].row = s /\ hand[p].ok
        BY <2>4, <3>2 DEF Holds, Waits
      <4>2. excuses'[s] = excuses[s] + 1
        BY <4>1 DEF Crash, Excused, OutboxInv, TypeOK
      <4>3. delivered'[s] + Chance(s)' - excuses'[s] <= delivered[s] + Chance(s) - excuses[s]
        BY <2>0, <2>1, <4>2
      <4> QED
        BY <3>1, <4>3, SameWaiting DEF CountInv, OutboxInv
    <3>3. CASE ~Holds(p, s)
      <4>1. \A q \in Publishers : Holds(q, s)' <=> Holds(q, s)
        BY <1>2, <1>3, <3>3
      <4>2. Chance(s)' = Chance(s)
        BY <1>1, <4>1 DEF Chance, Claimable
      <4>3. delivered'[s] + Chance(s)' - excuses'[s] <= delivered[s] + Chance(s) - excuses[s]
        BY <2>0, <2>1, <2>2, <4>2
      <4> QED
        BY <3>1, <4>3, SameWaiting DEF CountInv, OutboxInv
    <3> QED
      BY <3>2, <3>3
  <2> QED
    BY <2>3, <2>4
<1> QED
  BY <1>4, <1>5 DEF CountInv

\* The count is kept by every step, one case per action.
LEMMA CountStep == OutboxInv /\ OutboxInv' /\ CountInv /\ [Next]_vars => CountInv'
<1> SUFFICES ASSUME OutboxInv, OutboxInv', CountInv, [Next]_vars PROVE CountInv'
  OBVIOUS
<1>1. CASE UNCHANGED vars
  <2>1. OneClaim' /\ HeldIsPresent'
    BY <1>1 DEF vars, CountInv, OneClaim, HeldIsPresent, Holds
  <2>2. ASSUME NEW s \in Rows PROVE Counted(s)'
    BY <1>1, UntouchedCounted DEF vars, CountInv, OutboxInv, Waits, Holds
  <2> QED
    BY <2>1, <2>2 DEF CountInv
<1>2. ASSUME NEW p \in Publishers, drainOnce(p) PROVE CountInv'
  BY <1>2, CountClaim, CountDispatch, CountMark DEF drainOnce
<1> QED
  BY <1>1, <1>2, CountEnqueue, CountTick, CountCrash DEF Next

\* A row is delivered more than once only for a cause of its own: a lost mark
\* or acknowledgement, or a lease that ran out under its holder
\* (outbox.go:9, "Worst case is duplicate delivery").
THEOREM DuplicatesHaveCauses == Spec => []DuplicatesAreExcused
<1>1. OutboxInv /\ CountInv => DuplicatesAreExcused
  <2> SUFFICES ASSUME OutboxInv, CountInv, NEW r \in Rows
               PROVE  delivered[r] <= 1 + excuses[r]
    BY DEF DuplicatesAreExcused
  <2>1. Cardinality(Waiting(r)) \in Nat
    BY FS_CardinalityType DEF CountInv, Counted
  <2>2. Chance(r) \in Nat /\ delivered[r] \in Nat /\ excuses[r] \in Nat
    BY DEF Chance, OutboxInv, TypeOK
  <2>3. delivered[r] + Cardinality(Waiting(r)) + Chance(r) <= 1 + excuses[r]
    BY DEF CountInv, Counted
  <2> QED
    BY <2>1, <2>2, <2>3
<1>2. Spec => []CountInv
  BY CountInit, CountStep, OutboxInvariant, PTL DEF Spec
<1> QED
  BY <1>1, <1>2, OutboxInvariant, PTL
=============================================================================
