------------------------------- MODULE Outbox -------------------------------
(***************************************************************************)
(* The transactional outbox (internal/outbox/outbox.go): a domain          *)
(* transaction inserts its event as a row, and the publisher of every      *)
(* process of the service claims due rows under a lease, writes them to    *)
(* Kafka and marks them.  Time is the order in which available_at passes:  *)
(* a row is due or not, and becomes due at any moment (Tick), so the one   *)
(* second lease may run out under a slow publisher.                        *)
(***************************************************************************)
EXTENDS Integers, FiniteSets

CONSTANTS
    Rows,        \* outbox row ids, in insertion order
    Publishers,  \* one per process
    Batch,       \* rows a claim takes at most
    Nothing,     \* no dispatch in hand
    MaxFaults    \* bound on crashes, broker and database errors

ASSUME OutboxAssumption ==
    /\ Rows \subseteq Nat /\ IsFiniteSet(Rows)
    /\ Batch \in Nat \ {0} /\ MaxFaults \in Nat
    /\ Nothing \notin [row : Rows, attempts : Nat, ok : BOOLEAN]

VARIABLES
    row,        \* row id -> state, attempts, due (available_at <= NOW())
    held,       \* publisher -> claims (row, attempts) it has still to dispatch
    hand,       \* publisher -> the claim it dispatched and has to mark
    delivered,  \* row id -> messages of it in the topic
    faults,     \* faults so far
    excuses     \* history: row id -> lost marks and leases overrun, see below

vars == <<row, held, hand, delivered, faults, excuses>>

RowStates == {"absent", "pending", "dispatched"}
Pending == {r \in Rows : row[r].state = "pending"}

Init ==
    /\ row = [r \in Rows |-> [state |-> "absent", attempts |-> 0, due |-> FALSE]]
    /\ held = [p \in Publishers |-> {}]
    /\ hand = [p \in Publishers |-> Nothing]
    /\ delivered = [r \in Rows |-> 0]
    /\ faults = 0
    /\ excuses = [r \in Rows |-> 0]

\* Publisher p has claimed row r and not finished with it.
Holds(p, r) == \/ \E c \in held[p] : c.row = r
               \/ hand[p] # Nothing /\ hand[p].row = r

\* A fault is one of finitely many: an outage ends.
Fault == faults < MaxFaults /\ faults' = faults + 1

\* enqueue, in the transaction of the domain change; available_at is now.
EnqueueTx(r) ==
    /\ row[r].state = "absent"
    /\ row' = [row EXCEPT ![r] = [state |-> "pending", attempts |-> 0, due |-> TRUE]]
    /\ UNCHANGED <<held, hand, delivered, faults, excuses>>

\* available_at passes.  When a publisher still holds the row, its lease has
\* run out and another one may take it: a second delivery has its excuse.
Tick(r) ==
    /\ r \in Pending /\ ~row[r].due
    /\ row' = [row EXCEPT ![r].due = TRUE]
    /\ excuses' = IF \E p \in Publishers : Holds(p, r)
                  THEN [excuses EXCEPT ![r] = excuses[r] + 1]
                  ELSE excuses
    /\ UNCHANGED <<held, hand, delivered, faults>>

\* Mutant: available_at is left alone.
ClaimedStillDue(x) == [x EXCEPT !.attempts = x.attempts + 1]

\* The claim's UPDATE of one row.
Claimed(x) == [x EXCEPT !.attempts = x.attempts + 1, !.due = FALSE]

\* Mutant: a row is claimed once.
DueRowsOnce == {r \in Pending : row[r].due /\ row[r].attempts = 0}

\* The first Batch due rows by id.
DueRows == {r \in Pending : row[r].due /\
              Cardinality({q \in Pending : row[q].due /\ q < r}) < Batch}

\* drainOnce starts: one statement selects, locks and leases the rows.
ClaimBatch(p) ==
    /\ held[p] = {} /\ hand[p] = Nothing
    /\ DueRows # {}
    /\ held' = [held EXCEPT ![p] = {[row |-> r, attempts |-> row[r].attempts + 1] : r \in DueRows}]
    /\ row' = [r \in Rows |-> IF r \in DueRows THEN Claimed(row[r]) ELSE row[r]]
    /\ UNCHANGED <<hand, delivered, faults, excuses>>

\* DispatchOutbox of a claimed row (RETURNING promises no order).
DispatchOutbox(p, c) ==
    /\ hand[p] = Nothing
    /\ held' = [held EXCEPT ![p] = held[p] \ {c}]
    /\ \/ /\ hand' = [hand EXCEPT ![p] = [row |-> c.row, attempts |-> c.attempts, ok |-> TRUE]]
          /\ delivered' = [delivered EXCEPT ![c.row] = delivered[c.row] + 1]
          /\ UNCHANGED <<faults, excuses>>
       \/ /\ hand' = [hand EXCEPT ![p] = [row |-> c.row, attempts |-> c.attempts, ok |-> FALSE]]
          /\ Fault
          /\ UNCHANGED <<delivered, excuses>>
       \* the broker has the message and the acknowledgement is lost
       \/ /\ hand' = [hand EXCEPT ![p] = [row |-> c.row, attempts |-> c.attempts, ok |-> FALSE]]
          /\ delivered' = [delivered EXCEPT ![c.row] = delivered[c.row] + 1]
          /\ excuses' = [excuses EXCEPT ![c.row] = excuses[c.row] + 1]
          /\ Fault
    /\ UNCHANGED row

MaxBackoff == 300   \* NewPublisher: five minutes, in seconds

\* backoffFor, in seconds.  2^a seconds are 2^(a+9) * 5^9 nanoseconds; from a
\* = 34 on the product leaves int64, and its sign is that of 5^9 modulo
\* 2^(55-a).  A delay that came out negative or zero is 0: due at once.
backoffFor(attempts) ==
    LET a == IF attempts < 1 THEN 1 ELSE attempts
        wrapped == 1953125 % 2^(55 - a)
    IN  IF a <= 8 THEN 2^a
        ELSE IF a < 34 THEN MaxBackoff
        ELSE IF a < 55 /\ wrapped > 0 /\ wrapped < 2^(54 - a) THEN MaxBackoff
        ELSE 0

\* Mutant: a state of its own for rows that failed.
FailedState(x, attempts) == [x EXCEPT !.state = "failed"]

\* Mutant: a failed row is written off.
FailedForGood(x, attempts) == [x EXCEPT !.state = "dispatched"]

\* MarkFailed's UPDATE, with the attempts the claim returned: available_at
\* moves out; dispatched_at is left alone.
Failed(x, attempts) == [x EXCEPT !.due = backoffFor(attempts) <= 0]

\* MarkDispatched's UPDATE; a retired row is never due again.
Dispatched(x) == [x EXCEPT !.state = "dispatched", !.due = FALSE]

\* A successful dispatch whose mark is lost.
Excused(h) == IF h.ok THEN [excuses EXCEPT ![h.row] = excuses[h.row] + 1] ELSE excuses

\* MarkDispatched or MarkFailed.  A database error is logged and forgotten:
\* the row stays leased and becomes due again.
Mark(p) ==
    /\ hand[p] # Nothing
    /\ LET r == hand[p].row
       IN  \/ /\ row' = [row EXCEPT ![r] = IF hand[p].ok THEN Dispatched(row[r])
                                          ELSE Failed(row[r], hand[p].attempts)]
              /\ UNCHANGED <<faults, excuses>>
           \/ /\ Fault
              /\ excuses' = Excused(hand[p])
              /\ UNCHANGED row
    /\ hand' = [hand EXCEPT ![p] = Nothing]
    /\ UNCHANGED <<held, delivered>>

\* The process dies and restarts: what it had claimed waits for its lease.
Crash(p) ==
    /\ held[p] # {} \/ hand[p] # Nothing
    /\ Fault
    /\ held' = [held EXCEPT ![p] = {}]
    /\ hand' = [hand EXCEPT ![p] = Nothing]
    /\ excuses' = IF hand[p] = Nothing THEN excuses ELSE Excused(hand[p])
    /\ UNCHANGED <<row, delivered>>

drainOnce(p) == ClaimBatch(p) \/ (\E c \in held[p] : DispatchOutbox(p, c)) \/ Mark(p)

Next ==
    \/ \E r \in Rows : EnqueueTx(r)
    \/ \E r \in Rows : Tick(r)
    \/ \E p \in Publishers : drainOnce(p)
    \/ \E p \in Publishers : Crash(p)

\* The publisher's timer always fires again (Run), and time passes.
Fairness ==
    /\ \A p \in Publishers : WF_vars(drainOnce(p))
    /\ \A r \in Rows : WF_vars(Tick(r))

Spec == Init /\ [][Next]_vars /\ Fairness

-----------------------------------------------------------------------------
TypeOK ==
    /\ row \in [Rows -> [state : RowStates, attempts : Nat, due : BOOLEAN]]
    /\ held \in [Publishers -> SUBSET [row : Rows, attempts : Nat]]
    /\ hand \in [Publishers -> {Nothing} \cup [row : Rows, attempts : Nat, ok : BOOLEAN]]
    /\ delivered \in [Rows -> Nat]
    /\ faults \in 0 .. MaxFaults
    /\ excuses \in [Rows -> Nat]

\* A row is retired only when its event is in the topic: no crash, broker
\* error or race between publishers loses one (outbox.go:4-10).
RetiredIsDelivered ==
    \A r \in Rows : row[r].state = "dispatched" => delivered[r] > 0

\* "Worst case is duplicate delivery" (outbox.go:9), and every duplicate has
\* its own cause: a mark or an acknowledgement that was lost, or a lease that
\* ran out under the publisher holding the row.
DuplicatesAreExcused ==
    \A r \in Rows : delivered[r] <= 1 + excuses[r]

\* Every event enqueued with its domain change reaches the topic and its row
\* is retired, through any finite number of faults.
EventuallyRetired ==
    \A r \in Rows : row[r].state = "pending" ~> row[r].state = "dispatched"
=============================================================================
